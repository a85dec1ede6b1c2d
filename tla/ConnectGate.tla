------------------------------ MODULE ConnectGate ------------------------------
(***************************************************************************)
(* A client asks to connect while service processes come and go.  The      *)
(* request looks at the configuration, at the service flag (the memory     *)
(* use in it), at its cookies and at the identity endpoint, and leaves a   *)
(* connection profile that the live process must find.                     *)
(*                                                                         *)
(* The flag and the processes are module Singleton's: every step here is   *)
(* one of its steps with more detail, or leaves its variables alone, so    *)
(* GateSpec implies its Spec.  What happens to a connection once it is     *)
(* served is module ServiceLoop; here a scan takes up everything at once.  *)
(***************************************************************************)
EXTENDS Singleton, Config, Identity

CONSTANTS
  Request,       \* connect requests
  ConfigFile,    \* contents stadhouder.conf may have, if it is there
  Header,        \* Cookie headers a request may have
  Answer,        \* answers the identity endpoint may give
  Memory,        \* sizes the service process may have
  ScanInterval   \* SCAN_INTERVAL_MS

\* The numbers of a configuration are parsed as unsigned ones.
ASSUME GateAssumption ==
  /\ ScanInterval \in Nat \ {0}
  /\ Memory \subseteq Nat \ {0}
  /\ \A lines \in ConfigFile :
       \A key \in {"MEMORY_LIMIT_MB", "MEMORY_REJECT_PCT"} :
         Setting(lines, key).kind = "number" => Setting(lines, key).n \in Nat

VARIABLES
  flagPct,    \* memory_pct of a stamped flag
  limit,      \* per process: the memory limit it loaded when it started
  measured,   \* per process: current_memory_pct
  purged,     \* per process: whether the purge of its start is over
  lastScan,   \* per process: last_scan_ms
  at,         \* where each request is
  config,     \* per request: the configuration it loaded
  header,     \* per request: its Cookie header
  user,       \* per request: whose profile it will be
  tmp,        \* requests whose .tmp_connection file is there
  profile,    \* per request: its profile is absent ("none"), "part", "whole"
  served,     \* connections in the live process's map
  since,      \* history: since when a profile waits to be taken up
  clean       \* history: the last live process removed its flag and left

files == <<flagPct, tmp, profile>>
processes == <<limit, measured, purged, lastScan, served>>
requests == <<at, config, header, user>>
gate == <<files, processes, requests, since, clean>>
gateVars == <<vars, gate>>

\* Who the request says it is for, or who the identity endpoint names.
Claimed == [by |-> "request"]
Verified(id) == [by |-> "endpoint", id |-> id]

GateInit ==
  /\ Init
  /\ flagPct = 0
  /\ limit = [i \in Instance |-> NoLimit]
  /\ measured = [i \in Instance |-> 0]
  /\ purged = [i \in Instance |-> FALSE]
  /\ lastScan = [i \in Instance |-> 0]
  /\ at = [r \in Request |-> "new"]
  /\ config = [r \in Request |-> Default]
  /\ header = [r \in Request |-> {}]
  /\ user = [r \in Request |-> Claimed]
  /\ tmp = {}
  /\ profile = [r \in Request |-> "none"]
  /\ served = {}
  /\ since = [r \in Request |-> 0]
  /\ clean = TRUE

-----------------------------------------------------------------------------
(* The service's side.                                                     *)

\* Config::load.  The administrator may change or remove the file at any
\* time; who has loaded it does not notice.
Loads == {Default} \cup {FromStr(lines) : lines \in ConfigFile}

\* What a division by a limit of no bytes leaves in the flag: infinity is
\* written as null, and null is no number to the reader.
Infinite == 0 - 1
Readable == flagState = "stamped" => flagPct # Infinite

\* A defect to compare with: what exceeds the limit instead of what is used.
MemoryExcess(m, bytes) ==
  IF bytes = NoLimit THEN 0
  ELSE IF bytes = 0 THEN Infinite ELSE (100 * m) \div bytes - 100

\* The size of the process, m, as a percentage of its limit.
MemoryPct(m, bytes) ==
  IF bytes = NoLimit THEN 0
  ELSE IF bytes = 0 THEN Infinite ELSE (100 * m) \div bytes

\* Slot i is free again, and the live process's map is gone with it.
Forget(i) ==
  /\ limit' = [limit EXCEPT ![i] = NoLimit]
  /\ measured' = [measured EXCEPT ![i] = 0]
  /\ purged' = [purged EXCEPT ![i] = FALSE]
  /\ lastScan' = [lastScan EXCEPT ![i] = 0]

\* Steps that need nothing beyond Singleton's.
Plain(i) ==
  /\ Fire(i) \/ (Claim(i) /\ Readable) \/ Truncate(i)
  /\ UNCHANGED gate

\* stadhouder_run loads the configuration before it reads the clock.  (If
\* that fails, or the flag cannot be read, the process ends with an error:
\* GateCrash.)
GateReadClock(i) ==
  /\ ReadClock(i)
  /\ \E c \in Loads : c.ok /\ limit' = [limit EXCEPT ![i] = c.limit]
  /\ UNCHANGED <<files, measured, purged, lastScan, served, requests, since,
                 clean>>

GateDefer(i) ==
  /\ Readable
  /\ Defer(i)
  /\ Forget(i)
  /\ UNCHANGED <<files, served, requests, since, clean>>

\* A flag is written together with a measurement made just before.
Measure(i) ==
  \E m \in Memory :
    /\ measured' = [measured EXCEPT ![i] = MemoryPct(m, limit[i])]
    /\ flagPct' = MemoryPct(m, limit[i])

\* The process is live, its map empty and its last scan backdated.
GateTakeOver(i) ==
  /\ TakeOver(i)
  /\ Measure(i)
  /\ lastScan' = [lastScan EXCEPT ![i] = clock[i] - ScanInterval]
  /\ served' = {}
  /\ clean' = FALSE
  /\ UNCHANGED <<tmp, profile, limit, purged, requests, since>>

\* After the engine's init it deletes every profile it finds (temporary
\* files are not among them).
Purge(i) ==
  /\ pc[i] = "loop"
  /\ ~ purged[i]
  /\ purged' = [purged EXCEPT ![i] = TRUE]
  /\ profile' = [r \in Request |-> "none"]
  /\ since' = [r \in Request |-> 0]
  /\ UNCHANGED <<vars, flagPct, tmp, limit, measured, lastScan,
                 served, requests, clean>>

GateLoopTop(i) ==
  /\ LoopTop(i)
  /\ purged[i]
  /\ UNCHANGED gate

GateRefresh(i) ==
  /\ Refresh(i)
  /\ Measure(i)
  /\ UNCHANGED <<tmp, profile, limit, purged, lastScan, served,
                 requests, since, clean>>

\* A scan is due one interval after the last one.
ScanDue(i) == clock[i] - lastScan[i] >= ScanInterval

\* The scan takes up the profiles that can be read; one that is gone ends
\* its connection.
Scan(i) ==
  /\ pc[i] = "body"
  /\ ScanDue(i)
  /\ lastScan' = [lastScan EXCEPT ![i] = clock[i]]
  /\ served' = {r \in Request : profile[r] = "whole"}
  /\ since' = [r \in Request |-> IF r \in served' THEN 0 ELSE since[r]]
  /\ UNCHANGED <<vars, files, limit, measured, purged, requests, clean>>

\* The process ends a connection, for whatever reason.
Disconnect(i, r) ==
  /\ pc[i] = "body"
  /\ r \in served
  /\ served' = served \ {r}
  /\ profile' = [profile EXCEPT ![r] = "none"]
  /\ UNCHANGED <<vars, flagPct, tmp, limit, measured, purged,
                 lastScan, requests, since, clean>>

GateSleep(i) ==
  /\ Sleep(i)
  /\ ~ ScanDue(i)
  /\ UNCHANGED gate

\* The engine's shutdown tears all connections down, and without any the
\* process may leave by itself.  A profile it has not seen stays.
GateLeave(i) ==
  /\ Leave(i)
  /\ ~ ScanDue(i)
  /\ Forget(i)
  /\ served' = {}
  /\ profile' = [r \in Request |->
                   IF r \in served THEN "none" ELSE profile[r]]
  /\ clean' = TRUE
  /\ UNCHANGED <<flagPct, tmp, requests, since>>

\* A live process that dies leaves its flag and its profiles.
GateCrash(i) ==
  /\ Crash(i)
  /\ Forget(i)
  /\ IF Live(i)
     THEN /\ served' = {}
          /\ since' = [r \in Request |->
                         IF r \in served THEN now ELSE since[r]]
     ELSE UNCHANGED <<served, since>>
  /\ UNCHANGED <<files, requests, clean>>

GateTick == Tick /\ UNCHANGED gate
GateHorizon == Horizon /\ UNCHANGED gate

-----------------------------------------------------------------------------
(* The client's side: one CGI process per request.                         *)

Move(r, where) ==
  /\ at' = [at EXCEPT ![r] = where]
  /\ UNCHANGED <<config, header, user>>

\* The request is over, and what it knew is gone: "connected", "refused"
\* for want of memory, or "over" for any other reason (an error, nobody is
\* signed in, the process was killed).
Finish(r, how) ==
  /\ at' = [at EXCEPT ![r] = how]
  /\ config' = [config EXCEPT ![r] = Default]
  /\ header' = [header EXCEPT ![r] = {}]
  /\ user' = [user EXCEPT ![r] = Claimed]

\* A connect request loads the configuration; an invalid one fails it.
BeginConnect(r) ==
  /\ at[r] = "new"
  /\ \E c \in Loads, h \in Header :
       \/ /\ c.ok
          /\ at' = [at EXCEPT ![r] = "checking"]
          /\ config' = [config EXCEPT ![r] = c]
          /\ header' = [header EXCEPT ![r] = h]
          /\ UNCHANGED user
       \/ ~ c.ok /\ Finish(r, "over")
  /\ UNCHANGED <<vars, files, processes, since, clean>>

\* A defect to compare with: a flag without contents is taken for a full
\* service.
OverUnlessRoom(r) ==
  flagState # "absent" /\ ~ (flagState = "stamped" /\ flagPct < config[r].reject)

\* The flag says that the service is full, whoever wrote it and whenever.
Over(r) == flagState = "stamped" /\ flagPct >= config[r].reject

\* A defect to compare with: a request without cookies is let through.
CookieIfAny(r) ==
  config[r].cookie # NotSet /\ header[r] # {} =>
    HasCookie(header[r], config[r].cookie.word)

CookieThere(r) ==
  config[r].cookie # NotSet => HasCookie(header[r], config[r].cookie.word)

\* The flag is read, then the cookie is looked for, then the identity.
CheckFlag(r) ==
  /\ at[r] = "checking"
  /\ \/ ~ Readable /\ Finish(r, "over")
     \/ Readable /\ Over(r) /\ Finish(r, "refused")
     \/ /\ Readable /\ ~ Over(r)
        /\ \/ ~ CookieThere(r) /\ Finish(r, "over")
           \/ CookieThere(r) /\ config[r].url = NotSet /\ Move(r, "admitted")
           \/ CookieThere(r) /\ config[r].url # NotSet /\ Move(r, "asking")
  /\ UNCHANGED <<vars, files, processes, since, clean>>

\* The identity endpoint answers, after any time, if it is clear where in
\* its answer the id is.
Ask(r) ==
  /\ at[r] = "asking"
  /\ \/ config[r].json = NotSet /\ Finish(r, "over")
     \/ /\ config[r].json # NotSet
        /\ \E a \in Answer :
             LET v == VerifyUser(a, config[r].json.word)
             IN  \/ /\ v.verdict = "user"
                    /\ at' = [at EXCEPT ![r] = "admitted"]
                    /\ user' = [user EXCEPT ![r] = Verified(v.id)]
                    /\ UNCHANGED <<config, header>>
                 \/ v.verdict = "nobody" /\ Finish(r, "over")
                 \/ v.verdict = "error" /\ Finish(r, "over")
  /\ UNCHANGED <<vars, files, processes, since, clean>>

\* A defect to compare with: the profile is written where the scan looks.
BeginSaveInPlace(r) ==
  /\ at[r] = "admitted"
  /\ Move(r, "saving")
  /\ profile' = [profile EXCEPT ![r] = "part"]
  /\ since' = [since EXCEPT ![r] = now]
  /\ UNCHANGED <<vars, flagPct, tmp, processes, clean>>

\* The profile is written under a name that no scan looks at ...
BeginSave(r) ==
  /\ at[r] = "admitted"
  /\ Move(r, "saving")
  /\ tmp' = tmp \cup {r}
  /\ UNCHANGED <<vars, flagPct, profile, processes, since,
                 clean>>

\* ... and moved into place when it is whole.
EndSave(r) ==
  /\ at[r] = "saving"
  /\ Finish(r, "connected")
  /\ tmp' = tmp \ {r}
  /\ profile' = [profile EXCEPT ![r] = "whole"]
  /\ since' = [since EXCEPT ![r] = now]
  /\ UNCHANGED <<vars, flagPct, processes, clean>>

Active == {"checking", "asking", "admitted", "saving"}

\* The web server may end a request at any point.
Die(r) ==
  /\ at[r] \in Active
  /\ Finish(r, "over")
  /\ UNCHANGED <<vars, files, processes, since, clean>>

\* A close request of the client deletes the profile.
Close(r) ==
  /\ profile[r] = "whole"
  /\ profile' = [profile EXCEPT ![r] = "none"]
  /\ since' = [since EXCEPT ![r] = 0]
  /\ UNCHANGED <<vars, flagPct, tmp, processes, requests, clean>>

-----------------------------------------------------------------------------
Serve(i) ==
  \/ Plain(i) \/ GateReadClock(i) \/ GateDefer(i) \/ GateTakeOver(i)
  \/ Purge(i) \/ GateLoopTop(i) \/ GateRefresh(i) \/ Scan(i)
  \/ (\E r \in Request : Disconnect(i, r))
  \/ GateSleep(i) \/ GateLeave(i) \/ GateCrash(i)

Connect(r) ==
  \/ BeginConnect(r) \/ CheckFlag(r) \/ Ask(r) \/ BeginSave(r) \/ EndSave(r)
  \/ Die(r) \/ Close(r)

GateNext ==
  \/ GateTick \/ GateHorizon
  \/ (\E i \in Instance : Serve(i))
  \/ (\E r \in Request : Connect(r))

GateSpec == GateInit /\ [][GateNext]_gateVars

-----------------------------------------------------------------------------
NoneLive == \A i \in Instance : ~ Live(i)

GateTypeOK ==
  /\ flagPct \in Nat \cup {Infinite}
  /\ limit \in [Instance -> Nat \cup {NoLimit}]
  /\ measured \in [Instance -> Nat \cup {Infinite}]
  /\ purged \in [Instance -> BOOLEAN]
  /\ lastScan \in [Instance -> Int]
  /\ at \in [Request -> Active \cup {"new", "connected", "refused", "over"}]
  /\ tmp \subseteq Request
  /\ profile \in [Request -> {"none", "part", "whole"}]
  /\ served \subseteq Request
  /\ since \in [Request -> Nat]
  /\ clean \in BOOLEAN

\* connect refuses for memory only what the present service measured, or
\* the one that crashed and whose flag still stands: the live process has a
\* limit and its latest measurement is the one that counted, at most one
\* refresh old; or nobody is live, which cannot last, and the last live
\* process did not leave by itself ("No flag never blocks a connect").
Justified ==
  \/ \E i \in Instance :
       /\ Live(i)
       /\ limit[i] # NoLimit
       /\ flagPct = measured[i]
       /\ now - flagTime < Update + 5 * Lag
  \/ /\ NoneLive
     /\ ~ clean
     /\ now - downSince <= Stale + CronPeriod + 4 * Lag

RefusalsNow ==
  \A r \in Request : at[r] # "refused" /\ at'[r] = "refused" => Justified

RefusalIsJustified == [][RefusalsNow]_gateVars

\* A profile in the directory is soon taken up by the live process or gone:
\* past the purge of that process's start none waits for a scan interval and
\* the seven steps of an iteration with a refresh.  A request that dies while it saves leaves
\* nothing where the scan looks that would wait forever.
ProfilesAreTakenUpSoon ==
  \A i \in Instance : \A r \in Request \ served :
    Live(i) /\ purged[i] /\ profile[r] # "none" =>
      now - since[r] < ScanInterval + 7 * Lag

\* Every profile was earned under the configuration its request loaded: the
\* cookie was there, and where an identity endpoint is configured the user
\* is the one it named, never the one the request claimed.
EarnedNow ==
  \A r \in Request :
    profile[r] = "none" /\ profile'[r] # "none" =>
      /\ config[r].cookie # NotSet =>
           HasCookie(header[r], config[r].cookie.word)
      /\ config[r].url # NotSet => user[r].by = "endpoint" /\ user[r].id # ""

ProfilesAreEarned == [][EarnedNow]_gateVars
===============================================================================
