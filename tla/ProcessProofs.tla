---------------------------- MODULE ProcessProofs ----------------------------
(***************************************************************************)
(* Theorems about module Process: that no child is left over, that it runs *)
(* with the configuration on disk, that this and the DNS name one tunnel,  *)
(* and that saved settings are never a mixture, for any number of          *)
(* requests, tunnels, forms and starts of the process.                     *)
(***************************************************************************)
EXTENDS Process, TLAPS

Value == Host \cup {Blank, None, "web", "plc", "587", "25"}
Request ==
  [at : {"idle", "create", "cname", "creds", "conf", "bump", "signal", "url", "method", "store"},
   host : Host \cup {None}, tunnel : Tunnel \cup {0}, form : Settings, todo : SUBSET SettingKey,
   alone : BOOLEAN]
Supervised ==
  [at : {"loop", "ready", "spawn", "started", "wait", "pause", "ended"},
   gen : Nat, cancelled : BOOLEAN, cmd : BOOLEAN]
Configuration == [tunnel : Tunnel \cup {0}, host : Host \cup {None}] \cup {None}

(***************************************************************************)
(* The inductive invariant.                                                *)
(***************************************************************************)
Types ==
  /\ creds \in Tunnel \cup {0} /\ conf \in Configuration
  /\ dns \in [Host -> Tunnel \cup {0}] /\ made \in 0..MaxTunnels
  /\ saved \in [SettingKey -> Value] /\ last \in [SettingKey -> Value] /\ running \in Settings
  /\ saved.public_url \in Host \cup {Blank, None} /\ saved.did_method \in {"web", "plc", None}
  /\ saved.smtp_port \in {"587", "25", Blank, None}
  /\ sup \in Supervised /\ generation \in Nat
  /\ child # None => child \in [conf : Configuration, dying : BOOLEAN]
  /\ stop \in [Stopper -> {"idle", "signal", "await", "kill", "last", "returned"}]
  /\ req \in [Req -> Request]
  /\ starts \in 0..MaxStarts /\ boots \in 0..MaxBoots

\* A request knows what it is about: a tunnel set-up its host and, once
\* chosen, its tunnel, and a put a form that can be put.
Proper ==
  \A r \in Req :
    /\ req[r].at \notin {"idle", "store"} => req[r].host \in Host
    /\ req[r].at \in {"cname", "creds", "conf"} => req[r].tunnel \in Tunnel
    /\ req[r].at = "store" => Valid(req[r].form)

\* m.cmd is set while the supervisor waits, there is no child elsewhere, and
\* a call of Stop has returned only when the supervisor has ended.
Watched ==
  /\ sup.cmd <=> sup.at = "wait"
  /\ child # None => sup.at \in {"started", "wait"}
  /\ \A s \in Stopper : stop[s] = "returned" => sup.at = "ended"

\* Who changes the configuration is on the way to stop the child.
Current ==
  child # None /\ ~child.dying /\ ~missed /\ child.conf # conf
  => \E r \in Req : req[r].at \in {"bump", "signal"}

\* While one request provisions at a time: what is on disk and in the DNS
\* names one tunnel at every step, and the one that provisions uses it, or
\* there is nothing on disk.
OneProvisions ==
  ~mixed =>
    /\ \A r, q \in Req : Provisioning(r) /\ Provisioning(q) => r = q
    /\ conf # None => conf.host \in Host /\ conf.tunnel = creds /\ dns[conf.host] = creds /\ creds # 0
    /\ \A r \in Req :
         /\ req[r].at = "create" => creds = 0
         /\ req[r].at \in {"cname", "creds"} => creds \in {0, req[r].tunnel}
         /\ req[r].at = "creds" => dns[req[r].host] = req[r].tunnel
         /\ req[r].at = "conf" => dns[req[r].host] = req[r].tunnel /\ creds = req[r].tunnel

\* What a request has written of its form is still there, if it is the only
\* one that writes or has been so since it began.
Written ==
  /\ \A r \in Req : req[r].at = "store" /\ (req[r].alone \/ ~torn) =>
       \A k \in SettingKey \ req[r].todo : saved[k] = req[r].form[k]
  /\ ~torn => \A r, q \in Req : Writing(r) /\ Writing(q) => r = q
  /\ ~torn => \A r \in Req : req[r].at = "method" =>
       saved = [last EXCEPT !.public_url = req[r].host]
  /\ ~torn /\ (\A r \in Req : ~Writing(r)) => saved = last

\* An address is never stored empty, and without a write since the start the
\* process runs with what is saved.
Loaded ==
  /\ saved.public_url # Blank
  /\ fresh /\ saved.smtp_port # Blank => settingsEqual(saved, running)

IInv == Types /\ Proper /\ Watched /\ Current /\ OneProvisions /\ Written /\ Loaded

-----------------------------------------------------------------------------
(***************************************************************************)
(* What moving, starting and ending a request and a write change.          *)
(***************************************************************************)
Places == {"idle", "create", "cname", "creds", "conf", "bump", "signal", "url", "method", "store"}

\* The requests other than r stay.
Others(r) == \A q \in Req \ {r} : req'[q] = req[q]

\* What request r is about stays.
Kept(r) ==
  /\ req'[r].host = req[r].host /\ req'[r].tunnel = req[r].tunnel /\ req'[r].form = req[r].form
  /\ req'[r].todo = req[r].todo /\ req'[r].alone = req[r].alone

\* Settings are functions on the keys.
LEMMA SettingsAreFunctions ==
  ASSUME NEW f \in Settings
  PROVE  /\ f \in [SettingKey -> Value] /\ f.public_url \in Host \cup {Blank}
         /\ f.did_method \in {"web", "plc"} /\ f.smtp_port \in {"587", "25", Blank}
BY DEF Settings, SettingKey, Value

\* The idle request is about nothing.
LEMMA IdleFields == Idle \in Request /\ Idle.at = "idle"
BY ProcessAssumption DEF Idle, Request

\* Moving a request on.
LEMMA GoFacts ==
  ASSUME req \in [Req -> Request], NEW r \in Req, NEW a \in Places, Go(r, a)
  PROVE  req' \in [Req -> Request] /\ Others(r) /\ Kept(r) /\ req'[r].at = a
<1>1. [req[r] EXCEPT !.at = a] \in Request
  BY DEF Request, Places
<1>2. req' = [req EXCEPT ![r] = [req[r] EXCEPT !.at = a]]
  BY DEF Go
<1>3. req'[r] = [req[r] EXCEPT !.at = a] /\ Others(r)
  BY <1>2 DEF Others
<1> QED
  BY <1>1, <1>2, <1>3 DEF Request, Kept

\* Ending one.
LEMMA EndFacts ==
  ASSUME req \in [Req -> Request], NEW r \in Req, End(r)
  PROVE  req' \in [Req -> Request] /\ Others(r) /\ req'[r] = Idle
BY IdleFields DEF End, Others

\* Starting one.
LEMMA StartFacts ==
  ASSUME req \in [Req -> Request], starts \in 0..MaxStarts, NEW r \in Req, NEW x \in Request,
         Start(r, x)
  PROVE  /\ req' \in [Req -> Request] /\ Others(r) /\ req[r].at = "idle" /\ req'[r] = x
         /\ starts' \in 0..MaxStarts
BY ProcessAssumption DEF Start, Others, At

\* Storing one setting.
LEMMA StoreFacts ==
  ASSUME req \in [Req -> Request], saved \in [SettingKey -> Value], NEW r \in Req,
         NEW k \in SettingKey, NEW v \in Value, NEW next \in Request, Store(r, k, v, next)
  PROVE  /\ req' \in [Req -> Request] /\ req'[r] = next
         /\ \A q \in Req \ {r} :
              /\ req'[q].at = req[q].at /\ req'[q].host = req[q].host
              /\ req'[q].tunnel = req[q].tunnel /\ req'[q].form = req[q].form
              /\ req'[q].todo = req[q].todo /\ req'[q].alone = FALSE
         /\ saved' = [saved EXCEPT ![k] = v] /\ saved' \in [SettingKey -> Value]
         /\ fresh' = FALSE
<1>1. \A q \in Req : [req[q] EXCEPT !.alone = FALSE] \in Request
  BY DEF Request
<1>2. req' \in [Req -> Request]
  BY <1>1 DEF Store
<1>3. req'[r] = next
  BY DEF Store
<1>4. \A q \in Req \ {r} : req'[q] = [req[q] EXCEPT !.alone = FALSE]
  BY DEF Store
<1>5. ASSUME NEW q \in Req \ {r}
      PROVE  /\ req'[q].at = req[q].at /\ req'[q].host = req[q].host
             /\ req'[q].tunnel = req[q].tunnel /\ req'[q].form = req[q].form
             /\ req'[q].todo = req[q].todo /\ req'[q].alone = FALSE
  <2>1. req[q] \in Request /\ req'[q] = [req[q] EXCEPT !.alone = FALSE]
    BY <1>4
  <2> QED
    BY <2>1 DEF Request
<1> QED
  BY <1>2, <1>3, <1>5 DEF Store

\* The supervisor and Stop leave the requests and what they write alone.
LEMMA RequestsStay ==
  ASSUME IInv, UNCHANGED <<files, cloud, settings, req, mixed>>
  PROVE  Proper' /\ OneProvisions' /\ Written' /\ Loaded'
BY DEF IInv, files, cloud, settings, Proper, OneProvisions, Written, Loaded,
   Provisioning, Writing,
   settingsEqual

\* A request that does not provision leaves what is provisioned alone.
LEMMA ProvisionsStay ==
  ASSUME IInv, NEW r \in Req, req'[r].at \notin {"create", "cname", "creds", "conf"},
         \A q \in Req \ {r} : /\ req'[q].at = req[q].at /\ req'[q].host = req[q].host
                             /\ req'[q].tunnel = req[q].tunnel,
         UNCHANGED <<creds, conf, dns, mixed>>
  PROVE  OneProvisions'
<1> USE DEF IInv
<1>1. \A q \in Req : req'[q].at \in {"create", "cname", "creds", "conf"} =>
        /\ req'[q].at = req[q].at /\ req'[q].host = req[q].host
        /\ req'[q].tunnel = req[q].tunnel
  OBVIOUS
<1> QED
  BY <1>1 DEF OneProvisions, Provisioning

\* A request that writes no settings, before and after, leaves them alone.
LEMMA WrittenStays ==
  ASSUME IInv, NEW r \in Req, Others(r), UNCHANGED <<saved, last, torn>>,
         req[r].at \notin {"store", "method"}, req'[r].at \notin {"store", "method"}
  PROVE  Written'
<1> USE DEF IInv
<1>1. \A q \in Req : Writing(q)' <=> Writing(q)
  BY DEF Others, Writing
<1>2. \A q \in Req : Writing(q) => req'[q] = req[q]
  BY DEF Others, Writing
<1> QED
  BY <1>1, <1>2 DEF Written, Writing

\* What the supervisor does not touch of the types.
LEMMA TypesStay ==
  ASSUME IInv, UNCHANGED <<files, cloud, settings, req, starts, boots>>,
         sup' \in Supervised, generation' \in Nat,
         child' # None => child' \in [conf : Configuration, dying : BOOLEAN],
         stop' \in [Stopper -> {"idle", "signal", "await", "kill", "last", "returned"}]
  PROVE  Types'
BY DEF IInv, files, cloud, settings, Types

\* A signal ends a child, if m.cmd is set, and changes nothing else of it.
LEMMA TermFacts ==
  ASSUME child # None => child \in [conf : Configuration, dying : BOOLEAN], Term
  PROVE  child' # None => /\ child # None
                          /\ child' \in [conf : Configuration, dying : BOOLEAN]
                          /\ child'.conf = child.conf
                          /\ child.dying \/ sup.cmd => child'.dying
                          /\ ~sup.cmd => child' = child
<1>1. CASE sup.cmd /\ child # None
  <2> DEFINE x == [child EXCEPT !.dying = TRUE]
  <2>1. x \in [conf : Configuration, dying : BOOLEAN] /\ x.conf = child.conf /\ x.dying = TRUE
    BY <1>1
  <2> QED
    BY <1>1, <2>1 DEF Term
<1>2. CASE ~(sup.cmd /\ child # None)
  BY <1>2 DEF Term
<1> QED
  BY <1>1, <1>2
-----------------------------------------------------------------------------
(***************************************************************************)
(* The supervisor, its child and Stop.                                     *)
(***************************************************************************)
\* The supervisor at the top of its loop.
LEMMA LoopStep ==
  ASSUME IInv, Loop
  PROVE  IInv'
<1> USE DEF IInv
<1>1. sup' \in Supervised /\ sup'.at \in {"ended", "ready"} /\ sup'.cmd = sup.cmd
  BY DEF Loop, Step, Types, Supervised
<1>9. Proper' /\ OneProvisions' /\ Written' /\ Loaded'
  BY RequestsStay DEF Loop
<1>11. Types'
  BY <1>1, TypesStay DEF Loop, Types
<1>12. Watched'
  BY <1>1 DEF Loop, Watched, Stopper
<1>13. Current'
  BY <1>1 DEF Loop, Current, files
<1> QED
  BY <1>9, <1>11, <1>12, <1>13

\* It looks for the configuration and the binary.
LEMMA ReadyStep ==
  ASSUME IInv, Ready
  PROVE  IInv'
<1> USE DEF IInv
<1>1. sup' \in Supervised /\ sup'.at \in {"spawn", "pause"} /\ sup'.cmd = sup.cmd
  BY DEF Ready, Step, Types, Supervised
<1>9. Proper' /\ OneProvisions' /\ Written' /\ Loaded'
  BY RequestsStay DEF Ready
<1>11. Types'
  BY <1>1, TypesStay DEF Ready, Types
<1>12. Watched'
  BY <1>1 DEF Ready, Watched, Stopper
<1>13. Current'
  BY <1>1 DEF Ready, Current, files
<1> QED
  BY <1>9, <1>11, <1>12, <1>13

\* It starts the child.
LEMMA SpawnStep ==
  ASSUME IInv, Spawn
  PROVE  IInv'
<1> USE DEF IInv
<1>1. /\ sup' \in Supervised /\ sup'.at = "started" /\ sup'.cmd = sup.cmd
      /\ child' \in [conf : Configuration, dying : BOOLEAN] /\ child'.conf = conf
  BY DEF Spawn, Step, Types, Supervised
<1>9. Proper' /\ OneProvisions' /\ Written' /\ Loaded'
  BY RequestsStay DEF Spawn
<1>11. Types'
  BY <1>1, TypesStay DEF Spawn, Types
<1>12. Watched'
  BY <1>1 DEF Spawn, Watched, Stopper
<1>13. Current'
  BY <1>1 DEF Spawn, Current, files
<1> QED
  BY <1>9, <1>11, <1>12, <1>13

\* The child does not start.
LEMMA SpawnFailsStep ==
  ASSUME IInv, SpawnFails
  PROVE  IInv'
<1> USE DEF IInv
<1>1. sup' \in Supervised /\ sup'.at = "pause" /\ sup'.cmd = sup.cmd
  BY DEF SpawnFails, Step, Types, Supervised
<1>9. Proper' /\ OneProvisions' /\ Written' /\ Loaded'
  BY RequestsStay DEF SpawnFails
<1>11. Types'
  BY <1>1, TypesStay DEF SpawnFails, Types
<1>12. Watched'
  BY <1>1 DEF SpawnFails, Watched, Stopper
<1>13. Current'
  BY <1>1 DEF SpawnFails, Current, files
<1> QED
  BY <1>9, <1>11, <1>12, <1>13

\* It sets m.cmd.
LEMMA RegisterStep ==
  ASSUME IInv, Register
  PROVE  IInv'
<1> USE DEF IInv
<1>1. sup' \in Supervised /\ sup'.at = "wait" /\ sup'.cmd = TRUE
  BY DEF Register, Step, Types, Supervised
<1>9. Proper' /\ OneProvisions' /\ Written' /\ Loaded'
  BY RequestsStay DEF Register
<1>11. Types'
  BY <1>1, TypesStay DEF Register, Types
<1>12. Watched'
  BY <1>1 DEF Register, Watched, Stopper
<1>13. Current'
  BY <1>1 DEF Register, Current, files
<1> QED
  BY <1>9, <1>11, <1>12, <1>13

\* The child has ended.
LEMMA WaitedStep ==
  ASSUME IInv, Waited
  PROVE  IInv'
<1> USE DEF IInv
<1>1. sup' \in Supervised /\ sup'.at \in {"ended", "loop", "pause"} /\ sup'.cmd = FALSE
  BY DEF Waited, Step, Types, Supervised
<1>9. Proper' /\ OneProvisions' /\ Written' /\ Loaded'
  BY RequestsStay DEF Waited
<1>11. Types'
  BY <1>1, TypesStay DEF Waited, Types
<1>12. Watched'
  BY <1>1 DEF Waited, Watched, Stopper
<1>13. Current'
  BY <1>1 DEF Waited, Current, files
<1> QED
  BY <1>9, <1>11, <1>12, <1>13

\* It waits before the next child.
LEMMA PauseStep ==
  ASSUME IInv, Pause
  PROVE  IInv'
<1> USE DEF IInv
<1>1. sup' \in Supervised /\ sup'.at \in {"loop", "ended"} /\ sup'.cmd = sup.cmd
  BY DEF Pause, Step, Types, Supervised
<1>9. Proper' /\ OneProvisions' /\ Written' /\ Loaded'
  BY RequestsStay DEF Pause
<1>11. Types'
  BY <1>1, TypesStay DEF Pause, Types
<1>12. Watched'
  BY <1>1 DEF Pause, Watched, Stopper
<1>13. Current'
  BY <1>1 DEF Pause, Current, files
<1> QED
  BY <1>9, <1>11, <1>12, <1>13

\* The child ends.
LEMMA ChildExitsStep ==
  ASSUME IInv, ChildExits
  PROVE  IInv'
<1> USE DEF IInv
<1>1. child' = None /\ UNCHANGED sup
  BY DEF ChildExits, Step, Types, Supervised
<1>9. Proper' /\ OneProvisions' /\ Written' /\ Loaded'
  BY RequestsStay DEF ChildExits
<1>11. Types'
  BY <1>1, TypesStay DEF ChildExits, Types
<1>12. Watched'
  BY <1>1 DEF ChildExits, Watched, Stopper
<1>13. Current'
  BY <1>1 DEF ChildExits, Current, files
<1> QED
  BY <1>9, <1>11, <1>12, <1>13

\* Stop cancels the supervisor's context.
LEMMA CancelStep ==
  ASSUME IInv, NEW s \in Stopper, Cancel(s)
  PROVE  IInv'
<1> USE DEF IInv
<1>1. /\ sup' \in Supervised /\ sup'.at = sup.at /\ sup'.cmd = sup.cmd
      /\ stop' = [stop EXCEPT ![s] = "signal"]
  BY DEF Cancel, Step, Types, Supervised
<1>9. Proper' /\ OneProvisions' /\ Written' /\ Loaded'
  BY RequestsStay DEF Cancel
<1>11. Types'
  BY <1>1, TypesStay DEF Cancel, Types
<1>12. Watched'
  BY <1>1 DEF Cancel, Watched, Stopper
<1>13. Current'
  BY <1>1 DEF Cancel, Current, files
<1> QED
  BY <1>9, <1>11, <1>12, <1>13

\* Stop signals the child.
LEMMA SignalTermStep ==
  ASSUME IInv, NEW s \in Stopper, SignalTerm(s)
  PROVE  IInv'
<1> USE DEF IInv
<1>1. child' # None => /\ child # None
                       /\ child' \in [conf : Configuration, dying : BOOLEAN]
                       /\ child'.conf = child.conf
                       /\ child.dying \/ sup.cmd => child'.dying
                       /\ ~sup.cmd => child' = child
  BY TermFacts DEF SignalTerm, Types
<1>9. Proper' /\ OneProvisions' /\ Written' /\ Loaded'
  BY RequestsStay DEF SignalTerm
<1>11. Types'
  BY <1>1, TypesStay DEF SignalTerm, Types
<1>12. Watched'
  BY <1>1 DEF SignalTerm, Watched, Stopper
<1>13. Current'
  BY <1>1 DEF SignalTerm, Current, files
<1> QED
  BY <1>9, <1>11, <1>12, <1>13

\* Stop's time is over.
LEMMA TimeoutStep ==
  ASSUME IInv, NEW s \in Stopper, Timeout(s)
  PROVE  IInv'
<1> USE DEF IInv
<1>9. Proper' /\ OneProvisions' /\ Written' /\ Loaded'
  BY RequestsStay DEF Timeout, tunnelVars
<1>11. Types'
  BY TypesStay DEF Timeout, Types, tunnelVars
<1>12. Watched'
  BY DEF Timeout, Watched, Stopper, tunnelVars, Types
<1>13. Current'
  BY DEF Timeout, Current, files, tunnelVars
<1> QED
  BY <1>9, <1>11, <1>12, <1>13

\* Stop kills the child.
LEMMA KillStep ==
  ASSUME IInv, NEW s \in Stopper, Kill(s)
  PROVE  IInv'
<1> USE DEF IInv
<1>9. Proper' /\ OneProvisions' /\ Written' /\ Loaded'
  BY RequestsStay DEF Kill, tunnelVars
<1>11. Types'
  BY TypesStay DEF Kill, Types, tunnelVars
<1>12. Watched'
  BY DEF Kill, Watched, Stopper, tunnelVars, Types
<1>13. Current'
  BY DEF Kill, Current, files, tunnelVars
<1> QED
  BY <1>9, <1>11, <1>12, <1>13

\* Stop returns.
LEMMA ReturnStep ==
  ASSUME IInv, NEW s \in Stopper, Return(s)
  PROVE  IInv'
<1> USE DEF IInv
<1>9. Proper' /\ OneProvisions' /\ Written' /\ Loaded'
  BY RequestsStay DEF Return, tunnelVars
<1>11. Types'
  BY TypesStay DEF Return, Types, tunnelVars
<1>12. Watched'
  BY DEF Return, Watched, Stopper, tunnelVars, Types
<1>13. Current'
  BY DEF Return, Current, files, tunnelVars
<1> QED
  BY <1>9, <1>11, <1>12, <1>13

\* The program cannot be started again.
LEMMA ExecFailsStep ==
  ASSUME IInv, ExecFails
  PROVE  IInv'
<1> USE DEF IInv
<1>9. Proper' /\ OneProvisions' /\ Written' /\ Loaded'
  BY RequestsStay DEF ExecFails, tunnelVars
<1>11. Types'
  BY TypesStay DEF ExecFails, Types, tunnelVars, Stopper
<1>12. Watched'
  BY DEF ExecFails, Watched, Stopper, tunnelVars, Types
<1>13. Current'
  BY DEF ExecFails, Current, files, tunnelVars
<1> QED
  BY <1>9, <1>11, <1>12, <1>13

-----------------------------------------------------------------------------
(***************************************************************************)
(* The process starts again.                                               *)
(***************************************************************************)
\* The saved settings apply to the environment's.
LEMMA ApplyFacts ==
  ASSUME Types
  PROVE  ApplySettings(Env, saved) \in Settings
<1> DEFINE f == ApplySettings(Env, saved)
<1>0. /\ Env \in [SettingKey -> Value] /\ Env.public_url \in Host \cup {Blank}
      /\ Env.did_method \in {"web", "plc"} /\ Env.smtp_port \in {"587", "25", Blank}
  BY ProcessAssumption, SettingsAreFunctions
<1>1. f \in [SettingKey -> Value]
  BY <1>0 DEF ApplySettings, Types
<1>2. /\ f.public_url \in Host \cup {Blank} /\ f.did_method \in {"web", "plc"}
      /\ f.smtp_port \in {"587", "25", Blank}
  BY <1>0 DEF ApplySettings, Types, SettingKey
<1>3. [public_url |-> f.public_url, did_method |-> f.did_method, smtp_port |-> f.smtp_port] \in Settings
  BY <1>2 DEF Settings
<1> HIDE DEF f
<1>4. f = [public_url |-> f.public_url, did_method |-> f.did_method, smtp_port |-> f.smtp_port]
  BY <1>1 DEF SettingKey
<1> QED
  BY <1>3, <1>4 DEF f

\* A start of the process that finds no child.
LEMMA BootStep ==
  ASSUME IInv, Boot, child' = None
  PROVE  IInv'
<1> USE DEF IInv
<1>1. /\ \A r \in Req : req'[r] = Idle
      /\ req' \in [Req -> Request]
      /\ sup' \in Supervised /\ sup'.at = "loop" /\ sup'.cmd = FALSE
      /\ running' \in Settings
  BY IdleFields, ApplyFacts DEF Boot, Started, Supervised
<1>2. boots' \in 0..MaxBoots
  BY ProcessAssumption DEF Boot, Types
<1>3. running' = ApplySettings(Env, saved) /\ saved' = saved /\ "public_url" \in SettingKey
  BY DEF Boot, SettingKey
<1>11. Types'
  BY <1>1, <1>2 DEF Boot, files, cloud, Types, Stopper
<1>12. Proper'
  BY <1>1, IdleFields DEF Proper
<1>13. Watched'
  BY <1>1, IdleFields DEF Boot, Watched, Stopper
<1>14. Current'
  BY <1>1, IdleFields DEF Boot, Current
<1>15. OneProvisions'
  BY <1>1, IdleFields DEF Boot, files, cloud, OneProvisions, Provisioning
<1>16. Written'
  BY <1>1, IdleFields DEF Boot, Written, Writing
<1>17. Loaded'
  BY <1>3 DEF Loaded, settingsEqual, ApplySettings, SettingKey
<1> QED
  BY <1>11, <1>12, <1>13, <1>14, <1>15, <1>16, <1>17

\* The program is executed again, is started again, or has crashed.
LEMMA EndsStep ==
  ASSUME IInv, Exec \/ Exit \/ Crash
  PROVE  IInv'
<1>1. Boot
  BY DEF Exec, Exit, Crash
<1>2. child' = None
  BY DEF Exec, Exit, Crash, IInv, Watched, Stopper
<1> QED
  BY <1>1, <1>2, BootStep

-----------------------------------------------------------------------------
(***************************************************************************)
(* Setting up a tunnel.                                                    *)
(***************************************************************************)
\* A set-up takes the tunnel of the credentials, or wants a new one.
LEMMA BeginApplyStep ==
  ASSUME IInv, NEW r \in Req, NEW h \in Host, BeginApply(r, h)
  PROVE  IInv'
<1> USE DEF IInv
<1>0. /\ req \in [Req -> Request] /\ req[r] \in Request /\ starts \in 0..MaxStarts
      /\ saved \in [SettingKey -> Value]
  BY DEF Types
<1> DEFINE x == IF creds # 0 THEN [Idle EXCEPT !.at = "cname", !.host = h, !.tunnel = creds]
               ELSE [Idle EXCEPT !.at = "create", !.host = h]
<1>a. /\ x \in Request /\ x.host = h
      /\ creds # 0 => x.at = "cname" /\ x.tunnel = creds
      /\ creds = 0 => x.at = "create"
  <2>1. CASE creds # 0
    BY <2>1, ProcessAssumption DEF Idle, Request, Types
  <2>2. CASE creds = 0
    BY <2>2, ProcessAssumption DEF Idle, Request, Types
  <2> QED
    BY <2>1, <2>2
<1>b. Start(r, x)
  BY DEF BeginApply
<1> HIDE DEF x
<1>1. /\ req' \in [Req -> Request] /\ Others(r) /\ req[r].at = "idle" /\ req'[r] = x
      /\ starts' \in 0..MaxStarts
  BY <1>0, <1>a, <1>b, StartFacts
<1>3. /\ mixed' = (mixed \/ \E q \in Req : Provisioning(q))
      /\ UNCHANGED <<creds, conf, dns, made, saved, running, last, torn, fresh, sup, generation, child,
                     stop, boots, missed>>
  BY DEF BeginApply, At, files, cloud, settings, tunnelVars
<1>11. Types'
  BY <1>0, <1>1, <1>3, <1>a DEF Types, tunnelVars
<1>12. Proper'
  BY <1>0, <1>1, <1>3, <1>a DEF Types, Proper, Request, Others, Kept
<1>13. Watched'
  BY <1>0, <1>1, <1>3, <1>a DEF Watched, tunnelVars
<1>14. Current'
  BY <1>0, <1>1, <1>3, <1>a DEF Types, Current, Others
<1>15. OneProvisions'
  <2>1. ASSUME ~mixed'
        PROVE  ~mixed /\ \A q \in Req : ~Provisioning(q)
    BY <1>3, <2>1
  <2>2. ASSUME ~mixed', NEW q \in Req, req'[q].at \in {"create", "cname", "creds", "conf"}
        PROVE  q = r
    BY <1>1, <2>1, <2>2 DEF Others, Provisioning
  <2>3. /\ x.at = "create" => creds = 0
        /\ x.at \in {"cname", "creds"} => creds \in {0, x.tunnel}
        /\ x.at \notin {"creds", "conf"}
    BY <1>a
  <2> QED
    BY <1>1, <1>3, <2>1, <2>2, <2>3 DEF OneProvisions, Provisioning
<1>16. Written'
  BY <1>0, <1>1, <1>3, <1>a, WrittenStays DEF Kept
<1>17. Loaded'
  BY <1>0, <1>1, <1>3, <1>a DEF Types, Proper, Loaded, settingsEqual
<1> QED
  BY <1>11, <1>12, <1>13, <1>14, <1>15, <1>16, <1>17

\* Cloudflare makes a tunnel.
LEMMA CreateTunnelStep ==
  ASSUME IInv, NEW r \in Req, CreateTunnel(r)
  PROVE  IInv'
<1> USE DEF IInv
<1>0. /\ req \in [Req -> Request] /\ req[r] \in Request /\ starts \in 0..MaxStarts
      /\ saved \in [SettingKey -> Value]
  BY DEF Types
<1> DEFINE x == [req[r] EXCEPT !.at = "cname", !.tunnel = made + 1]
<1>a. made + 1 \in Tunnel /\ made' \in 0..MaxTunnels
  BY ProcessAssumption DEF CreateTunnel, Types, Tunnel
<1>b. x \in Request /\ x.at = "cname" /\ x.tunnel = made + 1 /\ x.host = req[r].host
  BY <1>0, <1>a DEF Request
<1>c. req' = [req EXCEPT ![r] = x]
  BY <1>0 DEF CreateTunnel
<1> HIDE DEF x
<1>1. req' \in [Req -> Request] /\ Others(r) /\ req'[r] = x
  BY <1>0, <1>b, <1>c DEF Others
<1>3. /\ req[r].at = "create"
      /\ UNCHANGED <<creds, conf, dns, saved, running, last, torn, fresh, sup,
                     generation, child, stop, starts, boots, mixed, missed>>
  BY DEF CreateTunnel, At, files, cloud, settings, tunnelVars
<1>11. Types'
  BY <1>0, <1>1, <1>3, <1>a, <1>b DEF Types, tunnelVars
<1>12. Proper'
  BY <1>0, <1>1, <1>3, <1>a, <1>b DEF Types, Proper, Request, Others, Kept
<1>13. Watched'
  BY <1>0, <1>1, <1>3, <1>a, <1>b DEF Watched, tunnelVars
<1>14. Current'
  BY <1>0, <1>1, <1>3, <1>a, <1>b DEF Types, Current, Others
<1>15. OneProvisions'
  BY <1>0, <1>1, <1>3, <1>a, <1>b DEF Types, Proper, OneProvisions, Provisioning,
     Request, Others, Kept
<1>16. Written'
  BY <1>0, <1>1, <1>3, <1>a, <1>b, WrittenStays DEF Kept
<1>17. Loaded'
  BY <1>0, <1>1, <1>3, <1>a, <1>b DEF Types, Proper, Loaded, settingsEqual
<1> QED
  BY <1>11, <1>12, <1>13, <1>14, <1>15, <1>16, <1>17

\* The CNAME leads to the tunnel.
LEMMA UpsertDNSStep ==
  ASSUME IInv, NEW r \in Req, UpsertDNS(r)
  PROVE  IInv'
<1> USE DEF IInv
<1>0. /\ req \in [Req -> Request] /\ req[r] \in Request /\ starts \in 0..MaxStarts
      /\ saved \in [SettingKey -> Value]
  BY DEF Types
<1>1. req' \in [Req -> Request] /\ Others(r) /\ Kept(r) /\ req'[r].at = "creds"
  BY <1>0, GoFacts DEF UpsertDNS, Places
<1>3. /\ req[r].at = "cname"
      /\ dns' = [dns EXCEPT ![req[r].host] = req[r].tunnel]
      /\ UNCHANGED <<creds, conf, made, saved, running, last, torn, fresh, sup,
                     generation, child, stop, starts, boots, mixed, missed>>
  BY DEF UpsertDNS, At, files, cloud, settings, tunnelVars
<1>11. Types'
  BY <1>0, <1>1, <1>3 DEF Types, tunnelVars, Proper, Request
<1>12. Proper'
  BY <1>0, <1>1, <1>3 DEF Types, Proper, Request, Others, Kept
<1>13. Watched'
  BY <1>0, <1>1, <1>3 DEF Watched, tunnelVars
<1>14. Current'
  BY <1>0, <1>1, <1>3 DEF Types, Current, Others
<1>15. OneProvisions'
  BY <1>0, <1>1, <1>3 DEF Types, Proper, OneProvisions, Provisioning, Request, Others, Kept
<1>16. Written'
  BY <1>0, <1>1, <1>3, WrittenStays DEF Kept
<1>17. Loaded'
  BY <1>0, <1>1, <1>3 DEF Types, Proper, Loaded, settingsEqual
<1> QED
  BY <1>11, <1>12, <1>13, <1>14, <1>15, <1>16, <1>17

\* The credentials are on disk.
LEMMA WriteCredentialsStep ==
  ASSUME IInv, NEW r \in Req, WriteCredentials(r)
  PROVE  IInv'
<1> USE DEF IInv
<1>0. /\ req \in [Req -> Request] /\ req[r] \in Request /\ starts \in 0..MaxStarts
      /\ saved \in [SettingKey -> Value]
  BY DEF Types
<1>1. req' \in [Req -> Request] /\ Others(r) /\ Kept(r) /\ req'[r].at = "conf"
  BY <1>0, GoFacts DEF WriteCredentials, Places
<1>3. /\ req[r].at = "creds"
      /\ creds' = req[r].tunnel
      /\ UNCHANGED <<conf, dns, made, saved, running, last, torn, fresh, sup,
                     generation, child, stop, starts, boots, mixed, missed>>
  BY DEF WriteCredentials, At, files, cloud, settings, tunnelVars
<1>11. Types'
  BY <1>0, <1>1, <1>3 DEF Types, tunnelVars, Request
<1>12. Proper'
  BY <1>0, <1>1, <1>3 DEF Types, Proper, Request, Others, Kept
<1>13. Watched'
  BY <1>0, <1>1, <1>3 DEF Watched, tunnelVars
<1>14. Current'
  BY <1>0, <1>1, <1>3 DEF Types, Current, Others
<1>15. OneProvisions'
  BY <1>0, <1>1, <1>3 DEF Types, Proper, OneProvisions, Provisioning, Request, Others, Kept
<1>16. Written'
  BY <1>0, <1>1, <1>3, WrittenStays DEF Kept
<1>17. Loaded'
  BY <1>0, <1>1, <1>3 DEF Types, Proper, Loaded, settingsEqual
<1> QED
  BY <1>11, <1>12, <1>13, <1>14, <1>15, <1>16, <1>17

\* The configuration is on disk.
LEMMA WriteConfigStep ==
  ASSUME IInv, NEW r \in Req, WriteConfig(r)
  PROVE  IInv'
<1> USE DEF IInv
<1>0. /\ req \in [Req -> Request] /\ req[r] \in Request /\ starts \in 0..MaxStarts
      /\ saved \in [SettingKey -> Value]
  BY DEF Types
<1>1. req' \in [Req -> Request] /\ Others(r) /\ Kept(r) /\ req'[r].at = "bump"
  BY <1>0, GoFacts DEF WriteConfig, Places
<1>3. /\ req[r].at = "conf"
      /\ conf' = [tunnel |-> req[r].tunnel, host |-> req[r].host]
      /\ UNCHANGED <<creds, dns, made, saved, running, last, torn, fresh, sup,
                     generation, child, stop, starts, boots, mixed, missed>>
  BY DEF WriteConfig, At, files, cloud, settings, tunnelVars
<1>11. Types'
  BY <1>0, <1>1, <1>3 DEF Types, tunnelVars, Proper, Request, Configuration
<1>12. Proper'
  BY <1>0, <1>1, <1>3 DEF Types, Proper, Request, Others, Kept
<1>13. Watched'
  BY <1>0, <1>1, <1>3 DEF Watched, tunnelVars
<1>14. Current'
  BY <1>0, <1>1, <1>3 DEF Types, Current, Others
<1>15. OneProvisions'
  <2>1. ASSUME ~mixed'
        PROVE  /\ \A q \in Req \ {r} : ~Provisioning(q)
               /\ req[r].host \in Host /\ req[r].tunnel # 0
               /\ dns[req[r].host] = req[r].tunnel /\ creds = req[r].tunnel
    BY <1>3, <2>1 DEF OneProvisions, Provisioning, Proper, Tunnel
  <2>2. conf'.host = req[r].host /\ conf'.tunnel = req[r].tunnel
    BY <1>3
  <2>3. ASSUME ~mixed'
        PROVE  \A q \in Req : req'[q].at \notin {"create", "cname", "creds", "conf"}
    BY <1>1, <2>1, <2>3 DEF Others, Provisioning
  <2> QED
    BY <1>3, <2>1, <2>2, <2>3 DEF OneProvisions, Provisioning
<1>16. Written'
  BY <1>0, <1>1, <1>3, WrittenStays DEF Kept
<1>17. Loaded'
  BY <1>0, <1>1, <1>3 DEF Types, Proper, Loaded, settingsEqual
<1> QED
  BY <1>11, <1>12, <1>13, <1>14, <1>15, <1>16, <1>17

\* A file is cut short.
LEMMA ProvisionFailsStep ==
  ASSUME IInv, NEW r \in Req, ProvisionFails(r)
  PROVE  IInv'
<1> USE DEF IInv
<1>0. /\ req \in [Req -> Request] /\ req[r] \in Request /\ starts \in 0..MaxStarts
      /\ saved \in [SettingKey -> Value]
  BY DEF Types
<1>1. /\ req' \in [Req -> Request] /\ Others(r) /\ req'[r] = Idle
      /\ Idle.at = "idle" /\ Idle \in Request
  BY <1>0, EndFacts, IdleFields DEF ProvisionFails
<1>3. /\ req[r].at \in {"creds", "conf"}
      /\ creds' \in {0, creds} /\ conf' \in {NoConf, conf} /\ mixed' = TRUE /\ missed' = TRUE
      /\ UNCHANGED <<dns, made, saved, running, last, torn, fresh, sup, generation,
                     child, stop, starts, boots>>
  BY DEF ProvisionFails, At, files, cloud, settings, tunnelVars
<1>11. Types'
  BY <1>0, <1>1, <1>3 DEF Types, NoConf, Configuration
<1>12. Proper'
  BY <1>0, <1>1, <1>3 DEF Types, Proper, Request, Others, Kept
<1>13. Watched'
  BY <1>0, <1>1, <1>3 DEF Watched, tunnelVars
<1>14. Current'
  BY <1>0, <1>1, <1>3 DEF Types, Current, Others
<1>15. OneProvisions'
  BY <1>0, <1>1, <1>3 DEF Types, Proper, OneProvisions, Provisioning, Request, Others, Kept
<1>16. Written'
  BY <1>0, <1>1, <1>3, WrittenStays DEF Kept
<1>17. Loaded'
  BY <1>0, <1>1, <1>3 DEF Types, Proper, Loaded, settingsEqual
<1> QED
  BY <1>11, <1>12, <1>13, <1>14, <1>15, <1>16, <1>17

\* The generation changes.
LEMMA BumpStep ==
  ASSUME IInv, NEW r \in Req, Bump(r)
  PROVE  IInv'
<1> USE DEF IInv
<1>0. /\ req \in [Req -> Request] /\ req[r] \in Request /\ starts \in 0..MaxStarts
      /\ saved \in [SettingKey -> Value]
  BY DEF Types
<1>1. req' \in [Req -> Request] /\ Others(r) /\ Kept(r) /\ req'[r].at = "signal"
  BY <1>0, GoFacts DEF Bump, Places
<1>3. /\ req[r].at = "bump"
      /\ generation' = generation + 1
      /\ UNCHANGED <<creds, conf, dns, made, saved, running, last, torn, fresh, sup,
                     child, stop, starts, boots, mixed, missed>>
  BY DEF Bump, At, files, cloud, settings, tunnelVars
<1>11. Types'
  BY <1>0, <1>1, <1>3 DEF Types, tunnelVars
<1>12. Proper'
  BY <1>0, <1>1, <1>3 DEF Types, Proper, Request, Others, Kept
<1>13. Watched'
  BY <1>0, <1>1, <1>3 DEF Watched, tunnelVars
<1>14. Current'
  BY <1>0, <1>1, <1>3 DEF Types, Current, Others
<1>15. OneProvisions'
  BY <1>0, <1>1, <1>3, ProvisionsStay DEF Others, Kept
<1>16. Written'
  BY <1>0, <1>1, <1>3, WrittenStays DEF Kept
<1>17. Loaded'
  BY <1>0, <1>1, <1>3 DEF Types, Proper, Loaded, settingsEqual
<1> QED
  BY <1>11, <1>12, <1>13, <1>14, <1>15, <1>16, <1>17

\* The child is signalled.
LEMMA BounceStep ==
  ASSUME IInv, NEW r \in Req, Bounce(r)
  PROVE  IInv'
<1> USE DEF IInv
<1>0. /\ req \in [Req -> Request] /\ req[r] \in Request /\ starts \in 0..MaxStarts
      /\ saved \in [SettingKey -> Value]
  BY DEF Types
<1>1. req' \in [Req -> Request] /\ Others(r) /\ Kept(r) /\ req'[r].at = "url"
  BY <1>0, GoFacts DEF Bounce, Places
<1>2. child' # None => /\ child # None
                       /\ child' \in [conf : Configuration, dying : BOOLEAN]
                       /\ child'.conf = child.conf
                       /\ child.dying \/ sup.cmd => child'.dying
                       /\ ~sup.cmd => child' = child
  BY TermFacts DEF Bounce, Types
<1>3. /\ req[r].at = "signal"
      /\ missed' = (missed \/ sup.at = "started")
      /\ UNCHANGED <<creds, conf, dns, made, saved, running, last, torn, fresh, sup,
                     generation, stop, starts, boots, mixed>>
  BY DEF Bounce, At, files, cloud, settings, tunnelVars
<1>11. Types'
  BY <1>0, <1>1, <1>3, <1>2 DEF Types, tunnelVars
<1>12. Proper'
  BY <1>0, <1>1, <1>3, <1>2 DEF Types, Proper, Request, Others, Kept
<1>13. Watched'
  BY <1>0, <1>1, <1>3, <1>2 DEF Watched, tunnelVars
<1>14. Current'
  BY <1>0, <1>1, <1>3, <1>2 DEF Current, Watched
<1>15. OneProvisions'
  BY <1>0, <1>1, <1>3, <1>2, ProvisionsStay DEF Others, Kept
<1>16. Written'
  BY <1>0, <1>1, <1>3, <1>2, WrittenStays DEF Kept
<1>17. Loaded'
  BY <1>0, <1>1, <1>3, <1>2 DEF Types, Proper, Loaded, settingsEqual
<1> QED
  BY <1>11, <1>12, <1>13, <1>14, <1>15, <1>16, <1>17

-----------------------------------------------------------------------------
(***************************************************************************)
(* Writing settings.                                                       *)
(***************************************************************************)
\* The set-up stores the address.
LEMMA StorePublicURLStep ==
  ASSUME IInv, NEW r \in Req, StorePublicURL(r)
  PROVE  IInv'
<1> USE DEF IInv
<1>0. /\ req \in [Req -> Request] /\ req[r] \in Request /\ starts \in 0..MaxStarts
      /\ saved \in [SettingKey -> Value]
  BY DEF Types
<1> DEFINE x == [req[r] EXCEPT !.at = "method"]
<1>a. /\ x \in Request /\ x.at = "method" /\ x.host = req[r].host /\ req[r].host \in Host
      /\ "public_url" \in SettingKey /\ req[r].host \in Value /\ req[r].host # Blank
  BY <1>0, ProcessAssumption DEF Request, Proper, StorePublicURL, At, SettingKey, Value
<1>b. Store(r, "public_url", req[r].host, x)
  BY DEF StorePublicURL
<1> HIDE DEF x
<1>1. /\ req' \in [Req -> Request] /\ req'[r] = x
      /\ \A q \in Req \ {r} :
           /\ req'[q].at = req[q].at /\ req'[q].host = req[q].host
           /\ req'[q].tunnel = req[q].tunnel /\ req'[q].form = req[q].form
           /\ req'[q].todo = req[q].todo /\ req'[q].alone = FALSE
      /\ saved' = [saved EXCEPT !["public_url"] = req[r].host] /\ saved' \in [SettingKey -> Value]
      /\ fresh' = FALSE
  BY <1>0, <1>a, <1>b, StoreFacts
<1>3. /\ req[r].at = "url"
      /\ torn' = (torn \/ OtherWrites(r))
      /\ UNCHANGED <<creds, conf, dns, made, running, last, sup, generation, child,
                     stop, starts, boots, mixed, missed>>
  BY DEF StorePublicURL, At, files, cloud, settings, tunnelVars
<1>11. Types'
  BY <1>0, <1>1, <1>3, <1>a DEF Types, SettingKey
<1>12. Proper'
  BY <1>0, <1>1, <1>3, <1>a DEF Types, Proper, Request, Others, Kept
<1>13. Watched'
  BY <1>0, <1>1, <1>3, <1>a DEF Watched, tunnelVars
<1>14. Current'
  BY <1>0, <1>1, <1>3, <1>a DEF Types, Current, Others
<1>15. OneProvisions'
  BY <1>0, <1>1, <1>3, <1>a, ProvisionsStay DEF Others, Kept
<1>16. Written'
  <2>1. ASSUME ~torn'
        PROVE  ~torn /\ \A q \in Req : ~Writing(q) /\ (q # r => req'[q].at \notin {"store", "method"})
    BY <1>1, <1>3, <2>1 DEF OtherWrites, Writing
  <2>2. \A q \in Req : req'[q].at = "store" => ~req'[q].alone
    BY <1>1, <1>a
  <2>3. ~torn' => saved' = [last' EXCEPT !.public_url = req'[r].host]
    BY <1>1, <1>3, <1>a, <2>1 DEF Written
  <2> QED
    BY <1>1, <1>a, <2>1, <2>2, <2>3 DEF Written, Writing
<1>17. Loaded'
  BY <1>0, <1>1, <1>3, <1>a DEF Loaded, Types, SettingKey
<1> QED
  BY <1>11, <1>12, <1>13, <1>14, <1>15, <1>16, <1>17

\* It stores the DID method.
LEMMA StoreDIDMethodStep ==
  ASSUME IInv, NEW r \in Req, StoreDIDMethod(r)
  PROVE  IInv'
<1> USE DEF IInv
<1>0. /\ req \in [Req -> Request] /\ req[r] \in Request /\ starts \in 0..MaxStarts
      /\ saved \in [SettingKey -> Value]
  BY DEF Types
<1> DEFINE x == Idle
<1>a. /\ x \in Request /\ x.at = "idle" /\ req[r].host \in Host
      /\ "did_method" \in SettingKey /\ "web" \in Value
  BY <1>0, IdleFields DEF Request, Proper, StoreDIDMethod, At, SettingKey, Value
<1>b. Store(r, "did_method", "web", x)
  BY DEF StoreDIDMethod
<1> HIDE DEF x
<1>1. /\ req' \in [Req -> Request] /\ req'[r] = x
      /\ \A q \in Req \ {r} :
           /\ req'[q].at = req[q].at /\ req'[q].host = req[q].host
           /\ req'[q].tunnel = req[q].tunnel /\ req'[q].form = req[q].form
           /\ req'[q].todo = req[q].todo /\ req'[q].alone = FALSE
      /\ saved' = [saved EXCEPT !["did_method"] = "web"] /\ saved' \in [SettingKey -> Value]
      /\ fresh' = FALSE
  BY <1>0, <1>a, <1>b, StoreFacts
<1>2. /\ req[r].at = "method"
      /\ last' = [last EXCEPT !.public_url = req[r].host, !.did_method = "web"]
      /\ last' \in [SettingKey -> Value]
      /\ last' = [[last EXCEPT !.public_url = req[r].host] EXCEPT !["did_method"] = "web"]
  BY <1>a DEF StoreDIDMethod, At, Types, SettingKey, Value
<1>3. /\ torn' = (torn \/ OtherWrites(r))
      /\ UNCHANGED <<creds, conf, dns, made, running, sup, generation, child, stop,
                     starts, boots, mixed, missed>>
  BY DEF StoreDIDMethod, At, files, cloud, settings, tunnelVars
<1>11. Types'
  BY <1>0, <1>1, <1>3, <1>2, <1>a DEF Types, SettingKey
<1>12. Proper'
  BY <1>0, <1>1, <1>3, <1>2, <1>a DEF Types, Proper, Request, Others, Kept
<1>13. Watched'
  BY <1>0, <1>1, <1>3, <1>2, <1>a DEF Watched, tunnelVars
<1>14. Current'
  BY <1>0, <1>1, <1>3, <1>2, <1>a DEF Types, Current, Others
<1>15. OneProvisions'
  BY <1>0, <1>1, <1>3, <1>2, <1>a, ProvisionsStay DEF Others, Kept
<1>16. Written'
  <2>1. ASSUME ~torn'
        PROVE  ~torn /\ \A q \in Req : req'[q].at \notin {"store", "method"}
    BY <1>1, <1>3, <1>a, <2>1 DEF OtherWrites, Writing
  <2>2. \A q \in Req : req'[q].at = "store" => ~req'[q].alone
    BY <1>1, <1>a
  <2>3. ~torn' => saved' = last'
    BY <1>1, <1>2, <2>1 DEF Written
  <2> QED
    BY <2>1, <2>2, <2>3 DEF Written, Writing
<1>17. Loaded'
  BY <1>0, <1>1, <1>3, <1>2, <1>a DEF Loaded, Types, SettingKey
<1> QED
  BY <1>11, <1>12, <1>13, <1>14, <1>15, <1>16, <1>17

\* A put whose form is valid begins.
LEMMA BeginPutStep ==
  ASSUME IInv, NEW r \in Req, BeginPut(r)
  PROVE  IInv'
<1> USE DEF IInv
<1>0. /\ req \in [Req -> Request] /\ req[r] \in Request /\ starts \in 0..MaxStarts
      /\ saved \in [SettingKey -> Value]
  BY DEF Types
<1>p. PICK form \in Form :
        /\ Valid(form)
        /\ Start(r, [Idle EXCEPT !.at = "store", !.form = form, !.alone = ~OtherWrites(r),
                                 !.todo = SettingKey])
        /\ torn' = (torn \/ OtherWrites(r))
  BY DEF BeginPut
<1> DEFINE x == [Idle EXCEPT !.at = "store", !.form = form, !.alone = ~OtherWrites(r), !.todo = SettingKey]
<1>a. /\ x \in Request /\ x.at = "store" /\ x.form = form /\ x.todo = SettingKey
      /\ form \in Settings
  <2>1. form \in Settings /\ (~OtherWrites(r)) \in BOOLEAN
    BY ProcessAssumption DEF OtherWrites
  <2> QED
    BY <2>1, ProcessAssumption DEF Idle, Request
<1> HIDE DEF x
<1>1. /\ req' \in [Req -> Request] /\ Others(r) /\ req[r].at = "idle" /\ req'[r] = x
      /\ starts' \in 0..MaxStarts
  BY <1>0, <1>a, <1>p, StartFacts DEF x
<1>3. UNCHANGED <<creds, conf, dns, made, saved, running, last, fresh, sup,
                     generation, child, stop, boots, mixed, missed>>
  BY DEF BeginPut, At, files, cloud, settings, tunnelVars
<1>11. Types'
  BY <1>0, <1>1, <1>3, <1>a, <1>p DEF Types, tunnelVars
<1>12. Proper'
  BY <1>0, <1>1, <1>3, <1>a, <1>p DEF Types, Proper, Request, Others, Kept
<1>13. Watched'
  BY <1>0, <1>1, <1>3, <1>a, <1>p DEF Watched, tunnelVars
<1>14. Current'
  BY <1>0, <1>1, <1>3, <1>a, <1>p DEF Types, Current, Others
<1>15. OneProvisions'
  BY <1>0, <1>1, <1>3, <1>a, <1>p, ProvisionsStay DEF Others, Kept
<1>16. Written'
  <2>1. ASSUME ~torn'
        PROVE  ~torn /\ \A q \in Req \ {r} : req'[q].at \notin {"store", "method"}
    BY <1>1, <1>p, <2>1 DEF OtherWrites, Writing, Others
  <2>2. ASSUME NEW q \in Req, req'[q].at = "store", req'[q].alone \/ ~torn'
        PROVE  \A k \in SettingKey \ req'[q].todo : saved'[k] = req'[q].form[k]
    <3>1. CASE q = r
      BY <1>1, <1>a, <3>1
    <3>2. CASE q # r
      BY <1>1, <1>3, <1>p, <2>2, <3>2 DEF Written, Others
    <3> QED
      BY <3>1, <3>2
  <2> QED
    BY <1>1, <1>a, <2>1, <2>2 DEF Written, Writing
<1>17. Loaded'
  BY <1>0, <1>1, <1>3, <1>a, <1>p DEF Types, Proper, Loaded, settingsEqual
<1> QED
  BY <1>11, <1>12, <1>13, <1>14, <1>15, <1>16, <1>17

\* A put stores one of its settings.
LEMMA PutSettingStep ==
  ASSUME IInv, NEW r \in Req, PutSetting(r)
  PROVE  IInv'
<1> USE DEF IInv
<1>0. /\ req \in [Req -> Request] /\ req[r] \in Request /\ starts \in 0..MaxStarts
      /\ saved \in [SettingKey -> Value]
  BY DEF Types
<1>p. PICK k \in req[r].todo :
        /\ At(r, "store")
        /\ IF req[r].todo \ {k} # {}
           THEN /\ Store(r, k, req[r].form[k], [req[r] EXCEPT !.todo = req[r].todo \ {k}])
                /\ torn' = (torn \/ OtherWrites(r))
                /\ UNCHANGED last
           ELSE /\ Store(r, k, req[r].form[k], Idle)
                /\ torn' = ((torn /\ ~req[r].alone) \/ OtherWrites(r))
                /\ last' = req[r].form
  BY DEF PutSetting
<1> DEFINE more == req[r].todo \ {k}
           x == IF more # {} THEN [req[r] EXCEPT !.todo = more] ELSE Idle
<1>s. /\ req[r].at = "store" /\ k \in SettingKey /\ req[r].form \in Settings /\ Valid(req[r].form)
      /\ req[r].form \in [SettingKey -> Value] /\ req[r].form[k] \in Value
      /\ req[r].form.public_url \in Host /\ req[r].form.did_method \in {"web", "plc"}
      /\ req[r].form.smtp_port \in {"587", "25", Blank}
  BY <1>0, <1>p, SettingsAreFunctions DEF At, Request, Proper, Valid
<1>a. /\ x \in Request
      /\ more # {} => /\ x.at = "store" /\ x.todo = more /\ x.form = req[r].form
                     /\ x.alone = req[r].alone
      /\ more = {} => x.at = "idle"
  <2>1. CASE more # {}
    BY <1>0, <1>s, <2>1 DEF Request
  <2>2. CASE more = {}
    BY <2>2, IdleFields
  <2> QED
    BY <2>1, <2>2
<1>b. Store(r, k, req[r].form[k], x)
  BY <1>p
<1>2. /\ more # {} => torn' = (torn \/ OtherWrites(r)) /\ last' = last
      /\ more = {} => torn' = ((torn /\ ~req[r].alone) \/ OtherWrites(r)) /\ last' = req[r].form
  BY <1>p
<1> HIDE DEF x
<1>1. /\ req' \in [Req -> Request] /\ req'[r] = x
      /\ \A q \in Req \ {r} :
           /\ req'[q].at = req[q].at /\ req'[q].host = req[q].host
           /\ req'[q].tunnel = req[q].tunnel /\ req'[q].form = req[q].form
           /\ req'[q].todo = req[q].todo /\ req'[q].alone = FALSE
      /\ saved' = [saved EXCEPT ![k] = req[r].form[k]] /\ saved' \in [SettingKey -> Value]
      /\ fresh' = FALSE
  BY <1>0, <1>a, <1>b, <1>s, StoreFacts
<1>3. UNCHANGED <<creds, conf, dns, made, running, sup, generation, child, stop,
                     starts, boots, mixed, missed>>
  BY DEF PutSetting, At, files, cloud, settings, tunnelVars
<1>11. Types'
  BY <1>0, <1>1, <1>3, <1>2, <1>a, <1>s DEF Types, SettingKey
<1>12. Proper'
  BY <1>0, <1>1, <1>3, <1>2, <1>a, <1>s DEF Types, Proper, Request, Others, Kept
<1>13. Watched'
  BY <1>0, <1>1, <1>3, <1>2, <1>a, <1>s DEF Watched, tunnelVars
<1>14. Current'
  BY <1>0, <1>1, <1>3, <1>2, <1>a, <1>s DEF Types, Current
<1>15. OneProvisions'
  BY <1>0, <1>1, <1>3, <1>2, <1>a, <1>s, ProvisionsStay DEF Others, Kept
<1>16. Written'
  <2>1. ASSUME ~torn'
        PROVE  /\ ~torn \/ req[r].alone
               /\ \A q \in Req \ {r} : req'[q].at \notin {"store", "method"}
    BY <1>1, <1>2, <2>1 DEF OtherWrites, Writing
  <2>2. req[r].alone \/ ~torn => \A j \in SettingKey \ req[r].todo : saved[j] = req[r].form[j]
    BY <1>s DEF Written
  <2>3. CASE more # {}
    <3>1. ASSUME req[r].alone \/ ~torn
          PROVE  \A j \in SettingKey \ more : saved'[j] = req[r].form[j]
      BY <1>0, <1>1, <1>s, <2>2, <3>1
    <3>2. ~torn' => ~torn
      BY <1>2, <2>3
    <3> QED
      BY <1>1, <1>a, <2>1, <2>3, <3>1, <3>2 DEF Written, Writing
  <2>4. CASE more = {}
    <3>1. ASSUME ~torn'
          PROVE  saved' = req[r].form
      <4>1. \A j \in SettingKey : saved'[j] = req[r].form[j]
        BY <1>0, <1>1, <1>s, <2>1, <2>2, <2>4, <3>1
      <4> QED
        BY <1>1, <1>s, <4>1
    <3>2. \A q \in Req : req'[q].at = "store" => ~req'[q].alone
      BY <1>1, <1>a, <2>4
    <3> QED
      BY <1>1, <1>2, <1>a, <2>1, <2>4, <3>1, <3>2 DEF Written, Writing
  <2> QED
    BY <2>3, <2>4
<1>17. Loaded'
  <2>1. req[r].form.public_url # Blank /\ "public_url" \in SettingKey
    BY <1>s, ProcessAssumption DEF SettingKey
  <2>2. saved'.public_url \in {saved.public_url, req[r].form.public_url}
    BY <1>0, <1>1, <1>s, <2>1
  <2> QED
    BY <1>1, <2>1, <2>2 DEF Loaded
<1> QED
  BY <1>11, <1>12, <1>13, <1>14, <1>15, <1>16, <1>17

\* A request ends early.
LEMMA FailStep ==
  ASSUME IInv, NEW r \in Req, Fail(r)
  PROVE  IInv'
<1> USE DEF IInv
<1>0. /\ req \in [Req -> Request] /\ req[r] \in Request /\ starts \in 0..MaxStarts
      /\ saved \in [SettingKey -> Value]
  BY DEF Types
<1>1. /\ req' \in [Req -> Request] /\ Others(r) /\ req'[r] = Idle
      /\ Idle.at = "idle" /\ Idle \in Request
  BY <1>0, EndFacts, IdleFields DEF Fail
<1>3. /\ req[r].at \in {"create", "cname", "creds", "url", "method", "store"}
      /\ torn' = (torn \/ Writing(r))
      /\ UNCHANGED <<creds, conf, dns, made, saved, running, last, fresh, sup,
                     generation, child, stop, starts, boots, mixed, missed>>
  BY DEF Fail, At, files, cloud, settings, tunnelVars
<1>11. Types'
  BY <1>0, <1>1, <1>3 DEF Types, tunnelVars
<1>12. Proper'
  BY <1>0, <1>1, <1>3 DEF Types, Proper, Request, Others, Kept
<1>13. Watched'
  BY <1>0, <1>1, <1>3 DEF Watched, tunnelVars
<1>14. Current'
  BY <1>0, <1>1, <1>3 DEF Types, Current, Others
<1>15. OneProvisions'
  BY <1>0, <1>1, <1>3, ProvisionsStay DEF Others, Kept
<1>16. Written'
  <2>1. \A q \in Req : Writing(q)' => q # r /\ Writing(q) /\ req'[q] = req[q]
    BY <1>1 DEF Others, Writing
  <2>2. ~torn' => ~torn /\ \A q \in Req : Writing(q) => Writing(q)'
    BY <1>1, <1>3 DEF Others, Writing
  <2> QED
    BY <1>3, <2>1, <2>2 DEF Written, Writing
<1>17. Loaded'
  BY <1>0, <1>1, <1>3 DEF Types, Proper, Loaded, settingsEqual
<1> QED
  BY <1>11, <1>12, <1>13, <1>14, <1>15, <1>16, <1>17

-----------------------------------------------------------------------------
(***************************************************************************)
(* The theorems.                                                           *)
(***************************************************************************)
\* The invariant holds at first.
LEMMA InitInv == Init => IInv
<1> SUFFICES ASSUME Init
             PROVE  IInv
  OBVIOUS
<1>0. Env \in Settings /\ None # Blank /\ None \in Value
  BY ProcessAssumption DEF Value
<1>1. /\ Types
  BY <1>0, IdleFields, ProcessAssumption DEF Init, Types, Started, Supervised, Stopper,
     Configuration,
     SettingKey, Tunnel
<1>2. Proper /\ Watched /\ Current /\ OneProvisions /\ Written
  BY IdleFields DEF Init, Proper, Watched, Current, OneProvisions, Written, Started,
     Stopper,
     Provisioning, Writing
<1>3. Loaded
  BY <1>0 DEF Init, Loaded, settingsEqual, SettingKey
<1> QED
  BY <1>1, <1>2, <1>3 DEF IInv

\* Every step keeps it.
LEMMA NextInv == IInv /\ [Next]_vars => IInv'
<1> SUFFICES ASSUME IInv, [Next]_vars
             PROVE  IInv'
  OBVIOUS
<1>1. CASE UNCHANGED vars
  <2> USE <1>1 DEF vars, files, cloud, settings, tunnelVars
  <2>1. Types'
    BY DEF IInv, Types
  <2>2. Watched' /\ Current'
    BY DEF IInv, Watched, Current
  <2> QED
    BY <2>1, <2>2, RequestsStay DEF IInv
<1>2. CASE Supervisor \/ ChildExits
  BY <1>2, LoopStep, ReadyStep, SpawnStep, SpawnFailsStep, RegisterStep, WaitedStep,
     PauseStep,
     ChildExitsStep DEF Supervisor
<1>3. ASSUME NEW s \in Stopper,
             Cancel(s) \/ SignalTerm(s) \/ Timeout(s) \/ Kill(s) \/ Return(s)
      PROVE  IInv'
  BY <1>3, CancelStep, SignalTermStep, TimeoutStep, KillStep, ReturnStep
<1>4. CASE Exec \/ ExecFails \/ Exit \/ Crash
  BY <1>4, EndsStep, ExecFailsStep
<1>5. ASSUME NEW r \in Req, NEW h \in Host, BeginApply(r, h)
      PROVE  IInv'
  BY <1>5, BeginApplyStep
<1>6. ASSUME NEW r \in Req,
             \/ CreateTunnel(r) \/ UpsertDNS(r) \/ WriteCredentials(r) \/ WriteConfig(r)
             \/ ProvisionFails(r) \/ Bump(r) \/ Bounce(r) \/ StorePublicURL(r) \/ StoreDIDMethod(r)
             \/ BeginPut(r) \/ PutSetting(r) \/ Fail(r)
      PROVE  IInv'
  BY <1>6, CreateTunnelStep, UpsertDNSStep, WriteCredentialsStep, WriteConfigStep,
     ProvisionFailsStep, BumpStep, BounceStep, StorePublicURLStep, StoreDIDMethodStep,
     BeginPutStep, PutSettingStep, FailStep
<1> QED
  BY <1>1, <1>2, <1>3, <1>4, <1>5, <1>6 DEF Next

\* Whatever the child, Cloudflare, the clients and crashes do, and for any
\* number of requests and forms, the process keeps the invariant.
THEOREM Invariance == Spec => []IInv
BY InitInv, NextInv, PTL DEF Spec

\* The variables of the process keep their types.
THEOREM TypeCorrect == Spec => []TypeOK
<1>1. IInv => TypeOK
  BY DEF IInv, Types, Request, Supervised, Configuration, TypeOK
<1> QED
  BY <1>1, Invariance, PTL

\* When Stop has returned no child is left, and there is never one that the
\* supervisor does not wait for (tunnel.go: Stop, run).
THEOREM NoOrphan == Spec => []NoChildLeft
<1>1. IInv => NoChildLeft
  BY DEF IInv, Watched, NoChildLeft
<1> QED
  BY <1>1, Invariance, PTL

\* A child that nobody is about to stop runs with the configuration on disk
\* (tunnel.go: Provision, Restart), unless it missed the signal.
THEOREM RunsWhatIsConfigured == Spec => []ChildCurrent
<1>1. IInv => ChildCurrent
  BY DEF IInv, Current, ChildCurrent
<1> QED
  BY <1>1, Invariance, PTL

\* Credentials, configuration and DNS name one tunnel after any number of
\* set-ups that were given up and tried again (api_cloudflare.go).
THEOREM OneTunnel == Spec => []TunnelWhole
<1>1. IInv => TunnelWhole
  BY DEF IInv, OneProvisions, TunnelWhole
<1> QED
  BY <1>1, Invariance, PTL

\* Saved settings are those of the last form and set-up, and the process
\* starts with them (api_settings.go: settingsPut, restartRequired).
THEOREM NoMixture == Spec => []SettingsWhole
<1>1. IInv => SettingsWhole
  BY DEF IInv, Written, Loaded, SettingsWhole
<1> QED
  BY <1>1, Invariance, PTL
=============================================================================
