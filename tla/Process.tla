------------------------------- MODULE Process -------------------------------
(***************************************************************************)
(* The process and what it supervises: the cloudflared child and its       *)
(* supervisor (internal/tunnel/tunnel.go), setting up a tunnel             *)
(* (internal/admin/api_cloudflare.go), saving settings and restarting      *)
(* (internal/admin/api_settings.go, internal/config) and the start and end *)
(* of the process (cmd/pocketpds/main.go).                                 *)
(*                                                                         *)
(* The supervisor is one goroutine, each request and each call of Stop     *)
(* another.  An action is what one of them does between two points where   *)
(* another can see it: a mutex section, a write of a file, a statement, a  *)
(* call of Cloudflare.  The child can exit at any time; only SIGKILL makes *)
(* sure that it does.  It reads its configuration when it starts.  When    *)
(* the process dies, systemd kills the child with it (build/               *)
(* pocketpds.service keeps the default KillMode).                          *)
(***************************************************************************)
EXTENDS Integers

CONSTANTS Host,        \* host names
          Blank,       \* an empty field
          None,        \* no value, no file, no child
          Form,        \* settings forms that are put
          Env,         \* the settings that the environment gives
          Req,         \* requests that can be under way at once
          MaxStarts,   \* bound on the requests
          MaxTunnels,  \* bound on the tunnels made
          MaxBoots     \* bound on the starts of the process

SettingKey == {"public_url", "did_method", "smtp_port"}
Settings == [public_url : Host \cup {Blank}, did_method : {"web", "plc"},
             smtp_port : {"587", "25", Blank}]

\* ValidateSetting: an address must be there, a port need not.
Valid(form) == form.public_url # Blank

ASSUME ProcessAssumption ==
  /\ Form \subseteq Settings
  /\ Env \in Settings /\ Valid(Env) /\ Env.smtp_port # Blank
  /\ Blank \notin Host /\ None \notin Host \cup {Blank, "web", "plc", "587", "25"}
  /\ MaxStarts \in Nat /\ MaxTunnels \in Nat /\ MaxBoots \in Nat

Tunnel == 1..MaxTunnels
Stopper == {"restart", "exit"}  \* who calls Stop: the handler and the end of serve

VARIABLES
  creds,      \* credentials.json: a tunnel, or 0 if it cannot be read
  conf,       \* config.yml: tunnel and host
  dns,        \* the tunnel that the CNAME of a host leads to, or 0
  made,       \* the tunnels made
  saved,      \* the table settings
  running,    \* the configuration in memory
  sup,        \* the supervisor: its place, the generation it has read, ctx
              \* cancelled, m.cmd set
  generation,
  child,      \* the child: its configuration, and whether it got SIGTERM
  stop,       \* calls of Stop
  req,        \* requests under way
  starts, boots,
  last,       \* what the last writes of settings, one after the other, give
  torn,       \* settings were written by two at a time, or a write was cut short
  mixed,      \* two requests provisioned at a time, or a file was not written
  missed,     \* this child started before a change that it was not told of
  fresh       \* no setting was written since the process started

files == <<creds, conf>>
cloud == <<dns, made>>
settings == <<saved, running, last, torn, fresh>>
tunnelVars == <<sup, generation, child>>
vars == <<files, cloud, settings, tunnelVars, stop, req, starts, boots, mixed, missed>>

NoConf == [tunnel |-> 0, host |-> None]
Started == [at |-> "loop", gen |-> 0, cancelled |-> FALSE, cmd |-> FALSE]
Idle == [at |-> "idle", host |-> None, tunnel |-> 0, form |-> Env, todo |-> {}, alone |-> FALSE]

Init ==
  /\ creds = 0 /\ conf = None
  /\ dns = [h \in Host |-> 0] /\ made = 0
  /\ saved = [k \in SettingKey |-> None]
  /\ running = Env
  /\ sup = Started /\ generation = 0 /\ child = None
  /\ stop = [s \in Stopper |-> "idle"]
  /\ req = [r \in Req |-> Idle]
  /\ starts = 0 /\ boots = 0
  /\ last = saved
  /\ torn = FALSE /\ mixed = FALSE /\ missed = FALSE /\ fresh = TRUE

-----------------------------------------------------------------------------
(***************************************************************************)
(* Helpers.                                                                *)
(***************************************************************************)
\* Empty values of these two keys are passed over.
ApplySettings(cfg, overrides) ==
  [k \in SettingKey |->
     IF overrides[k] = None \/ (k \in {"public_url", "smtp_port"} /\ overrides[k] = Blank)
     THEN cfg[k] ELSE overrides[k]]

\* No restart is pending.
settingsEqual(persisted, effective) ==
  \A k \in SettingKey : persisted[k] \in {None, effective[k]}

At(r, at) == req[r].at = at
Go(r, at) == req' = [req EXCEPT ![r].at = at]
End(r) == req' = [req EXCEPT ![r] = Idle]

\* A put and a tunnel set-up in the midst of their writes of settings.
Writing(q) == req[q].at \in {"store", "method"}
OtherWrites(r) == \E q \in Req \ {r} : Writing(q)

\* Requests between the choice of a tunnel and the end of Provision.
Provisioning(q) == req[q].at \in {"create", "cname", "creds", "conf"}

\* A signal reaches the child if m.cmd is set.
Term == child' = IF sup.cmd /\ child # None THEN [child EXCEPT !.dying = TRUE] ELSE child

\* The process starts.
Boot ==
  /\ boots < MaxBoots
  /\ boots' = boots + 1
  /\ running' = ApplySettings(Env, saved)
  /\ fresh' = TRUE
  /\ sup' = Started /\ generation' = 0
  /\ stop' = [s \in Stopper |-> "idle"]
  /\ req' = [r \in Req |-> Idle]
  /\ torn' = (torn \/ \E q \in Req : Writing(q))
  /\ mixed' = (mixed \/ \E q \in Req : Provisioning(q))
  /\ missed' = FALSE
  /\ UNCHANGED <<files, cloud, saved, last, starts>>

-----------------------------------------------------------------------------
(***************************************************************************)
(* The supervisor.                                                         *)
(***************************************************************************)
Step(at) == sup' = [sup EXCEPT !.at = at]

\* The top of the loop: ctx is looked at and the generation is read.
Loop ==
  /\ sup.at = "loop"
  /\ sup' = IF sup.cancelled THEN [sup EXCEPT !.at = "ended"]
            ELSE [sup EXCEPT !.at = "ready", !.gen = generation]
  /\ UNCHANGED <<files, cloud, settings, generation, child, stop, req, starts, boots, mixed, missed>>

\* Without the configuration or the binary there is nothing to start; the
\* binary comes and goes (pocketpds tunnel install, uninstall).
Ready ==
  /\ sup.at = "ready"
  /\ \/ conf # None /\ Step("spawn")
     \/ Step("pause")
  /\ UNCHANGED <<files, cloud, settings, generation, child, stop, req, starts, boots, mixed, missed>>

\* cmd.Start; m.cmd is set in a step of its own.
Spawn ==
  /\ sup.at = "spawn"
  /\ child' = [conf |-> conf, dying |-> FALSE]
  /\ missed' = FALSE
  /\ Step("started")
  /\ UNCHANGED <<files, cloud, settings, generation, stop, req, starts, boots, mixed>>

SpawnFails ==
  /\ sup.at = "spawn"
  /\ Step("pause")
  /\ UNCHANGED <<files, cloud, settings, generation, child, stop, req, starts, boots, mixed, missed>>

Register ==
  /\ sup.at = "started"
  /\ sup' = [sup EXCEPT !.at = "wait", !.cmd = TRUE]
  /\ UNCHANGED <<files, cloud, settings, generation, child, stop, req, starts, boots, mixed, missed>>

\* cmd.Wait has returned; after a Restart the next child starts at once.
Waited ==
  /\ sup.at = "wait" /\ child = None
  /\ sup' = [sup EXCEPT !.cmd = FALSE,
                        !.at = IF sup.cancelled THEN "ended"
                               ELSE IF generation # sup.gen THEN "loop" ELSE "pause"]
  /\ UNCHANGED <<files, cloud, settings, generation, child, stop, req, starts, boots, mixed, missed>>

\* wait: two seconds, or until ctx is cancelled.
Pause ==
  /\ sup.at = "pause"
  /\ \/ Step("loop")
     \/ sup.cancelled /\ Step("ended")
  /\ UNCHANGED <<files, cloud, settings, generation, child, stop, req, starts, boots, mixed, missed>>

\* The child ends, on SIGTERM or by itself.
ChildExits ==
  /\ child # None
  /\ child' = None
  /\ UNCHANGED <<files, cloud, settings, sup, generation, stop, req, starts, boots, mixed, missed>>

-----------------------------------------------------------------------------
(***************************************************************************)
(* Stop, and the ends of the process.                                      *)
(***************************************************************************)
\* The restart handler's goroutine, and serve when the server has shut down.
Cancel(s) ==
  /\ stop[s] = "idle"
  /\ stop' = [stop EXCEPT ![s] = "signal"]
  /\ sup' = [sup EXCEPT !.cancelled = TRUE]
  /\ UNCHANGED <<files, cloud, settings, generation, child, req, starts, boots, mixed, missed>>

SignalTerm(s) ==
  /\ stop[s] = "signal"
  /\ Term
  /\ stop' = [stop EXCEPT ![s] = "await"]
  /\ UNCHANGED <<files, cloud, settings, sup, generation, req, starts, boots, mixed, missed>>

\* Variant: Stop returns when its time is over.
TimeoutReturns(s) ==
  /\ stop[s] = "await" /\ sup.at = "wait"
  /\ stop' = [stop EXCEPT ![s] = "returned"]
  /\ UNCHANGED <<files, cloud, settings, tunnelVars, req, starts, boots, mixed, missed>>

\* Three seconds are over.  The supervisor is waiting for the child by then:
\* it does what comes before, and what follows an exit, in less.
Timeout(s) ==
  /\ stop[s] = "await" /\ sup.at = "wait"
  /\ stop' = [stop EXCEPT ![s] = "kill"]
  /\ UNCHANGED <<files, cloud, settings, tunnelVars, req, starts, boots, mixed, missed>>

\* Variant: SIGTERM again.
TermAgain(s) ==
  /\ stop[s] = "kill"
  /\ Term
  /\ stop' = [stop EXCEPT ![s] = "last"]
  /\ UNCHANGED <<files, cloud, settings, sup, generation, req, starts, boots, mixed, missed>>

Kill(s) ==
  /\ stop[s] = "kill"
  /\ child' = IF sup.cmd THEN None ELSE child
  /\ stop' = [stop EXCEPT ![s] = "last"]
  /\ UNCHANGED <<files, cloud, settings, sup, generation, req, starts, boots, mixed, missed>>

\* The supervisor has closed done.
Return(s) ==
  /\ stop[s] \in {"await", "last"} /\ sup.at = "ended"
  /\ stop' = [stop EXCEPT ![s] = "returned"]
  /\ UNCHANGED <<files, cloud, settings, tunnelVars, req, starts, boots, mixed, missed>>

\* The program starts again in the same process, or goes on without its
\* tunnel if that fails.
Exec == stop["restart"] = "returned" /\ Boot /\ UNCHANGED child
ExecFails ==
  /\ stop["restart"] = "returned"
  /\ stop' = [stop EXCEPT !["restart"] = "idle"]
  /\ UNCHANGED <<files, cloud, settings, tunnelVars, req, starts, boots, mixed, missed>>

\* serve ends and the program is started again.
Exit == stop["exit"] = "returned" /\ Boot /\ UNCHANGED child

Crash == Boot /\ child' = None

-----------------------------------------------------------------------------
(***************************************************************************)
(* Setting up a tunnel.                                                    *)
(***************************************************************************)
Start(r, x) ==
  /\ At(r, "idle")
  /\ starts < MaxStarts
  /\ starts' = starts + 1
  /\ req' = [req EXCEPT ![r] = x]

\* Variant: the credentials on disk are not looked at.
ApplyAnew(r, h) ==
  /\ Start(r, [Idle EXCEPT !.at = "create", !.host = h])
  /\ mixed' = (mixed \/ \E q \in Req : Provisioning(q))
  /\ UNCHANGED <<files, cloud, settings, tunnelVars, stop, boots, missed>>

\* The credentials on disk are used if they can be read.
BeginApply(r, h) ==
  /\ Start(r, IF creds # 0 THEN [Idle EXCEPT !.at = "cname", !.host = h, !.tunnel = creds]
              ELSE [Idle EXCEPT !.at = "create", !.host = h])
  /\ mixed' = (mixed \/ \E q \in Req : Provisioning(q))
  /\ UNCHANGED <<files, cloud, settings, tunnelVars, stop, boots, missed>>

CreateTunnel(r) ==
  /\ At(r, "create") /\ made < MaxTunnels
  /\ made' = made + 1
  /\ req' = [req EXCEPT ![r].at = "cname", ![r].tunnel = made + 1]
  /\ UNCHANGED <<files, dns, settings, tunnelVars, stop, starts, boots, mixed, missed>>

\* The CNAME; the TXT record says the same for a host every time.
UpsertDNS(r) ==
  /\ At(r, "cname")
  /\ dns' = [dns EXCEPT ![req[r].host] = req[r].tunnel]
  /\ Go(r, "creds")
  /\ UNCHANGED <<files, made, settings, tunnelVars, stop, starts, boots, mixed, missed>>

\* Provision writes two files; a write that fails cuts the file short.
WriteCredentials(r) ==
  /\ At(r, "creds")
  /\ creds' = req[r].tunnel
  /\ Go(r, "conf")
  /\ UNCHANGED <<conf, cloud, settings, tunnelVars, stop, starts, boots, mixed, missed>>

WriteConfig(r) ==
  /\ At(r, "conf")
  /\ conf' = [tunnel |-> req[r].tunnel, host |-> req[r].host]
  /\ Go(r, "bump")
  /\ UNCHANGED <<creds, cloud, settings, tunnelVars, stop, starts, boots, mixed, missed>>

ProvisionFails(r) ==
  /\ \/ At(r, "creds") /\ creds' = 0 /\ UNCHANGED conf
     \/ At(r, "conf") /\ conf' = NoConf /\ UNCHANGED creds
  /\ mixed' = TRUE /\ missed' = TRUE
  /\ End(r)
  /\ UNCHANGED <<cloud, settings, tunnelVars, stop, starts, boots>>

\* Restart: a section of the mutex, then the signal.
Bump(r) ==
  /\ At(r, "bump")
  /\ generation' = generation + 1
  /\ Go(r, "signal")
  /\ UNCHANGED <<files, cloud, settings, sup, child, stop, starts, boots, mixed, missed>>

\* Variant: only the generation changes.
BounceForgotten(r) ==
  /\ At(r, "signal")
  /\ Go(r, "url")
  /\ missed' = (missed \/ sup.at = "started")
  /\ UNCHANGED <<files, cloud, settings, tunnelVars, stop, starts, boots, mixed>>

\* A child whose m.cmd is not set yet does not get the signal.
Bounce(r) ==
  /\ At(r, "signal")
  /\ Term
  /\ missed' = (missed \/ sup.at = "started")
  /\ Go(r, "url")
  /\ UNCHANGED <<files, cloud, settings, sup, generation, stop, starts, boots, mixed>>

-----------------------------------------------------------------------------
(***************************************************************************)
(* Writing settings.                                                       *)
(***************************************************************************)
\* One setting is stored, and whoever else is writing is not alone.
Store(r, k, v, next) ==
  /\ saved' = [saved EXCEPT ![k] = v]
  /\ fresh' = FALSE
  /\ req' = [q \in Req |-> IF q = r THEN next ELSE [req[q] EXCEPT !.alone = FALSE]]

\* The end of a tunnel set-up.
StorePublicURL(r) ==
  /\ At(r, "url")
  /\ Store(r, "public_url", req[r].host, [req[r] EXCEPT !.at = "method"])
  /\ torn' = (torn \/ OtherWrites(r))
  /\ UNCHANGED <<files, cloud, running, last, tunnelVars, stop, starts, boots, mixed, missed>>

StoreDIDMethod(r) ==
  /\ At(r, "method")
  /\ Store(r, "did_method", "web", Idle)
  /\ torn' = (torn \/ OtherWrites(r))
  /\ last' = [last EXCEPT !.public_url = req[r].host, !.did_method = "web"]
  /\ UNCHANGED <<files, cloud, running, tunnelVars, stop, starts, boots, mixed, missed>>

\* Variant: fields are looked at one by one, as they are stored.
PutUnchecked(r) ==
  \E form \in Form :
    /\ Start(r, [Idle EXCEPT !.at = "store", !.form = form, !.alone = ~OtherWrites(r),
                             !.todo = {k \in SettingKey : form[k] # Blank \/ k = "smtp_port"}])
    /\ torn' = (torn \/ OtherWrites(r))
    /\ UNCHANGED <<files, cloud, saved, running, last, fresh, tunnelVars, stop, boots, mixed, missed>>

\* settingsPut looks at the whole form first.
BeginPut(r) ==
  \E form \in Form :
    /\ Valid(form)
    /\ Start(r, [Idle EXCEPT !.at = "store", !.form = form, !.alone = ~OtherWrites(r),
                             !.todo = SettingKey])
    /\ torn' = (torn \/ OtherWrites(r))
    /\ UNCHANGED <<files, cloud, saved, running, last, fresh, tunnelVars, stop, boots, mixed, missed>>

\* The fields are stored one by one, in the order of a Go map: any.
PutSetting(r) ==
  \E k \in req[r].todo :
    /\ At(r, "store")
    /\ LET more == req[r].todo \ {k}
           x == req[r]
       IN IF more # {}
          THEN /\ Store(r, k, x.form[k], [x EXCEPT !.todo = more])
               /\ torn' = (torn \/ OtherWrites(r))
               /\ UNCHANGED last
          ELSE /\ Store(r, k, x.form[k], Idle)
               /\ torn' = ((torn /\ ~x.alone) \/ OtherWrites(r))
               /\ last' = x.form
    /\ UNCHANGED <<files, cloud, running, tunnelVars, stop, starts, boots, mixed, missed>>

-----------------------------------------------------------------------------
\* Cloudflare, the database or the client ends a request.  Provision and
\* Restart do not ask for any of them.
Fail(r) ==
  /\ req[r].at \in {"create", "cname", "creds", "url", "method", "store"}
  /\ torn' = (torn \/ Writing(r))
  /\ End(r)
  /\ UNCHANGED <<files, cloud, saved, running, last, fresh, tunnelVars, stop, starts, boots,
                 mixed, missed>>

Supervisor == Loop \/ Ready \/ Spawn \/ SpawnFails \/ Register \/ Waited \/ Pause

Next ==
  \/ Supervisor \/ ChildExits
  \/ \E s \in Stopper : Cancel(s) \/ SignalTerm(s) \/ Timeout(s) \/ Kill(s) \/ Return(s)
  \/ Exec \/ ExecFails \/ Exit \/ Crash
  \/ \E r \in Req :
       \/ \E h \in Host : BeginApply(r, h)
       \/ CreateTunnel(r) \/ UpsertDNS(r) \/ WriteCredentials(r) \/ WriteConfig(r)
       \/ ProvisionFails(r) \/ Bump(r) \/ Bounce(r) \/ StorePublicURL(r) \/ StoreDIDMethod(r)
       \/ BeginPut(r) \/ PutSetting(r) \/ Fail(r)

\* The scheduler runs the goroutines, and timers fire; nothing is asked of
\* the child, of Cloudflare or of the clients.
Fairness ==
  /\ WF_vars(Supervisor)
  /\ \A s \in Stopper : WF_vars(SignalTerm(s) \/ Timeout(s) \/ Kill(s) \/ Return(s))

Spec == Init /\ [][Next]_vars
FairSpec == Spec /\ Fairness

-----------------------------------------------------------------------------
(***************************************************************************)
(* Properties.                                                             *)
(***************************************************************************)
TypeOK ==
  /\ creds \in Tunnel \cup {0}
  /\ conf \in [tunnel : Tunnel \cup {0}, host : Host \cup {None}] \cup {None}
  /\ dns \in [Host -> Tunnel \cup {0}] /\ made \in 0..MaxTunnels
  /\ saved.public_url \in Host \cup {Blank, None} /\ saved.did_method \in {"web", "plc", None}
  /\ saved.smtp_port \in {"587", "25", Blank, None}
  /\ running \in Settings
  /\ sup \in [at : {"loop", "ready", "spawn", "started", "wait", "pause", "ended"},
              gen : Nat, cancelled : BOOLEAN, cmd : BOOLEAN]
  /\ generation \in Nat
  /\ child # None =>
       child \in [conf : [tunnel : Tunnel \cup {0}, host : Host \cup {None}] \cup {None},
                 dying : BOOLEAN]
  /\ stop \in [Stopper -> {"idle", "signal", "await", "kill", "last", "returned"}]
  /\ \A r \in Req : req[r].todo \subseteq SettingKey
  /\ starts \in 0..MaxStarts /\ boots \in 0..MaxBoots

\* When Stop returns no child is left, whatever the supervisor was doing when
\* it was called, so that neither a restart nor the end of the process orphans
\* one (Stop waits for done, and run closes it only without a child); and at no
\* other time is there a child that the supervisor does not wait for.
NoChildLeft ==
  /\ \A s \in Stopper : stop[s] = "returned" => child = None
  /\ child # None => sup.at \in {"started", "wait"}

\* The child runs with the configuration on disk, or is being stopped, or a
\* set-up is about to stop it (Provision, then Restart); unless the signal came
\* between cmd.Start and the step that sets m.cmd, where it is lost.
ChildCurrent ==
  child # None /\ ~child.dying /\ ~missed
    /\ (\A r \in Req : req[r].at \notin {"bump", "signal"})
  => child.conf = conf

\* The configuration names the tunnel of the credentials, and the CNAME of its
\* host leads there, however often a set-up is given up half-way and tried
\* again (for this or another host), unless two provisioned at a time or a
\* file was cut short.
TunnelWhole ==
  ~mixed /\ conf # None /\ (\A r \in Req : ~Provisioning(r))
  => conf.tunnel = creds /\ dns[conf.host] = creds

\* The saved settings are those of the last form and the last set-up, never
\* some of one and some of another, unless two wrote at a time or a write was
\* cut short; a form that is refused changes none.  And what is saved when the
\* process starts is what it runs with (restartRequired is false), except for
\* an empty smtp_port, for which the environment's stays.
SettingsWhole ==
  /\ ~torn /\ (\A r \in Req : ~Writing(r)) => saved = last
  /\ fresh /\ saved.smtp_port # Blank => settingsEqual(saved, running)

\* Stop returns, if the process does not end before: a child that ignores
\* SIGTERM, or missed it, is killed.
StopEnds ==
  \A s \in Stopper : stop[s] # "idle" ~> stop[s] \in {"returned", "idle"}
====
