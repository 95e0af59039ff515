------------------------------ MODULE UptimeKuma ------------------------------
(***************************************************************************)
(* The Uptime Kuma connector, and the power action of the Pelican connector *)
(* that silences a server's monitors while it acts.  Every call opens a     *)
(* session of its own; pauses and resumes are acknowledged one by one and   *)
(* an acknowledgement may be lost; handles are kept in a file.              *)
(***************************************************************************)
EXTENDS ToolCall, TLC

CONSTANTS Monitors,      \* ids, numbers
          OldHandle,     \* a handle opened before the calls began
          MaxPolls       \* bound on the reads of a server's state

Handles == Calls \cup {OldHandle}

\* What a call keeps of its session: the monitors it has yet to handle, those it
\* paused, those whose pause failed, those whose resume failed, and, unknown to
\* it, those paused by a request whose acknowledgement was lost.  A power action
\* adds what it read of the server's process and, unknown to it, what the server
\* was doing when the signal came: its state, and whether it was to start again.
PowerStates == {"running", "stopping", "offline", "starting"}

Sessions == [todo : SUBSET Monitors, paused : SUBSET Monitors, failed : SUBSET Monitors,
             still : SUBSET Monitors, lost : SUBSET Monitors]

PowerSessions ==
  [todo : SUBSET Monitors, paused : SUBSET Monitors, failed : SUBSET Monitors,
   still : SUBSET Monitors, lost : SUBSET Monitors, polls : Nat, saw : BOOLEAN,
   born : Nat, was : PowerStates, restarting : BOOLEAN, reached : BOOLEAN]

HandleRecords == [monitors : SUBSET Monitors, open : BOOLEAN]

\* Ids are numbers, so that of some monitors one comes first; without monitors
\* there is nothing to pause.
ASSUME KumaAssumption ==
  /\ Monitors # {}
  /\ OldHandle \notin Calls
  /\ None \notin Sessions \cup PowerSessions \cup HandleRecords
  /\ \A ms \in (SUBSET Monitors) \ {{}} : \E m \in ms : \A other \in ms : m <= other

First(ms) == CHOOSE m \in ms : \A other \in ms : m <= other

PausedNow == { m \in Monitors : remote.monitor[m] = "paused" }
ActiveNow == { m \in Monitors : remote.monitor[m] = "active" }

-----------------------------------------------------------------------------
(* The calls the tool schemas accept.                                        *)

KumaCalls ==
  { [tool |-> t, monitor |-> m] :
      t \in {"pause_monitor", "resume_monitor"}, m \in Monitors }
  \cup { [tool |-> "maintenance", monitors |-> ms] : ms \in (SUBSET Monitors) \ {{}} }
  \cup { [tool |-> "end_maintenance", handle |-> h] : h \in Handles }

WhiteGloveCalls ==
  { [tool |-> "white_glove", signal |-> s] : s \in {"stop", "restart"} }

KumaReadCalls == { [tool |-> t] : t \in {"list_monitors", "monitor_status"} }

UptimeKumaCalls ==
  CASE remote.topic = "windows" -> KumaCalls
    [] remote.topic = "bounce" -> WhiteGloveCalls
    [] OTHER -> KumaReadCalls \cup WhiteGloveCalls

KumaTools == { a.tool : a \in KumaCalls \cup KumaReadCalls }

-----------------------------------------------------------------------------
(* A session and what the handlers do in it.                                 *)

\* One step of a call at `here`: the other side becomes `new`, the call's own
\* variables `mine`.
Step(c, here, new, mine, there) ==
  /\ at[c] = here
  /\ remote' = new
  /\ got' = Now(got, c, mine)
  /\ at' = Now(at, c, there)
  /\ UNCHANGED <<args, sent, answer, touched, edits>>

SetMonitor(m, state) ==
  IF remote.monitor[m] = "gone" THEN remote ELSE [remote EXCEPT !.monitor[m] = state]

Begun(todo) == [todo |-> todo, paused |-> {}, failed |-> {}, still |-> {},
                lost |-> {}]

\* The login is answered and the server has pushed its list of monitors; a
\* refused login or a list that never comes ends the call.
openSession(c, here, wanted, there) ==
  Learn(c, here, Begun(wanted), there)

\* The next pause is acknowledged, or fails with or without its effect.
pause(c, here, there) ==
  LET m == First(got[c].todo)
      rest == [got[c] EXCEPT !.todo = @ \ {m}]
  IN /\ got[c].todo # {}
     /\ \/ /\ remote.monitor[m] # "gone"
           /\ Step(c, here, SetMonitor(m, "paused"),
                   [rest EXCEPT !.paused = @ \cup {m}], there)
        \/ Step(c, here, remote, [rest EXCEPT !.failed = @ \cup {m}], there)
        \/ /\ remote.monitor[m] = "active"
           /\ Step(c, here, SetMonitor(m, "paused"),
                   [rest EXCEPT !.failed = @ \cup {m}, !.lost = @ \cup {m}], there)

\* The next resume, likewise.
resume(c, here, there) ==
  LET m == First(got[c].todo)
      rest == [got[c] EXCEPT !.todo = @ \ {m}]
  IN /\ got[c].todo # {}
     /\ \/ Step(c, here, SetMonitor(m, "active"),
                [rest EXCEPT !.paused = @ \ {m}], there)
        \/ Step(c, here, remote, [rest EXCEPT !.still = @ \cup {m}], there)
        \/ Step(c, here, SetMonitor(m, "active"),
                [rest EXCEPT !.still = @ \cup {m}], there)

\* The file of handles, read and written whole, one call after the other.
add(c, monitors) ==
  [remote EXCEPT !.handle[c] = [monitors |-> monitors, open |-> TRUE]]

end(handle) == [remote EXCEPT !.handle[handle].open = FALSE]

-----------------------------------------------------------------------------
(* The tools.                                                                *)

pauseMonitor(c) ==
  LET m == args[c].monitor IN
  /\ Does(c, "pause_monitor")
  /\ \/ openSession(c, "begin", {m} \cap ActiveNow, "pausing")
     \/ at[c] = "pausing" /\ got[c].todo # {} /\ pause(c, "pausing", "pausing")
     \/ /\ at[c] = "pausing" /\ got[c].todo = {}
        /\ Reply(c, "pausing", IF got[c].failed = {} THEN "ok" ELSE "error")

resumeMonitor(c) ==
  LET m == args[c].monitor IN
  /\ Does(c, "resume_monitor")
  /\ \/ openSession(c, "begin", {m} \cap PausedNow, "resuming")
     \/ at[c] = "resuming" /\ got[c].todo # {} /\ resume(c, "resuming", "resuming")
     \/ /\ at[c] = "resuming" /\ got[c].todo = {}
        /\ Reply(c, "resuming", IF got[c].still = {} THEN "ok" ELSE "error")

(***************************************************************************)
(* maintenance: pause what is selected and active, then record exactly what *)
(* was paused; when the record cannot be written, resume it all and refuse. *)
(***************************************************************************)
\* Mutant: a window that could not be recorded is refused without a rollback.
NothingToRollBack(mine) == [mine EXCEPT !.todo = {}]

ToRollBack(mine) == [mine EXCEPT !.todo = mine.paused]

maintenance(c) ==
  /\ Does(c, "maintenance")
  /\ \/ openSession(c, "begin", args[c].monitors \cap ActiveNow, "pausing")
     \/ at[c] = "pausing" /\ got[c].todo # {} /\ pause(c, "pausing", "pausing")
     \/ /\ at[c] = "pausing" /\ got[c].todo = {}
        /\ IF got[c].paused = {}
           THEN Reply(c, "pausing", IF got[c].failed = {} THEN "ok" ELSE "partial")
           ELSE \/ Step(c, "pausing", add(c, got[c].paused), got[c], "recorded")
                \/ Learn(c, "pausing", ToRollBack(got[c]), "rollback")
     \/ /\ at[c] = "recorded"
        /\ Reply(c, "recorded", IF got[c].failed = {} THEN "ok" ELSE "partial")
     \/ at[c] = "rollback" /\ got[c].todo # {} /\ resume(c, "rollback", "rollback")
     \/ at[c] = "rollback" /\ got[c].todo = {} /\ Reply(c, "rollback", "refused")

\* resumeExactly: in a new session, those of the wanted monitors that exist and
\* are paused; the others are reported.
resumeExactly(c, here, wanted, there) ==
  Learn(c, here, [got[c] EXCEPT !.todo = wanted \cap PausedNow], there)

MayClose(mine) == mine.still = {}

\* A handle that cannot be written as closed stays open, and the answer is an error.
endMaintenance(c) ==
  LET h == args[c].handle IN
  /\ Does(c, "end_maintenance")
  /\ \/ /\ at[c] = "begin" /\ remote.handle[h] = None
        /\ Reply(c, "begin", "refused")
     \/ /\ at[c] = "begin" /\ remote.handle[h] # None
        /\ IF remote.handle[h].open
           THEN openSession(c, "begin", remote.handle[h].monitors, "open")
           ELSE Reply(c, "begin", "ok")
     \/ /\ at[c] = "open"
        /\ resumeExactly(c, "open", got[c].todo, "resuming")
     \/ at[c] = "resuming" /\ got[c].todo # {} /\ resume(c, "resuming", "resuming")
     \/ /\ at[c] = "resuming" /\ got[c].todo = {}
        /\ IF MayClose(got[c])
           THEN \/ Step(c, "resuming", end(h), got[c], "closed")
                \/ Reply(c, "resuming", "error")
           ELSE Reply(c, "resuming", "partial")
     \/ Reply(c, "closed", "ok")

kumaReads(c) ==
  /\ Running(c) /\ args[c].tool \in {a.tool : a \in KumaReadCalls}
  /\ \/ Learn(c, "begin", remote.monitor, "have")
     \/ Reply(c, "have", "ok")

-----------------------------------------------------------------------------
(* The power action with suppressMonitors: pause, act, verify, always resume. *)
(* The state of the server changes on its own, as the panel's agent carries   *)
(* out a signal: `todo` is the states still ahead, `born` counts processes.   *)

WillPass(state, signal) ==
  (IF state = "offline" THEN <<>> ELSE <<"stopping", "offline">>)
    \o (IF signal = "stop" THEN <<>> ELSE <<"starting", "running">>)

\* What is ahead of a server once a signal has come: the agent drops it, breaks off
\* what the server was doing, or carries it out afterwards.
AfterSignal(s, signal) ==
  LET last == IF s.todo = <<>> THEN s.state ELSE s.todo[Len(s.todo)]
  IN {s.todo, WillPass(s.state, signal), s.todo \o WillPass(last, signal)}

\* A server that nobody signals, and ones that were started, stopped or restarted a
\* moment ago.
ServersAtFirst ==
  { [state |-> "running", todo |-> <<>>, born |-> 0],
    [state |-> "offline", todo |-> <<>>, born |-> 0],
    [state |-> "starting", todo |-> <<"running">>, born |-> 0],
    [state |-> "stopping", todo |-> <<"offline">>, born |-> 0],
    [state |-> "stopping", todo |-> <<"offline", "starting", "running">>, born |-> 0] }

serverTurns ==
  LET s == remote.server IN
  /\ s.todo # <<>>
  /\ remote' = [remote EXCEPT !.server =
        [s EXCEPT !.state = Head(s.todo), !.todo = Tail(s.todo),
                  !.born = @ + IF Head(s.todo) = "starting" THEN 1 ELSE 0]]
  /\ UNCHANGED <<args, at, got, sent, answer, touched, edits>>

expectedStateFor(signal) == IF signal = "stop" THEN "offline" ELSE "running"

\* Mutant: for a restart, running is taken for restarted.
RunningIsEnough(signal, state, sawTransition, fresh) ==
  state = expectedStateFor(signal)

\* waitForPowerState: before and after a restart the server is running, so it
\* must have been seen in another state, or be younger than the wait.
Reached(signal, state, sawTransition, fresh) ==
  /\ state = expectedStateFor(signal)
  /\ signal # "restart" \/ sawTransition \/ fresh

monitorsTargetFor == remote.kumaTargets = 1

\* Pausing: the first failure resumes what was paused and refuses.
whiteGlovePause(c) ==
  /\ Does(c, "white_glove")
  /\ \/ ~monitorsTargetFor /\ Reply(c, "begin", "refused")
     \/ /\ monitorsTargetFor
        /\ IF remote.matched = {} THEN Reply(c, "begin", "refused")
           ELSE openSession(c, "begin", remote.matched \cap ActiveNow, "pausing")
     \/ /\ at[c] = "pausing" /\ got[c].todo # {} /\ got[c].failed = {}
        /\ pause(c, "pausing", "pausing")
     \/ /\ at[c] = "pausing" /\ got[c].failed # {}
        /\ Learn(c, "pausing", ToRollBack(got[c]), "rollback")
     \/ at[c] = "rollback" /\ got[c].todo # {} /\ resume(c, "rollback", "rollback")
     \/ at[c] = "rollback" /\ got[c].todo = {} /\ Reply(c, "rollback", "refused")

\* The signal is sent, whatever the server is doing: the panel takes it, or that
\* fails, with or without its effect.
powerAction(c) ==
  LET s == remote.server
      mine(todo) ==
        [todo |-> {}, paused |-> got[c].paused, failed |-> {}, still |-> {},
         lost |-> got[c].lost, polls |-> 0, saw |-> FALSE, born |-> s.born,
         was |-> s.state, reached |-> FALSE,
         restarting |-> \E i \in DOMAIN todo : todo[i] = "starting"]
  IN /\ Does(c, "white_glove")
     /\ at[c] = "pausing" /\ got[c].todo = {} /\ got[c].failed = {}
     /\ \E todo \in AfterSignal(s, args[c].signal), there \in {"waiting", "acted"} :
          Step(c, "pausing", [remote EXCEPT !.server.todo = todo], mine(todo), there)

\* One read of the server's state, which may fail; at the deadline the wait ends.
waitForPowerState(c) ==
  LET s == remote.server
      mine == got[c]
      saw == mine.saw \/ s.state # "running"
  IN /\ Does(c, "white_glove") /\ at[c] = "waiting"
     /\ \/ /\ mine.polls < MaxPolls
           /\ IF Reached(args[c].signal, s.state, saw, s.born > mine.born)
              THEN Learn(c, "waiting", [mine EXCEPT !.reached = TRUE, !.saw = saw],
                         "acted")
              ELSE Learn(c, "waiting",
                         [mine EXCEPT !.polls = @ + 1, !.saw = saw], "waiting")
        \/ Move(c, "waiting", "acted")

\* Whatever happened, resume in a session of its own; when that session cannot
\* be had, every monitor is reported as still paused.
safeResume(c) ==
  /\ Does(c, "white_glove")
  /\ \/ at[c] = "acted" /\ resumeExactly(c, "acted", got[c].paused, "resuming")
     \/ /\ at[c] = "acted" /\ got[c].paused # {}
        /\ Learn(c, "acted", [got[c] EXCEPT !.still = got[c].paused], "resuming")
     \/ at[c] = "resuming" /\ got[c].todo # {} /\ resume(c, "resuming", "resuming")
     \/ /\ at[c] = "resuming" /\ got[c].todo = {}
        /\ Reply(c, "resuming", IF got[c].still # {} THEN "partial"
                                ELSE IF got[c].reached THEN "ok" ELSE "error")

-----------------------------------------------------------------------------
\* Somebody resumes or deletes a monitor in Kuma's own interface.
kumaEdit ==
  \E m \in Monitors : \/ remote.monitor[m] = "paused"
                         /\ Edit([remote EXCEPT !.monitor[m] = "active"])
                      \/ Edit([remote EXCEPT !.monitor[m] = "gone"])

\* A login or a list that fails ends a call before it has paused anything.
SessionFails(c) ==
  /\ Running(c) /\ args[c].tool \in KumaTools \cup {"white_glove"}
  /\ Reply(c, "begin", "error")

UptimeKumaStep(c) ==
  \/ (remote.topic = "windows" \/ Alone(c)) /\ Begin(c, UptimeKumaCalls)
  \/ pauseMonitor(c)
  \/ resumeMonitor(c)
  \/ maintenance(c)
  \/ endMaintenance(c)
  \/ kumaReads(c)
  \/ whiteGlovePause(c)
  \/ powerAction(c)
  \/ waitForPowerState(c)
  \/ safeResume(c)
  \/ SessionFails(c)

\* One monitor may belong to a handle opened earlier, which has it paused.
UptimeKumaInit ==
  \E topic \in {"windows", "bounce", "other"}, old \in SUBSET {First(Monitors)},
     matched \in SUBSET Monitors, targets \in 1..2, server \in ServersAtFirst :
    /\ topic # "bounce" => server.state = "running"
    /\ topic = "windows" => matched = {} /\ targets = 1
    /\ topic = "bounce" => old = {} /\ matched # {} /\ targets = 1
    /\ topic = "other" => old = {} /\ (matched = {} \/ targets = 2)
    /\ remote = [system |-> "uptime-kuma", topic |-> topic, matched |-> matched,
                 kumaTargets |-> targets,
                 monitor |-> [m \in Monitors |-> IF m \in old THEN "paused"
                                                 ELSE "active"],
                 handle |-> [h \in Handles |->
                   IF h = OldHandle /\ old # {}
                   THEN [monitors |-> old, open |-> TRUE] ELSE None],
                 server |-> server]
=============================================================================
