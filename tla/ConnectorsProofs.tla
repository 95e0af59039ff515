-------------------------- MODULE ConnectorsProofs --------------------------
(***************************************************************************)
(* For any number of calls against any of the systems: documents that are   *)
(* written back whole keep what they held, port forwards are screened, only *)
(* what was named is hit, paused monitors are told of, an "ok" can be       *)
(* relied on, the release that is installed runs on the PHP it finds, logs, *)
(* files and bodies of any length are shown as they were read, and nothing  *)
(* is done that was not asked: a call that declined, or that only reads,    *)
(* changes nothing.  What the code does not keep is excepted by name in the *)
(* properties.  Each has an inductive invariant beside BaseInv.             *)
(***************************************************************************)
EXTENDS ConnectorsInvariants, FiniteSetTheorems, FunctionTheorems, TLAPS

\* An entry of such a variable is replaced.
LEMMA NowEntry ==
  ASSUME NEW f, DOMAIN f = Calls, NEW c \in Calls, NEW v
  PROVE  /\ DOMAIN Now(f, c, v) = Calls
         /\ Now(f, c, v)[c] = v
         /\ \A d \in Calls \ {c} : Now(f, c, v)[d] = f[d]
  BY DEF Now

\* What each of the shared steps does to the call that takes it.
LEMMA BeginStep ==
  ASSUME FrameOK, NEW c \in Calls, NEW accepted, Begin(c, accepted)
  PROVE  /\ Only(c) /\ remote' = remote /\ edits' = edits
         /\ at[c] = "idle" /\ at'[c] = "begin" /\ args'[c] \in accepted
         /\ UNCHANGED <<got, sent, answer, touched>>
  BY NowEntry DEF Begin, Only, FrameOK

\* Its handler is given a value.
LEMMA LearnStep ==
  ASSUME FrameOK, NEW c \in Calls, NEW here, NEW value, NEW there, Learn(c, here, value, there)
  PROVE  /\ Only(c) /\ at[c] = here /\ got'[c] = value /\ at'[c] = there
         /\ UNCHANGED <<remote, args, sent, answer, touched, edits>>
  BY NowEntry DEF Learn, Only, FrameOK

\* It changes the other system.
LEMMA ChangeStep ==
  ASSUME FrameOK, NEW c \in Calls, NEW here, NEW new, NEW effect, NEW body, NEW there,
         Change(c, here, new, effect, body, there)
  PROVE  /\ Only(c) /\ remote' = new /\ at[c] = here /\ at'[c] = there /\ sent'[c] = body
         /\ touched'[c] = touched[c] \cup effect
         /\ UNCHANGED <<args, got, answer, edits>>
  BY NowEntry DEF Change, Only, FrameOK

\* It returns to its caller.
LEMMA ReplyStep ==
  ASSUME FrameOK, NEW c \in Calls, NEW here, NEW said, Reply(c, here, said)
  PROVE  /\ Only(c) /\ at[c] = here /\ at'[c] = "done" /\ answer'[c] = said
         /\ UNCHANGED <<remote, args, got, sent, touched, edits>>
  BY NowEntry DEF Reply, Only, FrameOK

\* It only waits at another place.
LEMMA MoveStep ==
  ASSUME FrameOK, NEW c \in Calls, NEW here, NEW there, Move(c, here, there)
  PROVE  /\ Only(c) /\ at[c] = here /\ at'[c] = there
         /\ UNCHANGED <<remote, args, got, sent, answer, touched, edits>>
  BY NowEntry DEF Move, Only, FrameOK

\* A session with Uptime Kuma takes a step of its own.
LEMMA SessionStep ==
  ASSUME FrameOK, NEW c \in Calls, NEW here, NEW new, NEW mine, NEW there,
         Step(c, here, new, mine, there)
  PROVE  /\ Only(c) /\ remote' = new /\ at[c] = here /\ got'[c] = mine /\ at'[c] = there
         /\ UNCHANGED <<args, sent, answer, touched, edits>>
  BY NowEntry DEF Step, Only, FrameOK

\* Somebody else edits the system: no call notices.
LEMMA EditStep ==
  ASSUME FrameOK, NEW new, Edit(new)
  PROVE  /\ FrameOK' /\ remote' = new /\ edits' = edits + 1
         /\ UNCHANGED <<args, at, got, sent, answer, touched>>
  BY DEF Edit, FrameOK

\* A field other than those two is replaced.
LEMMA FieldSet ==
  ASSUME NEW x, x \notin {"system", "topic"}, NEW v, remote' = [remote EXCEPT ![x] = v]
  PROVE  SameKind
  BY DEF SameKind

\* Each of the shared steps is proper when it leaves the system one of the same kind:
\* a value learned is.
LEMMA LearnProper ==
  ASSUME FrameOK, NEW c \in Calls, NEW here, NEW value, NEW there, NEW accepted,
         here # "idle", there # "idle", Learn(c, here, value, there)
  PROVE  Proper(c, accepted)
  BY LearnStep DEF Proper, SameKind

\* A request that changes it is.
LEMMA ChangeProper ==
  ASSUME FrameOK, NEW c \in Calls, NEW here, NEW new, NEW effect, NEW body, NEW there,
         NEW accepted,
         here # "idle", there # "idle", Change(c, here, new, effect, body, there), Alike(new)
  PROVE  Proper(c, accepted)
  BY ChangeStep DEF Proper, SameKind, Alike

\* A step of a session is.
LEMMA SessionProper ==
  ASSUME FrameOK, NEW c \in Calls, NEW here, NEW new, NEW mine, NEW there,
         NEW accepted,
         here # "idle", there # "idle", Step(c, here, new, mine, there), Alike(new)
  PROVE  Proper(c, accepted)
  BY SessionStep DEF Proper, SameKind, Alike

\* An answer is.
LEMMA ReplyProper ==
  ASSUME FrameOK, NEW c \in Calls, NEW here, NEW said, NEW accepted,
         here # "idle", Reply(c, here, said)
  PROVE  Proper(c, accepted)
  BY ReplyStep DEF Proper, SameKind

\* A move is.
LEMMA MoveProper ==
  ASSUME FrameOK, NEW c \in Calls, NEW here, NEW there, NEW accepted,
         here # "idle", there # "idle", Move(c, here, there)
  PROVE  Proper(c, accepted)
  BY MoveStep DEF Proper, SameKind

\* So is every step of the handlers, connector by connector: UniFi.
LEMMA UniFiFrame ==
  ASSUME FrameOK, NEW c \in Calls, UniFiStep(c),
         at[c] # "idle" => args[c] \in UniFiCalls
  PROVE  Proper(c, UniFiCalls)
<1>1. CASE unifiNotReady(c)
  BY <1>1, LearnProper, ChangeProper, ReplyProper, MoveProper
     DEF Alike, Running, Does, Ready, unifiNotReady
<1>2. CASE setNetworkIpv6(c)
  BY <1>2, LearnProper, ChangeProper, ReplyProper, MoveProper
     DEF Alike, Running, Does, Ready, setNetworkIpv6
<1>3. CASE setGatewayFeature(c) \/ setRemoteLogging(c)
  <2>1. args[c].group \notin {"system", "topic"}
    BY <1>3 DEF setGatewayFeature, setRemoteLogging, Does, Running, UniFiCalls,
              UniFiSettingCalls, UniFiForwardCalls, UniFiReadCalls
  <2>2. \A x : Alike([remote EXCEPT ![args[c].group] = x])
    BY <2>1 DEF Alike
  <2>3. CASE RewriteGroup(c)
    BY <2>2, <2>3, LearnProper, ChangeProper, ReplyProper DEF RewriteGroup
  <2> QED
    BY <1>3, <2>3, ReplyProper DEF setGatewayFeature, setRemoteLogging
<1>5. CASE createPortForward(c)
  <2>1. \A r, x : Alike([remote EXCEPT !.rules[r] = x, !.live = FALSE])
    BY DEF Alike
  <2> QED
    BY <1>5, <2>1, LearnProper, ChangeProper, ReplyProper, MoveProper
       DEF Running, Does, Ready, createPortForward
<1>6. CASE updatePortForward(c)
  <2>1. \A r, x : Alike([remote EXCEPT !.rules[r] = x, !.live = FALSE])
    BY DEF Alike
  <2> QED
    BY <1>6, <2>1, LearnProper, ChangeProper, ReplyProper, MoveProper
       DEF Running, Does, Ready, updatePortForward
<1>7. CASE deletePortForward(c)
  <2>1. \A r, x : Alike([remote EXCEPT !.rules[r] = x, !.live = FALSE])
    BY DEF Alike
  <2> QED
    BY <1>7, <2>1, LearnProper, ChangeProper, ReplyProper, MoveProper
       DEF Running, Does, Ready, deletePortForward
<1>8. CASE forceProvision(c)
  BY <1>8, LearnProper, ChangeProper, ReplyProper, MoveProper
     DEF Alike, Running, Does, Ready, forceProvision
<1>9. CASE unifiReads(c)
  BY <1>9, LearnProper, ChangeProper, ReplyProper, MoveProper
     DEF Alike, Running, Does, Ready, unifiReads
<1>10. CASE unifiSnapshot(c)
  BY <1>10, LearnProper, ChangeProper, ReplyProper, MoveProper
     DEF Alike, Running, Does, Ready, unifiSnapshot
<1>11. CASE Breaks(c, UniFiTools)
  BY <1>11, ReplyProper DEF Breaks, Running
<1>12. CASE Begin(c, UniFiCalls)
  BY <1>12, BeginStep DEF Proper, SameKind
<1> QED
  BY <1>1, <1>2, <1>3, <1>5, <1>6, <1>7, <1>8, <1>9, <1>10, <1>11, <1>12 DEF UniFiStep

\* Portainer.
LEMMA PortainerFrame ==
  ASSUME FrameOK, NEW c \in Calls, PortainerStep(c)
  PROVE  Proper(c, PortainerCalls)
<1>1. CASE createStack(c)
  <2>1. \A s, x : Alike([remote EXCEPT !.stacks[s] = x, !.unused = @ \ {s}])
    BY DEF Alike
  <2> QED
    BY <1>1, <2>1, LearnProper, ChangeProper, ReplyProper, MoveProper
       DEF Running, Does, Ready, createStack
<1>2. CASE updateStack(c)
  <2>1. \A s, x, y : Alike([remote EXCEPT !.stacks[s].marked = x, !.stacks[s].env = y])
    BY DEF Alike
  <2> QED
    BY <1>2, <2>1, LearnProper, ChangeProper, ReplyProper, MoveProper
       DEF Running, Does, Ready, updateStack
<1>3. CASE removeStack(c)
  BY <1>3, LearnProper, ChangeProper, ReplyProper, MoveProper
     DEF Alike, Running, Does, Ready, removeStack
<1>4. CASE containerAction(c)
  BY <1>4, LearnProper, ChangeProper, ReplyProper, MoveProper
     DEF Alike, Running, Does, Ready, containerAction
<1>5. CASE exec(c)
  <2>1. Alike([remote EXCEPT !.ran = TRUE])
    BY DEF Alike
  <2> QED
    BY <1>5, <2>1, LearnProper, ChangeProper, ReplyProper, MoveProper
       DEF Running, Does, Ready, exec
<1>6. CASE portainerReads(c)
  BY <1>6, LearnProper, ChangeProper, ReplyProper, MoveProper
     DEF Alike, Running, Does, Ready, portainerReads
<1>7. CASE containerLogs(c)
  BY <1>7, LearnProper, ChangeProper, ReplyProper, MoveProper
     DEF Alike, Running, Does, Ready, containerLogs
<1>8. CASE portainerSnapshot(c)
  BY <1>8, LearnProper, ChangeProper, ReplyProper, MoveProper
     DEF Alike, Running, Does, Ready, portainerSnapshot
<1>9. CASE Breaks(c, PortainerTools)
  BY <1>9, ReplyProper DEF Breaks, Running
<1>10. CASE Begin(c, PortainerCalls)
  BY <1>10, BeginStep DEF Proper, SameKind
<1> QED
  BY <1>1, <1>2, <1>3, <1>4, <1>5, <1>6, <1>7, <1>8, <1>9, <1>10 DEF PortainerStep

\* Proxmox.
LEMMA ProxmoxFrame ==
  ASSUME FrameOK, NEW c \in Calls, ProxmoxStep(c)
  PROVE  Proper(c, GuestCalls \cup ProxmoxReadCalls)
<1>1. CASE proxmoxNotReady(c)
  BY <1>1, LearnProper, ChangeProper, ReplyProper, MoveProper
     DEF Alike, Running, Does, Ready, proxmoxNotReady
<1>2. CASE guestPower(c)
  BY <1>2, LearnProper, ChangeProper, ReplyProper, MoveProper
     DEF Alike, Running, Does, Ready, guestPower
<1>3. CASE proxmoxTimesOut(c)
  BY <1>3, LearnProper, ChangeProper, ReplyProper, MoveProper
     DEF Alike, Running, Does, Ready, proxmoxTimesOut
<1>4. CASE proxmoxReads(c)
  BY <1>4, LearnProper, ChangeProper, ReplyProper, MoveProper
     DEF Alike, Running, Does, Ready, proxmoxReads
<1>5. CASE proxmoxSnapshot(c)
  BY <1>5, LearnProper, ChangeProper, ReplyProper, MoveProper
     DEF Alike, Running, Does, Ready, proxmoxSnapshot
<1>6. CASE Breaks(c, ProxmoxTools)
  BY <1>6, ReplyProper DEF Breaks, Running
<1>7. CASE Begin(c, GuestCalls) \/ Begin(c, ProxmoxReadCalls)
  BY <1>7, BeginStep DEF Proper, SameKind
<1> QED
  BY <1>1, <1>2, <1>3, <1>4, <1>5, <1>6, <1>7 DEF ProxmoxStep

\* Home Assistant.
LEMMA HomeAssistantFrame ==
  ASSUME FrameOK, NEW c \in Calls, HomeAssistantStep(c)
  PROVE  Proper(c, HomeAssistantCalls)
<1>1. CASE getRaw(c)
  BY <1>1, LearnProper, ChangeProper, ReplyProper, MoveProper
     DEF Alike, Running, Does, Ready, getRaw
<1>2. CASE statesOrLogbook(c)
  BY <1>2, LearnProper, ChangeProper, ReplyProper, MoveProper
     DEF Alike, Running, Does, Ready, statesOrLogbook
<1>3. CASE callService(c)
  BY <1>3, LearnProper, ChangeProper, ReplyProper, MoveProper
     DEF Alike, Running, Does, Ready, callService
<1>4. CASE serviceAnswered(c)
  BY <1>4, LearnProper, ChangeProper, ReplyProper, MoveProper
     DEF Alike, Running, Does, Ready, serviceAnswered
<1>5. CASE homeAssistantTimesOut(c)
  BY <1>5, LearnProper, ChangeProper, ReplyProper, MoveProper
     DEF Alike, Running, Does, Ready, homeAssistantTimesOut
<1>6. CASE haSnapshot(c)
  BY <1>6, LearnProper, ChangeProper, ReplyProper, MoveProper
     DEF Alike, Running, Does, Ready, haSnapshot
<1>7. CASE haSnapshotDone(c)
  BY <1>7, LearnProper, ChangeProper, ReplyProper, MoveProper
     DEF Alike, Running, Does, Ready, haSnapshotDone
<1>8. CASE Breaks(c, HomeAssistantTools)
  BY <1>8, ReplyProper DEF Breaks, Running
<1>9. CASE Begin(c, HomeAssistantCalls)
  BY <1>9, BeginStep DEF Proper, SameKind
<1> QED
  BY <1>1, <1>2, <1>3, <1>4, <1>5, <1>6, <1>7, <1>8, <1>9 DEF HomeAssistantStep

\* Pelican's panel.
LEMMA PelicanPanelFrame ==
  ASSUME FrameOK, NEW c \in Calls, PelicanPanelStep(c)
  PROVE  Proper(c, PanelCalls)
<1>1. CASE panelNotReady(c)
  BY <1>1, LearnProper, ChangeProper, ReplyProper, MoveProper
     DEF Alike, Running, Does, Ready, panelNotReady
<1>2. CASE updateServerBuild(c)
  BY <1>2, LearnProper, ChangeProper, ReplyProper, MoveProper
     DEF Alike, Running, Does, Ready, updateServerBuild
<1>3. CASE updateServerStartup(c)
  BY <1>3, LearnProper, ChangeProper, ReplyProper, MoveProper
     DEF Alike, Running, Does, Ready, updateServerStartup
<1>4. CASE updateStartupVariables(c)
  <2>1. ASSUME NEW v, NEW x, remote' = [remote EXCEPT !.env[v] = x], at[c] # "idle",
               got' = Now(got, c, got[c] \cup {v}),
               touched' = Now(touched, c, touched[c] \cup {v}),
               UNCHANGED <<args, at, sent, answer, edits>>
        PROVE  Proper(c, PanelCalls)
    BY <2>1, NowEntry DEF Proper, Only, FrameOK, SameKind
  <2> QED
    BY <1>4, <2>1, LearnProper, ReplyProper DEF updateStartupVariables, Ready, Does, Running
<1>5. CASE createSchedule(c)
  <2>1. ASSUME NEW i, NEW x, remote' = [remote EXCEPT !.schedules[i] = x], at[c] = "begin",
               got' = Now(got, c, i), at' = Now(at, c, "made"),
               touched' = Now(touched, c, touched[c] \cup {"schedule"}),
               UNCHANGED <<args, sent, answer, edits>>
        PROVE  Proper(c, PanelCalls)
    BY <2>1, NowEntry DEF Proper, Only, FrameOK, SameKind
  <2>2. \A i : Alike([remote EXCEPT !.schedules[i].tasks = 1])
    BY DEF Alike
  <2> QED
    BY <1>5, <2>1, <2>2, ChangeProper, ReplyProper DEF createSchedule, Ready, Does, Running
<1>6. CASE updateSchedule(c)
  BY <1>6, LearnProper, ChangeProper, ReplyProper, MoveProper
     DEF Alike, Running, Does, Ready, updateSchedule
<1>7. CASE deleteSchedule(c)
  BY <1>7, LearnProper, ChangeProper, ReplyProper, MoveProper
     DEF Alike, Running, Does, Ready, deleteSchedule
<1>8. CASE createAllocations(c)
  BY <1>8, LearnProper, ChangeProper, ReplyProper, MoveProper
     DEF Alike, Running, Does, Ready, createAllocations
<1>9. CASE assignAllocation(c)
  <2>1. \A p : Alike([remote EXCEPT !.alloc[p] = "used"])
    BY DEF Alike
  <2> QED
    BY <1>9, <2>1, LearnProper, ChangeProper, ReplyProper, MoveProper
       DEF Running, Does, Ready, assignAllocation
<1>10. CASE createServer(c)
  <2>1. \A x, y : Alike([remote EXCEPT !.alloc = Patched(x, @), !.env = y])
    BY DEF Alike
  <2> QED
    BY <1>10, <2>1, LearnProper, ChangeProper, ReplyProper, MoveProper
       DEF Running, Does, Ready, createServer
<1>11. CASE importEgg(c)
  BY <1>11, LearnProper, ChangeProper, ReplyProper, MoveProper
     DEF Alike, Running, Does, Ready, importEgg
<1>12. CASE fileOperation(c)
  BY <1>12, LearnProper, ChangeProper, ReplyProper, MoveProper
     DEF Alike, Running, Does, Ready, fileOperation
<1>13. CASE pullFile(c)
  <2>1. ASSUME NEW x, NEW n, remote' = [remote EXCEPT !.file = x, !.upstream = n],
               NEW mine, got' = Now(got, c, mine), at[c] = "begin",
               touched' = Now(touched, c, touched[c] \cup {"files"}),
               at' = Now(at, c, "poll"), UNCHANGED <<args, sent, answer, edits>>
        PROVE  Proper(c, PanelCalls)
    <3>1. SameKind
      BY <2>1 DEF SameKind
    <3>2. Only(c)
      BY <2>1, NowEntry DEF Only, FrameOK
    <3>3. at'[c] = "poll"
      BY <2>1, NowEntry DEF FrameOK
    <3> QED
      BY <2>1, <3>1, <3>2, <3>3 DEF Proper
  <2> DEFINE whole == [remote EXCEPT !.file = [size |-> args[c].pull.size],
                                    !.upstream = args[c].pull.size]
             part == [remote EXCEPT !.file = [size |-> 0], !.upstream = args[c].pull.size]
             asked == at[c] = "begin" /\ touched' = Now(touched, c, touched[c] \cup {"files"})
                        /\ at' = Now(at, c, "poll") /\ UNCHANGED <<args, sent, answer, edits>>
  <2>2. ASSUME asked, remote' = whole, NEW mine, got' = Now(got, c, mine)
        PROVE  Proper(c, PanelCalls)
    BY <2>1, <2>2
  <2>3. ASSUME asked, remote' = part, NEW mine, got' = Now(got, c, mine)
        PROVE  Proper(c, PanelCalls)
    BY <2>1, <2>3
  <2>4. CASE Reply(c, "begin", "refused")
    BY <2>4, ReplyProper
  <2>5. Reply(c, "begin", "refused") \/ (asked /\ (remote' = whole \/ remote' = part)
                                          /\ \E mine : got' = Now(got, c, mine))
    BY <1>13 DEF pullFile
  <2> HIDE DEF whole, part, asked
  <2> QED
    BY <2>2, <2>3, <2>4, <2>5
<1>14. CASE waitForFile(c)
  BY <1>14, LearnProper, ChangeProper, ReplyProper, MoveProper
     DEF Alike, Running, Does, Ready, waitForFile
<1>15. CASE readFile(c)
  BY <1>15, LearnProper, ChangeProper, ReplyProper, MoveProper
     DEF Alike, Running, Does, Ready, readFile
<1>16. CASE list(c)
  BY <1>16, LearnProper, ChangeProper, ReplyProper, MoveProper
     DEF Alike, Running, Does, Ready, list
<1>17. CASE pelicanSnapshot(c)
  BY <1>17, LearnProper, ChangeProper, ReplyProper, MoveProper
     DEF Alike, Running, Does, Ready, pelicanSnapshot
<1>18. CASE Breaks(c, PanelTools)
  BY <1>18, ReplyProper DEF Breaks, Running
<1>19. CASE Begin(c, PanelCalls)
  BY <1>19, BeginStep DEF Proper, SameKind
<1> QED
  BY <1>1, <1>2, <1>3, <1>4, <1>5, <1>6, <1>7, <1>8, <1>9, <1>10, <1>11, <1>12, <1>13, <1>14,
     <1>15, <1>16, <1>17, <1>18, <1>19
     DEF PelicanPanelStep

\* The panel's host.
LEMMA PelicanHostFrame ==
  ASSUME FrameOK, NEW c \in Calls, PelicanHostStep(c)
  PROVE  Proper(c, HostCalls)
<1>1. CASE panelHost(c)
  BY <1>1, LearnProper, ChangeProper, ReplyProper, MoveProper
     DEF Alike, Running, Does, Ready, panelHost
<1>2. CASE panelUpgrade(c)
  <2>1. \A job : Alike([remote EXCEPT !.run[c] = [job |-> job, n |-> 0, state |-> "runs"]])
    BY DEF Alike
  <2> QED
    BY <1>2, <2>1, LearnProper, ChangeProper, ReplyProper, MoveProper
       DEF Running, Does, Ready, panelUpgrade, helperCommand
<1>3. CASE panelPrepareRuntime(c)
  <2>1. \A job : Alike([remote EXCEPT !.run[c] = [job |-> job, n |-> 0, state |-> "runs"]])
    BY DEF Alike
  <2> QED
    BY <1>3, <2>1, LearnProper, ChangeProper, ReplyProper, MoveProper
       DEF Running, Does, Ready, panelPrepareRuntime, helperCommand
<1>4. CASE panelPatchRuntime(c)
  BY <1>4, LearnProper, ChangeProper, ReplyProper, MoveProper
     DEF Alike, Running, Does, Ready, panelPatchRuntime, helperCommand
<1>5. CASE wingsUpdate(c)
  <2>1. \A job : Alike([remote EXCEPT !.run[c] = [job |-> job, n |-> 0, state |-> "runs"]])
    BY DEF Alike
  <2> QED
    BY <1>5, <2>1, LearnProper, ChangeProper, ReplyProper, MoveProper
       DEF Running, Does, Ready, wingsUpdate, helperCommand
<1>6. CASE helperAnswers(c)
  BY <1>6, LearnProper, ChangeProper, ReplyProper, MoveProper
     DEF Alike, Running, Does, Ready, helperAnswers
<1>7. CASE panelVersion(c)
  BY <1>7, LearnProper, ChangeProper, ReplyProper, MoveProper
     DEF Alike, Running, Does, Ready, panelVersion
<1>8. CASE Breaks(c, HostTools)
  BY <1>8, ReplyProper DEF Breaks, Running
<1>9. CASE Begin(c, HostCalls)
  BY <1>9, BeginStep DEF Proper, SameKind
<1> QED
  BY <1>1, <1>2, <1>3, <1>4, <1>5, <1>6, <1>7, <1>8, <1>9 DEF PelicanHostStep

\* Uptime Kuma.
LEMMA UptimeKumaFrame ==
  ASSUME FrameOK, NEW c \in Calls, UptimeKumaStep(c)
  PROVE  Proper(c, UptimeKumaCalls)
<1>1. CASE pauseMonitor(c)
  BY <1>1, LearnProper, ChangeProper, ReplyProper, MoveProper, SessionProper
     DEF Alike, Running, Does, Ready, pauseMonitor, openSession, pause, SetMonitor
<1>2. CASE resumeMonitor(c)
  BY <1>2, LearnProper, ChangeProper, ReplyProper, MoveProper, SessionProper
     DEF Alike, Running, Does, Ready, resumeMonitor, openSession, resume, SetMonitor
<1>3. CASE maintenance(c)
  BY <1>3, LearnProper, ChangeProper, ReplyProper, MoveProper, SessionProper
     DEF Alike, Running, Does, Ready, maintenance, openSession, pause, resume, add, SetMonitor
<1>4. CASE endMaintenance(c)
  BY <1>4, LearnProper, ChangeProper, ReplyProper, MoveProper, SessionProper
     DEF Alike, Running, Does, Ready, endMaintenance, openSession, resumeExactly, resume, end,
         SetMonitor
<1>5. CASE kumaReads(c)
  BY <1>5, LearnProper, ChangeProper, ReplyProper, MoveProper, SessionProper
     DEF Alike, Running, Does, Ready, kumaReads
<1>6. CASE whiteGlovePause(c)
  BY <1>6, LearnProper, ChangeProper, ReplyProper, MoveProper, SessionProper
     DEF Alike, Running, Does, Ready, whiteGlovePause, openSession, pause, resume, SetMonitor
<1>7. CASE powerAction(c)
  BY <1>7, LearnProper, ChangeProper, ReplyProper, MoveProper, SessionProper
     DEF Alike, Running, Does, Ready, powerAction
<1>8. CASE waitForPowerState(c)
  BY <1>8, LearnProper, ChangeProper, ReplyProper, MoveProper, SessionProper
     DEF Alike, Running, Does, Ready, waitForPowerState
<1>9. CASE safeResume(c)
  BY <1>9, LearnProper, ChangeProper, ReplyProper, MoveProper, SessionProper
     DEF Alike, Running, Does, Ready, safeResume, resumeExactly, resume, SetMonitor
<1>10. CASE SessionFails(c)
  BY <1>10, LearnProper, ChangeProper, ReplyProper, MoveProper, SessionProper
     DEF Alike, Running, Does, Ready, SessionFails
<1>11. CASE Begin(c, UptimeKumaCalls)
  BY <1>11, BeginStep DEF Proper, SameKind
<1> QED
  BY <1>1, <1>2, <1>3, <1>4, <1>5, <1>6, <1>7, <1>8, <1>9, <1>10, <1>11 DEF UptimeKumaStep

\* SSH.
LEMMA SshFrame ==
  ASSUME FrameOK, NEW c \in Calls, SshStep(c)
  PROVE  Proper(c, SshCalls)
<1>1. CASE execSsh(c)
  BY <1>1, LearnProper, ChangeProper, ReplyProper, MoveProper
     DEF Alike, Running, Does, Ready, execSsh, runSsh
<1>2. CASE sshSnapshot(c)
  <2>1. \A x : Alike([remote EXCEPT !.ran = @ \cup x])
    BY DEF Alike
  <2> QED
    BY <1>2, <2>1, LearnProper, ChangeProper, ReplyProper, MoveProper
       DEF Running, Does, Ready, sshSnapshot, runSsh
<1>3. CASE Breaks(c, SshTools)
  BY <1>3, ReplyProper DEF Breaks, Running
<1>4. CASE Begin(c, SshCalls)
  BY <1>4, BeginStep DEF Proper, SameKind
<1> QED
  BY <1>1, <1>2, <1>3, <1>4 DEF SshStep

\* An edit leaves the system the one it is.
LEMMA EditFrame ==
  ASSUME FrameOK, NEW new, Edit(new), Alike(new)
  PROVE  /\ SameKind /\ FrameOK' /\ UNCHANGED <<args, at, got, sent, answer, touched>>
         /\ edits' = edits + 1
  BY EditStep DEF SameKind, Alike

\* What others do leaves the calls where they are.
LEMMA OthersFrame ==
  ASSUME FrameOK, Others
  PROVE  /\ SameKind /\ FrameOK' /\ UNCHANGED <<args, at, got, sent, answer, touched>>
         /\ edits' = edits \/ edits' = edits + 1
<1>1. CASE unifiEdit
  BY <1>1, EditFrame DEF Alike, unifiEdit
<1>2. CASE portainerEdit
  BY <1>2, EditFrame DEF Alike, portainerEdit
<1>3. CASE proxmoxEdit
  BY <1>3, EditFrame DEF Alike, proxmoxEdit
<1>4. CASE kumaEdit
  BY <1>4, EditFrame DEF Alike, kumaEdit
<1>5. CASE serverTurns
  BY <1>5 DEF serverTurns, SameKind, FrameOK
<1>6. CASE panelEdit
  BY <1>6, EditFrame DEF Alike, panelEdit
<1>7. CASE agentDownloads
  BY <1>7 DEF agentDownloads, SameKind, FrameOK
<1>8. CASE \E c \in Calls : helperRuns(c)
  <2>1. /\ SameKind
        /\ UNCHANGED <<args, at, got, sent, answer, touched, edits>>
    <3>1. CASE \E c \in Calls : cmdPanelUpgrade(c)
      BY <3>1 DEF cmdPanelUpgrade, step, helperTurns, SameKind
    <3>2. CASE \E c \in Calls : cmdPhpPrepare(c)
      BY <3>2 DEF cmdPhpPrepare, helperTurns, SameKind, SocketSwitched, SocketRestored
    <3>3. CASE \E c \in Calls : cmdWingsUpdate(c)
      BY <3>3 DEF cmdWingsUpdate, helperTurns, SameKind
    <3> QED
      BY <1>8, <3>1, <3>2, <3>3 DEF helperRuns
  <2> QED
    BY <2>1 DEF FrameOK
<1> QED
  BY <1>1, <1>2, <1>3, <1>4, <1>5, <1>6, <1>7, <1>8 DEF Others

\* Whichever connector is at work, a step of a call is proper.
LEMMA StepProper ==
  ASSUME BaseInv, NEW c \in Calls, CallStep(c)
  PROVE  Proper(c, Accepted)
<1> FrameOK
  BY DEF BaseInv
<1> QED
  BY UniFiFrame, PortainerFrame, ProxmoxFrame, HomeAssistantFrame, UptimeKumaFrame,
     PelicanPanelFrame, PelicanHostFrame, SshFrame DEF BaseInv, CallStep, Accepted

\* Whoever takes a step, the kind of system and the arguments of the others stay.
LEMMA BaseStep ==
  ASSUME BaseInv, [ConnectorsNext]_callVars
  PROVE  BaseInv' /\ SameKind /\ Accepted' = Accepted
<1>1. SameKind /\ FrameOK' /\ (edits' = edits \/ edits' = edits + 1)
  <2>1. ASSUME NEW c \in Calls, CallStep(c)
        PROVE  SameKind /\ FrameOK' /\ edits' = edits
    BY <2>1, StepProper DEF Proper, Only
  <2>2. CASE Others
    BY <2>2, OthersFrame DEF BaseInv
  <2>3. CASE UNCHANGED callVars
    BY <2>3 DEF callVars, SameKind, BaseInv, FrameOK
  <2> QED
    BY <2>1, <2>2, <2>3 DEF ConnectorsNext, AllAnswered
<1>2. /\ remote'.system = remote.system /\ DOMAIN remote' = DOMAIN remote
      /\ remote.system \notin {"host", "ssh"} => remote'.topic = remote.topic
  BY <1>1 DEF BaseInv, SameKind
<1>3. Accepted' = Accepted
  BY <1>2 DEF Accepted, UniFiCalls, PortainerCalls, HomeAssistantCalls, UptimeKumaCalls,
              PanelCalls
<1>4. ASSUME NEW d \in Calls PROVE (at[d] # "idle" => args[d] \in Accepted)'
  <2>1. ASSUME NEW c \in Calls, CallStep(c) PROVE at'[d] # "idle" => args'[d] \in Accepted
    <3>1. Proper(c, Accepted)
      BY <2>1, StepProper
    <3> QED
      BY <3>1 DEF BaseInv, Proper, Only
  <2>2. CASE Others
    BY <1>3, <2>2, OthersFrame DEF BaseInv
  <2>3. CASE UNCHANGED callVars
    BY <1>3, <2>3 DEF callVars, BaseInv
  <2> QED
    BY <1>3, <2>1, <2>2, <2>3 DEF ConnectorsNext, AllAnswered
<1> QED
  BY <1>1, <1>2, <1>3, <1>4 DEF BaseInv

\* For any number of calls: a call that was begun has arguments its schema accepts,
\* and no step makes the other system one of another kind.
THEOREM BaseInvariant == ConnectorsSpec => []BaseInv
<1>1. ConnectorsInit => BaseInv
  <2> SUFFICES ASSUME ConnectorsInit PROVE BaseInv
    OBVIOUS
  <2>1. FrameOK /\ edits \in Nat /\ \A c \in Calls : at[c] = "idle"
    BY DEF ConnectorsInit, CallInit, FrameOK
  <2>2. /\ "system" \in DOMAIN remote
        /\ remote.system \notin {"host", "ssh"} => "topic" \in DOMAIN remote
    <3>1. CASE UniFiInit
      BY <3>1, UniFiAssumption DEF UniFiInit
    <3>2. CASE PelicanPanelInit
      BY <3>2, PanelAssumption DEF PelicanPanelInit
    <3>3. CASE PelicanHostInit
      BY <3>3, HostAssumption DEF PelicanHostInit
    <3>4. CASE PortainerInit
      BY <3>4 DEF PortainerInit
    <3>5. CASE ProxmoxInit
      BY <3>5 DEF ProxmoxInit
    <3>6. CASE HomeAssistantInit
      BY <3>6 DEF HomeAssistantInit
    <3>7. CASE UptimeKumaInit
      BY <3>7 DEF UptimeKumaInit
    <3>8. CASE SshInit
      BY <3>8 DEF SshInit
    <3> QED
      BY <3>1, <3>2, <3>3, <3>4, <3>5, <3>6, <3>7, <3>8 DEF ConnectorsInit
  <2> QED
    BY <2>1, <2>2 DEF BaseInv
<1>2. BaseInv /\ [ConnectorsNext]_callVars => BaseInv'
  BY BaseStep
<1> QED
  BY <1>1, <1>2, PTL DEF ConnectorsSpec

-----------------------------------------------------------------------------
(* Uptime Kuma: no monitor stays paused with nobody told.                     *)

\* The next monitor in the order is one of those to do.
LEMMA FirstIn ==
  ASSUME NEW ms \in SUBSET Monitors, ms # {}
  PROVE  First(ms) \in ms
  BY KumaAssumption DEF First

\* A session in which one set of monitors is replaced is a session.
LEMMA SessionSet ==
  ASSUME NEW s \in Sessions \cup PowerSessions, NEW x \in SUBSET Monitors
  PROVE  /\ [s EXCEPT !.todo = x] \in Sessions \cup PowerSessions
         /\ [s EXCEPT !.paused = x] \in Sessions \cup PowerSessions
         /\ [s EXCEPT !.failed = x] \in Sessions \cup PowerSessions
         /\ [s EXCEPT !.still = x] \in Sessions \cup PowerSessions
         /\ [s EXCEPT !.lost = x] \in Sessions \cup PowerSessions
  BY DEF Sessions, PowerSessions

\* Its fields are sets of monitors.
LEMMA SessionFields ==
  ASSUME NEW s \in Sessions \cup PowerSessions
  PROVE  /\ s # None
         /\ {"todo", "paused", "failed", "still", "lost"} \subseteq DOMAIN s
         /\ s.todo \in SUBSET Monitors /\ s.paused \in SUBSET Monitors
         /\ s.failed \in SUBSET Monitors /\ s.still \in SUBSET Monitors
         /\ s.lost \in SUBSET Monitors
  BY KumaAssumption DEF Sessions, PowerSessions

\* A session begins with its monitors to do, and nothing else.
LEMMA BegunIs ==
  ASSUME NEW w \in SUBSET Monitors
  PROVE  /\ Begun(w) \in Sessions \cup PowerSessions
         /\ Begun(w).todo = w /\ Begun(w).paused = {} /\ Begun(w).failed = {}
         /\ Begun(w).still = {}
  BY DEF Begun, Sessions

\* Setting a monitor touches no other, and none that is gone.
LEMMA SetMonitorIs ==
  ASSUME KumaTypeOK, NEW m \in Monitors, NEW v \in {"active", "paused"},
         remote' = SetMonitor(m, v)
  PROVE  /\ KumaTypeOK' /\ remote'.handle = remote.handle /\ remote'.server = remote.server
         /\ \A x \in Monitors :
              remote'.monitor[x] = IF x = m /\ remote.monitor[m] # "gone" THEN v
                                   ELSE remote.monitor[x]
  BY DEF KumaTypeOK, SetMonitor

\* A pause: whatever is paused by it is noted in the session, or noted as failed.
LEMMA PauseStep ==
  ASSUME KumaTypeOK, FrameOK, NEW c \in Calls, NEW here, NEW there,
         got[c] \in Sessions \cup PowerSessions, pause(c, here, there)
  PROVE  /\ Only(c) /\ args' = args /\ at[c] = here /\ at'[c] = there
         /\ KumaTypeOK' /\ remote'.handle = remote.handle /\ remote'.server = remote.server
         /\ got'[c] \in Sessions \cup PowerSessions
         /\ got'[c].still = got[c].still
         /\ got[c].paused \subseteq got'[c].paused /\ got[c].failed \subseteq got'[c].failed
         /\ got'[c].todo \subseteq got[c].todo
         /\ got'[c].paused \cup got'[c].failed
              \subseteq got[c].paused \cup got[c].failed \cup got[c].todo
         /\ \A x \in Monitors : remote'.monitor[x] = "paused" =>
              remote.monitor[x] = "paused" \/ x \in got'[c].paused \cup got'[c].failed
<1> DEFINE m == First(got[c].todo)
           rest == [got[c] EXCEPT !.todo = @ \ {m}]
           S == Sessions \cup PowerSessions
<1>1. /\ got[c].todo \in SUBSET Monitors /\ got[c].paused \in SUBSET Monitors
      /\ got[c].failed \in SUBSET Monitors /\ got[c].lost \in SUBSET Monitors
      /\ {"todo", "paused", "failed", "still", "lost"} \subseteq DOMAIN got[c]
  BY SessionFields
<1>2. m \in got[c].todo /\ m \in Monitors
  BY <1>1, FirstIn DEF pause
<1>3. /\ rest \in S /\ rest.todo = got[c].todo \ {m} /\ rest.paused = got[c].paused
      /\ rest.failed = got[c].failed /\ rest.lost = got[c].lost /\ rest.still = got[c].still
      /\ DOMAIN rest = DOMAIN got[c]
  BY <1>1, SessionSet
<1> HIDE DEF m, rest
<1> DEFINE took == [rest EXCEPT !.paused = @ \cup {m}]
           failed == [rest EXCEPT !.failed = @ \cup {m}]
           unsure == [failed EXCEPT !.lost = @ \cup {m}]
<1>4. took \in S /\ took.todo = rest.todo /\ took.paused = got[c].paused \cup {m}
      /\ took.failed = got[c].failed /\ took.still = got[c].still
  BY <1>1, <1>2, <1>3, SessionSet
<1>5. failed \in S /\ failed.todo = rest.todo /\ failed.paused = got[c].paused
      /\ failed.failed = got[c].failed \cup {m} /\ failed.still = got[c].still
      /\ failed.lost = got[c].lost /\ DOMAIN failed = DOMAIN got[c]
  BY <1>1, <1>2, <1>3, SessionSet
<1>. HIDE DEF failed
<1>6. unsure \in S /\ unsure.todo = rest.todo /\ unsure.paused = got[c].paused
      /\ unsure.failed = got[c].failed \cup {m} /\ unsure.still = got[c].still
  BY <1>1, <1>2, <1>5, SessionSet
<1>7. \/ Step(c, here, SetMonitor(m, "paused"), took, there)
      \/ Step(c, here, remote, failed, there)
      \/ Step(c, here, SetMonitor(m, "paused"), unsure, there)
  BY DEF pause, m, rest, failed
<1> HIDE DEF took, unsure, S
<1>8. /\ Only(c) /\ args' = args /\ at[c] = here /\ at'[c] = there
      /\ \/ got'[c] = took /\ remote' = SetMonitor(m, "paused")
         \/ got'[c] = failed /\ remote' = remote
         \/ got'[c] = unsure /\ remote' = SetMonitor(m, "paused")
  BY <1>7, SessionStep
<1>9. CASE got'[c] = took /\ remote' = SetMonitor(m, "paused")
  BY <1>1, <1>2, <1>3, <1>4, <1>8, <1>9, SetMonitorIs DEF S
<1>10. CASE got'[c] = failed /\ remote' = remote
  BY <1>1, <1>2, <1>3, <1>5, <1>8, <1>10 DEF S, KumaTypeOK
<1>11. CASE got'[c] = unsure /\ remote' = SetMonitor(m, "paused")
  BY <1>1, <1>2, <1>3, <1>6, <1>8, <1>11, SetMonitorIs DEF S
<1> QED
  BY <1>8, <1>9, <1>10, <1>11

\* A resume: whatever is not resumed by it is noted as still paused.
LEMMA ResumeStep ==
  ASSUME KumaTypeOK, FrameOK, NEW c \in Calls, NEW here, NEW there,
         got[c] \in Sessions \cup PowerSessions, resume(c, here, there)
  PROVE  /\ Only(c) /\ args' = args /\ at[c] = here /\ at'[c] = there
         /\ KumaTypeOK' /\ remote'.handle = remote.handle /\ remote'.server = remote.server
         /\ got'[c] \in Sessions \cup PowerSessions
         /\ got[c].still \subseteq got'[c].still /\ got'[c].failed = got[c].failed
         /\ \A x \in Monitors : remote'.monitor[x] = "paused" =>
              /\ remote.monitor[x] = "paused"
              /\ x \in got[c].todo => x \in got'[c].todo \cup got'[c].still
<1> DEFINE m == First(got[c].todo)
           rest == [got[c] EXCEPT !.todo = @ \ {m}]
           S == Sessions \cup PowerSessions
<1>1. /\ got[c].todo \in SUBSET Monitors /\ got[c].paused \in SUBSET Monitors
      /\ got[c].failed \in SUBSET Monitors /\ got[c].still \in SUBSET Monitors
      /\ {"todo", "paused", "failed", "still", "lost"} \subseteq DOMAIN got[c]
  BY SessionFields
<1>2. m \in got[c].todo /\ m \in Monitors
  BY <1>1, FirstIn DEF resume
<1>3. /\ rest \in S /\ rest.todo = got[c].todo \ {m} /\ rest.paused = got[c].paused
      /\ rest.failed = got[c].failed /\ rest.still = got[c].still
      /\ DOMAIN rest = DOMAIN got[c]
  BY <1>1, SessionSet
<1> HIDE DEF m, rest
<1> DEFINE back == [rest EXCEPT !.paused = @ \ {m}]
           left == [rest EXCEPT !.still = @ \cup {m}]
<1>4. back \in S /\ back.todo = rest.todo /\ back.failed = got[c].failed
      /\ back.still = got[c].still
  BY <1>1, <1>2, <1>3, SessionSet
<1>5. left \in S /\ left.todo = rest.todo /\ left.failed = got[c].failed
      /\ left.still = got[c].still \cup {m}
  BY <1>1, <1>2, <1>3, SessionSet
<1>6. \/ Step(c, here, SetMonitor(m, "active"), back, there)
      \/ Step(c, here, remote, left, there)
      \/ Step(c, here, SetMonitor(m, "active"), left, there)
  BY DEF resume, m, rest
<1> HIDE DEF back, left, S
<1>7. /\ Only(c) /\ args' = args /\ at[c] = here /\ at'[c] = there
      /\ \/ got'[c] = back /\ remote' = SetMonitor(m, "active")
         \/ got'[c] = left /\ remote' = remote
         \/ got'[c] = left /\ remote' = SetMonitor(m, "active")
  BY <1>6, SessionStep
<1>8. CASE got'[c] = back /\ remote' = SetMonitor(m, "active")
  BY <1>1, <1>2, <1>3, <1>4, <1>7, <1>8, SetMonitorIs DEF S
<1>9. CASE got'[c] = left /\ remote' = remote
  BY <1>1, <1>2, <1>3, <1>5, <1>7, <1>9 DEF S, KumaTypeOK
<1>10. CASE got'[c] = left /\ remote' = SetMonitor(m, "active")
  BY <1>1, <1>2, <1>3, <1>5, <1>7, <1>10, SetMonitorIs DEF S
<1> QED
  BY <1>7, <1>8, <1>9, <1>10

\* What the step of a call keeps of the other calls' part.
LEMMA OthersOK ==
  ASSUME NEW c \in Calls, Only(c), \A d \in Calls : CallOK(d),
         \A h \in Handles : remote.handle[h] # None =>
           remote'.handle[h] # None /\ remote'.handle[h].monitors = remote.handle[h].monitors,
         \A d \in Calls \ {c} : remote'.handle[d] # None => remote.handle[d] # None,
         \A d \in Calls : at[d] # "idle" /\ args[d].tool = "end_maintenance" =>
           args[d].handle \in Handles
  PROVE  \A d \in Calls \ {c} : CallOK(d)'
  BY DEF CallOK, Only

\* While no handle changes, nobody comes to close one.
LEMMA HandledKept ==
  ASSUME NEW c \in Calls, Only(c), remote'.handle = remote.handle,
         ~(at'[c] = "resuming" /\ args'[c].tool = "end_maintenance")
  PROVE  \A m : Handled(m) => Handled(m)'
<1> SUFFICES ASSUME NEW h \in Handles, NEW m, HandleHas(h, m)
             PROVE  HandleHas(h, m)'
  BY DEF Handled
<1> QED
  BY DEF HandleHas, Only

\* The step of a call accounts for every paused monitor when it accounts for
\* those it paused and keeps, or passes on, those it held.
LEMMA AnsweredKept ==
  ASSUME NEW c \in Calls, Only(c), \A m \in PausedNow : Answered(m),
         \A m \in PausedNow' : m \in PausedNow \/ HeldBy(c, m)',
         \A m \in PausedNow' : HeldBy(c, m) => HeldBy(c, m)' \/ Handled(m)',
         \A m \in PausedNow' : Handled(m) => HeldBy(c, m)' \/ Handled(m)'
  PROVE  \A m \in PausedNow' : Answered(m)'
<1>1. ASSUME NEW d \in Calls \ {c}, NEW m, HeldBy(d, m) PROVE HeldBy(d, m)'
  BY <1>1 DEF HeldBy, Only
<1> QED
  BY <1>1 DEF Answered

\* The tools a call against Uptime Kuma may be of.
LEMMA KumaArgs ==
  ASSUME BaseInv, remote.system = "uptime-kuma", NEW c \in Calls, at[c] # "idle"
  PROVE  /\ args[c].tool \in SessionTools \cup {"list_monitors", "monitor_status"}
         /\ args[c].tool = "end_maintenance" => args[c].handle \in Handles
<1>1. args[c] \in KumaCalls \cup WhiteGloveCalls \cup KumaReadCalls
  BY DEF BaseInv, Accepted, UptimeKumaCalls
<1> QED
  BY <1>1 DEF KumaCalls, WhiteGloveCalls, KumaReadCalls, SessionTools

\* A step that keeps every answer for a monitor keeps the invariant.
LEMMA KeepsInv ==
  ASSUME BaseInv, KumaInv, remote.system = "uptime-kuma", NEW c \in Calls, Keeps(c)
  PROVE  KumaInv'
<1>1. \A d \in Calls \ {c} : CallOK(d)'
  BY OthersOK, KumaArgs DEF Keeps, KumaInv
<1>2. \A m \in PausedNow' : Answered(m)'
  BY AnsweredKept DEF Keeps, KumaInv
<1> QED
  BY <1>1, <1>2 DEF KumaInv, Keeps

\* The same for a step that neither writes a handle nor comes to close one.
LEMMA KeepsHandles ==
  ASSUME NEW c \in Calls, Only(c), KumaTypeOK', CallOK(c)', remote'.handle = remote.handle,
         ~(at'[c] = "resuming" /\ args'[c].tool = "end_maintenance"),
         \A m \in PausedNow' : m \in PausedNow \/ HeldBy(c, m)',
         \A m \in PausedNow' : HeldBy(c, m) => HeldBy(c, m)'
  PROVE  Keeps(c)
  BY HandledKept DEF Keeps

\* pause_monitor: the caller asked for it.
LEMMA PauseMonitorKeeps ==
  ASSUME BaseInv, KumaInv, remote.system = "uptime-kuma", NEW c \in Calls, pauseMonitor(c)
  PROVE  Keeps(c)
<1> /\ FrameOK /\ KumaTypeOK /\ CallOK(c)
    /\ at[c] \notin {"idle", "done"} /\ args[c].tool = "pause_monitor"
  BY DEF BaseInv, KumaInv, pauseMonitor, Does, Running
<1> DEFINE w == {args[c].monitor} \cap ActiveNow
<1>1. CASE openSession(c, "begin", w, "pausing")
  <2>1. w \in SUBSET Monitors
    BY DEF ActiveNow
  <2> HIDE DEF w
  <2>2. Only(c) /\ at[c] = "begin" /\ got'[c] = Begun(w) /\ at'[c] = "pausing"
        /\ UNCHANGED <<remote, args>>
    BY <1>1, LearnStep DEF openSession
  <2>3. CallOK(c)'
    BY <2>1, <2>2, BegunIs, KumaAssumption, SessionFields DEF CallOK, w
  <2>4. \A m : HeldBy(c, m) => HeldBy(c, m)'
    BY <2>2 DEF HeldBy
  <2> QED
    BY <2>2, <2>3, <2>4, KeepsHandles DEF KumaTypeOK, PausedNow
<1>2. CASE at[c] = "pausing" /\ got[c].todo # {} /\ pause(c, "pausing", "pausing")
  <2>1. got[c] \in Sessions \cup PowerSessions
    BY <1>2 DEF CallOK, SessionTools
  <2>2. CallOK(c)'
    BY <1>2, <2>1, PauseStep, SessionFields DEF CallOK
  <2>3. \A m : HeldBy(c, m) => HeldBy(c, m)'
    BY <1>2, <2>1, PauseStep DEF HeldBy
  <2>4. \A m \in PausedNow' : m \in PausedNow \/ HeldBy(c, m)'
    <3>1. ASSUME NEW m \in PausedNow', m \notin PausedNow
          PROVE  args'[c].monitor = m /\ args'[c].tool = "pause_monitor" /\ at'[c] # "idle"
      <4>1. m \in got'[c].paused \cup got'[c].failed
        BY <1>2, <2>1, <3>1, PauseStep DEF PausedNow
      <4>2. m \in got[c].paused \cup got[c].failed \cup got[c].todo
        BY <1>2, <2>1, <4>1, PauseStep
      <4>3. m = args[c].monitor
        BY <2>1, <4>2, SessionFields DEF CallOK
      <4> QED
        BY <1>2, <2>1, <4>3, PauseStep
    <3> QED
      BY <3>1 DEF HeldBy
  <2> QED
    BY <1>2, <2>1, <2>2, <2>3, <2>4, PauseStep, KeepsHandles
<1>3. ASSUME NEW said, Reply(c, "pausing", said) PROVE Keeps(c)
  <2>1. Only(c) /\ at[c] = "pausing" /\ at'[c] = "done" /\ UNCHANGED <<remote, args, got>>
    BY <1>3, ReplyStep
  <2>2. CallOK(c)'
    BY <2>1 DEF CallOK
  <2>3. \A m : HeldBy(c, m) => HeldBy(c, m)'
    BY <2>1 DEF HeldBy
  <2> QED
    BY <2>1, <2>2, <2>3, KeepsHandles DEF KumaTypeOK, PausedNow
<1> QED
  BY <1>1, <1>2, <1>3 DEF pauseMonitor

\* resume_monitor.
LEMMA ResumeMonitorKeeps ==
  ASSUME BaseInv, KumaInv, remote.system = "uptime-kuma", NEW c \in Calls, resumeMonitor(c)
  PROVE  Keeps(c)
<1> /\ FrameOK /\ KumaTypeOK /\ CallOK(c)
    /\ at[c] \notin {"idle", "done"} /\ args[c].tool = "resume_monitor"
  BY DEF BaseInv, KumaInv, resumeMonitor, Does, Running
<1> DEFINE w == {args[c].monitor} \cap PausedNow
<1>1. CASE openSession(c, "begin", w, "resuming")
  <2>1. w \in SUBSET Monitors
    BY DEF PausedNow
  <2> HIDE DEF w
  <2>2. Only(c) /\ at[c] = "begin" /\ got'[c] = Begun(w) /\ at'[c] = "resuming"
        /\ UNCHANGED <<remote, args>>
    BY <1>1, LearnStep DEF openSession
  <2>3. CallOK(c)'
    BY <2>1, <2>2, BegunIs, SessionFields DEF CallOK
  <2>4. \A m : HeldBy(c, m) => HeldBy(c, m)'
    BY <2>2 DEF HeldBy
  <2> QED
    BY <2>2, <2>3, <2>4, KeepsHandles DEF KumaTypeOK, PausedNow
<1>2. CASE at[c] = "resuming" /\ got[c].todo # {} /\ resume(c, "resuming", "resuming")
  <2>1. got[c] \in Sessions \cup PowerSessions
    BY <1>2 DEF CallOK, SessionTools
  <2>2. CallOK(c)'
    BY <1>2, <2>1, ResumeStep, SessionFields DEF CallOK
  <2>3. \A m : HeldBy(c, m) => HeldBy(c, m)'
    BY <1>2, <2>1, ResumeStep DEF HeldBy
  <2>4. \A m \in PausedNow' : m \in PausedNow
    BY <1>2, <2>1, ResumeStep DEF PausedNow
  <2> QED
    BY <1>2, <2>1, <2>2, <2>3, <2>4, ResumeStep, KeepsHandles
<1>3. ASSUME NEW said, Reply(c, "resuming", said) PROVE Keeps(c)
  <2>1. Only(c) /\ at[c] = "resuming" /\ at'[c] = "done" /\ UNCHANGED <<remote, args, got>>
    BY <1>3, ReplyStep
  <2>2. CallOK(c)'
    BY <2>1 DEF CallOK
  <2>3. \A m : HeldBy(c, m) => HeldBy(c, m)'
    BY <2>1 DEF HeldBy
  <2> QED
    BY <2>1, <2>2, <2>3, KeepsHandles DEF KumaTypeOK, PausedNow
<1> QED
  BY <1>1, <1>2, <1>3 DEF resumeMonitor

\* The steps that are alike in several tools.
LEMMA OpenKeeps ==
  ASSUME BaseInv, KumaInv, NEW c \in Calls, NEW w \in SUBSET Monitors,
         args[c].tool \in {"maintenance", "white_glove"},
         openSession(c, "begin", w, "pausing")
  PROVE  Keeps(c)
<1> FrameOK /\ KumaTypeOK /\ CallOK(c)
  BY DEF BaseInv, KumaInv
<1>1. Only(c) /\ at[c] = "begin" /\ got'[c] = Begun(w) /\ at'[c] = "pausing"
      /\ UNCHANGED <<remote, args>>
  BY LearnStep DEF openSession
<1>2. CallOK(c)'
  BY <1>1, BegunIs, SessionFields DEF CallOK
<1>3. \A m : HeldBy(c, m) => HeldBy(c, m)'
  BY <1>1 DEF HeldBy, CallOK
<1> QED
  BY <1>1, <1>2, <1>3, KeepsHandles DEF KumaTypeOK, PausedNow

\* The pauses of maintenance and of a power action.
LEMMA PausingKeeps ==
  ASSUME BaseInv, KumaInv, NEW c \in Calls, at[c] = "pausing",
         args[c].tool \in {"maintenance", "white_glove"}, pause(c, "pausing", "pausing")
  PROVE  Keeps(c)
<1> FrameOK /\ KumaTypeOK /\ CallOK(c)
  BY DEF BaseInv, KumaInv
<1>1. got[c] \in Sessions \cup PowerSessions
  BY DEF CallOK, SessionTools
<1>2. CallOK(c)'
  BY <1>1, PauseStep, SessionFields DEF CallOK, SessionTools
<1>3. \A m : HeldBy(c, m) => HeldBy(c, m)'
  BY <1>1, PauseStep, SessionFields DEF HeldBy
<1>4. \A m \in PausedNow' : m \in PausedNow \/ HeldBy(c, m)'
  BY <1>1, PauseStep, SessionFields DEF HeldBy, PausedNow
<1> QED
  BY <1>1, <1>2, <1>3, <1>4, PauseStep, KeepsHandles

\* Their resumes, at the end or to roll back.
LEMMA ResumingKeeps ==
  ASSUME BaseInv, KumaInv, NEW c \in Calls, NEW here \in {"resuming", "rollback"},
         args[c].tool \in {"maintenance", "white_glove"}, resume(c, here, here)
  PROVE  Keeps(c)
<1> FrameOK /\ KumaTypeOK /\ CallOK(c) /\ at[c] = here
  BY DEF BaseInv, KumaInv, resume, Step
<1>1. got[c] \in Sessions \cup PowerSessions
  BY DEF CallOK, SessionTools
<1>2. CallOK(c)'
  BY <1>1, ResumeStep, SessionFields DEF CallOK, SessionTools
<1>3. \A m \in PausedNow' : HeldBy(c, m) => HeldBy(c, m)'
  BY <1>1, ResumeStep, SessionFields DEF HeldBy, PausedNow
<1>4. \A m \in PausedNow' : m \in PausedNow
  BY <1>1, ResumeStep DEF PausedNow
<1> QED
  BY <1>1, <1>2, <1>3, <1>4, ResumeStep, KeepsHandles

\* A call that ends holds on only to the monitors it names in its answer.
LEMMA ReplyKeeps ==
  ASSUME BaseInv, KumaInv, NEW c \in Calls, NEW here, NEW said, here # "idle",
         Reply(c, here, said),
         here \notin {"pausing", "waiting", "acted"} \/ got[c].paused = {},
         here \notin {"rollback", "resuming"} \/ got[c].todo = {}
  PROVE  Keeps(c)
<1> FrameOK /\ KumaTypeOK /\ CallOK(c)
  BY DEF BaseInv, KumaInv
<1>1. Only(c) /\ at[c] = here /\ at'[c] = "done" /\ UNCHANGED <<remote, args, got>>
  BY ReplyStep
<1>2. CallOK(c)'
  BY <1>1 DEF CallOK
<1>3. \A m : HeldBy(c, m) => HeldBy(c, m)'
  BY <1>1 DEF HeldBy
<1> QED
  BY <1>1, <1>2, <1>3, KeepsHandles DEF KumaTypeOK, PausedNow

\* What was paused is put on the list of what is to be resumed.
LEMMA RollBackKeeps ==
  ASSUME BaseInv, KumaInv, NEW c \in Calls,
         args[c].tool \in {"maintenance", "white_glove"},
         Learn(c, "pausing", ToRollBack(got[c]), "rollback")
  PROVE  Keeps(c)
<1> FrameOK /\ KumaTypeOK /\ CallOK(c)
  BY DEF BaseInv, KumaInv
<1>1. Only(c) /\ at[c] = "pausing" /\ got'[c] = ToRollBack(got[c]) /\ at'[c] = "rollback"
      /\ UNCHANGED <<remote, args>>
  BY LearnStep
<1>2. got[c] \in Sessions \cup PowerSessions
  BY <1>1 DEF CallOK, SessionTools
<1>3. /\ got'[c] \in Sessions \cup PowerSessions /\ got'[c].todo = got[c].paused
      /\ got'[c].failed = got[c].failed /\ got'[c].still = got[c].still
  BY <1>1, <1>2, SessionFields, SessionSet, ZenonT(40) DEF ToRollBack
<1>4. CallOK(c)'
  BY <1>1, <1>3, SessionFields DEF CallOK
<1>5. \A m : HeldBy(c, m) => HeldBy(c, m)'
  BY <1>1, <1>2, <1>3, SessionFields DEF HeldBy
<1> QED
  BY <1>1, <1>4, <1>5, KeepsHandles DEF KumaTypeOK, PausedNow

\* maintenance: the handle that is written answers for what the session had paused.
LEMMA MaintenanceKeeps ==
  ASSUME BaseInv, KumaInv, remote.system = "uptime-kuma", NEW c \in Calls, maintenance(c)
  PROVE  Keeps(c)
<1> /\ FrameOK /\ KumaTypeOK /\ CallOK(c) /\ at[c] \notin {"idle", "done"}
    /\ args[c].tool = "maintenance"
  BY DEF BaseInv, KumaInv, maintenance, Does, Running
<1>1. CASE openSession(c, "begin", args[c].monitors \cap ActiveNow, "pausing")
  <2>1. args[c].monitors \cap ActiveNow \in SUBSET Monitors
    BY DEF ActiveNow
  <2> QED
    BY <1>1, <2>1, OpenKeeps
<1>2. CASE at[c] = "pausing" /\ pause(c, "pausing", "pausing")
  BY <1>2, PausingKeeps
<1>3. ASSUME NEW said, got[c].paused = {}, Reply(c, "pausing", said) PROVE Keeps(c)
  BY <1>3, ReplyKeeps
<1>4. CASE Step(c, "pausing", add(c, got[c].paused), got[c], "recorded")
  <2> DEFINE record == [monitors |-> got[c].paused, open |-> TRUE]
  <2>1. /\ Only(c) /\ at[c] = "pausing" /\ at'[c] = "recorded" /\ args' = args
        /\ got'[c] = got[c] /\ remote' = [remote EXCEPT !.handle[c] = record]
    BY <1>4, SessionStep DEF add
  <2>2. got[c] \in Sessions \cup PowerSessions /\ got[c].paused \in SUBSET Monitors
    BY <2>1, SessionFields DEF CallOK, SessionTools
  <2>3. record \in HandleRecords /\ record.open /\ record.monitors = got[c].paused /\ record # None
    <3>1. record \in HandleRecords /\ record.open /\ record.monitors = got[c].paused
      BY <2>2 DEF HandleRecords
    <3> HIDE DEF record
    <3> QED
      BY <3>1, KumaAssumption
  <2> HIDE DEF record
  <2>4. remote.handle[c] = None
    BY <2>1 DEF CallOK
  <2>5. /\ KumaTypeOK' /\ remote'.monitor = remote.monitor /\ remote'.handle[c] = record
        /\ \A h \in Handles \ {c} : remote'.handle[h] = remote.handle[h]
    BY <2>1, <2>3 DEF KumaTypeOK, Handles
  <2>6. CallOK(c)'
    BY <2>1, <2>2, <2>5, SessionFields DEF CallOK
  <2>7. PausedNow' = PausedNow
    BY <2>5 DEF PausedNow
  <2>8. \A d \in Calls :
          at[d] \in {"open", "resuming", "closed"} /\ args[d].tool = "end_maintenance"
          => args[d].handle # c
    BY <2>4 DEF KumaInv, CallOK
  <2>9. \A m : HeldBy(c, m) => HeldBy(c, m)' \/ Handled(m)'
    <3>1. ASSUME NEW m \in got[c].paused PROVE HandleHas(c, m)'
      <4>1. \A d \in Calls : ~(at'[d] = "resuming" /\ args'[d].tool = "end_maintenance"
                                 /\ args'[d].handle = c)
        BY <2>1, <2>8 DEF Only
      <4> QED
        BY <2>3, <2>5, <3>1, <4>1 DEF HandleHas
    <3> QED
      BY <2>1, <3>1 DEF HeldBy, Handled, Handles
  <2>10. \A m : Handled(m) => Handled(m)'
    <3> SUFFICES ASSUME NEW m, NEW h \in Handles, HandleHas(h, m) PROVE HandleHas(h, m)'
      BY DEF Handled
    <3>1. h # c /\ remote'.handle[h] = remote.handle[h]
      BY <2>4, <2>5 DEF HandleHas
    <3> QED
      BY <2>1, <3>1 DEF HandleHas, Only
  <2>11. /\ \A h \in Handles : remote.handle[h] # None =>
              remote'.handle[h] # None /\ remote'.handle[h].monitors = remote.handle[h].monitors
         /\ \A d \in Calls \ {c} : remote'.handle[d] # None => remote.handle[d] # None
    BY <2>4, <2>5 DEF Handles
  <2> QED
    BY <2>1, <2>5, <2>6, <2>7, <2>9, <2>10, <2>11 DEF Keeps
<1>5. CASE Learn(c, "pausing", ToRollBack(got[c]), "rollback")
  BY <1>5, RollBackKeeps
<1>6. ASSUME NEW said, Reply(c, "recorded", said) PROVE Keeps(c)
  BY <1>6, ReplyKeeps
<1>7. CASE resume(c, "rollback", "rollback")
  BY <1>7, ResumingKeeps
<1>8. CASE got[c].todo = {} /\ Reply(c, "rollback", "refused")
  BY <1>8, ReplyKeeps
<1> QED
  BY <1>1, <1>2, <1>3, <1>4, <1>5, <1>6, <1>7, <1>8 DEF maintenance

\* Only what is paused now is to be resumed.
LEMMA ResumeExactlyIs ==
  ASSUME FrameOK, NEW c \in Calls, NEW here, NEW wanted, NEW there,
         got[c] \in Sessions \cup PowerSessions, resumeExactly(c, here, wanted, there)
  PROVE  /\ Only(c) /\ at[c] = here /\ at'[c] = there /\ UNCHANGED <<remote, args>>
         /\ got'[c] \in Sessions \cup PowerSessions
         /\ got'[c].todo = wanted \cap PausedNow
         /\ got'[c].failed = got[c].failed /\ got'[c].still = got[c].still
         /\ got'[c].paused = got[c].paused
<1> DEFINE w == wanted \cap PausedNow
<1>1. w \in SUBSET Monitors
  BY DEF PausedNow
<1> HIDE DEF w
<1>2. /\ Only(c) /\ at[c] = here /\ at'[c] = there /\ UNCHANGED <<remote, args>>
      /\ got'[c] = [got[c] EXCEPT !.todo = w]
  BY LearnStep DEF resumeExactly, w
<1>3. /\ got'[c] \in Sessions \cup PowerSessions /\ got'[c].todo = w
      /\ got'[c].failed = got[c].failed /\ got'[c].still = got[c].still
      /\ got'[c].paused = got[c].paused
  BY <1>1, <1>2, SessionFields, SessionSet, ZenonT(40)
<1> QED
  BY <1>2, <1>3 DEF w

\* end_maintenance: a handle is closed when everything it named is resumed.
LEMMA EndMaintenanceKeeps ==
  ASSUME BaseInv, KumaInv, remote.system = "uptime-kuma", NEW c \in Calls, endMaintenance(c)
  PROVE  Keeps(c)
<1> /\ FrameOK /\ KumaTypeOK /\ CallOK(c) /\ at[c] \notin {"idle", "done"}
    /\ args[c].tool = "end_maintenance"
  BY DEF BaseInv, KumaInv, endMaintenance, Does, Running
<1> DEFINE h == args[c].handle
<1>h. h \in Handles
  BY KumaArgs
<1> HIDE DEF h
<1>1. ASSUME NEW said, Reply(c, "begin", said) PROVE Keeps(c)
  BY <1>1, ReplyKeeps
<1>2. CASE remote.handle[h] # None /\ openSession(c, "begin", remote.handle[h].monitors, "open")
  <2> DEFINE w == remote.handle[h].monitors
  <2>1. w \in SUBSET Monitors
    BY <1>2, <1>h DEF KumaTypeOK, HandleRecords
  <2> HIDE DEF w
  <2>2. Only(c) /\ at[c] = "begin" /\ got'[c] = Begun(w) /\ at'[c] = "open"
        /\ UNCHANGED <<remote, args>>
    BY <1>2, LearnStep, SMTT(20) DEF openSession, w
  <2>3. CallOK(c)'
    BY <1>2, <2>1, <2>2, BegunIs, SessionFields DEF CallOK, w, h
  <2>4. \A m : HeldBy(c, m) => HeldBy(c, m)'
    BY <2>2 DEF HeldBy
  <2> QED
    BY <2>2, <2>3, <2>4, KeepsHandles DEF KumaTypeOK, PausedNow
<1>3. CASE resumeExactly(c, "open", got[c].todo, "resuming")
  <2>1. got[c] \in Sessions \cup PowerSessions /\ at[c] = "open"
    BY <1>3 DEF CallOK, SessionTools, resumeExactly, Learn
  <2>2. CallOK(c)'
    BY <1>3, <2>1, ResumeExactlyIs, SessionFields DEF CallOK
  <2>3. \A m \in PausedNow : Handled(m) => Handled(m)'
    <3> SUFFICES ASSUME NEW m \in PausedNow, NEW g \in Handles, HandleHas(g, m)
                 PROVE  HandleHas(g, m)'
      BY DEF Handled
    <3>1. g = h => m \in got'[c].todo
      BY <1>3, <2>1, ResumeExactlyIs DEF HandleHas, CallOK, h
    <3> QED
      BY <1>3, <2>1, <3>1, ResumeExactlyIs DEF HandleHas, Only, h
  <2>4. PausedNow' = PausedNow
    BY <1>3, <2>1, ResumeExactlyIs DEF PausedNow
  <2>5. \A m : HeldBy(c, m) => HeldBy(c, m)'
    BY DEF HeldBy
  <2>6. Only(c) /\ remote' = remote
    BY <1>3, <2>1, ResumeExactlyIs
  <2> QED
    BY <2>2, <2>3, <2>4, <2>5, <2>6 DEF Keeps, KumaTypeOK
<1>4. CASE at[c] = "resuming" /\ resume(c, "resuming", "resuming")
  <2>1. got[c] \in Sessions \cup PowerSessions
    BY <1>4 DEF CallOK, SessionTools
  <2>2. CallOK(c)'
    BY <1>4, <2>1, ResumeStep, SessionFields DEF CallOK
  <2>3. \A m \in PausedNow' : m \in PausedNow
    BY <1>4, <2>1, ResumeStep DEF PausedNow
  <2>4. \A m \in PausedNow' : Handled(m) => Handled(m)'
    <3> SUFFICES ASSUME NEW m \in PausedNow', NEW g \in Handles, HandleHas(g, m)
                 PROVE  HandleHas(g, m)'
      BY DEF Handled
    <3>1. m \in got[c].todo \/ got[c].still # {} => m \in got'[c].todo \/ got'[c].still # {}
      BY <1>4, <2>1, ResumeStep DEF PausedNow
    <3> QED
      BY <1>4, <2>1, <3>1, ResumeStep DEF HandleHas, Only
  <2>5. \A m : HeldBy(c, m) => HeldBy(c, m)'
    BY DEF HeldBy
  <2>6. Only(c) /\ KumaTypeOK' /\ remote'.handle = remote.handle
    BY <1>4, <2>1, ResumeStep
  <2> QED
    BY <2>2, <2>3, <2>4, <2>5, <2>6 DEF Keeps
<1>5. CASE at[c] = "resuming" /\ got[c].todo = {} /\ MayClose(got[c])
             /\ Step(c, "resuming", end(h), got[c], "closed")
  <2>1. /\ Only(c) /\ args' = args /\ got'[c] = got[c] /\ at'[c] = "closed"
        /\ remote' = [remote EXCEPT !.handle[h].open = FALSE]
    BY <1>5, SessionStep DEF end
  <2>2. remote.handle[h] \in HandleRecords
    BY <1>h, <1>5 DEF CallOK, KumaTypeOK, h
  <2>3. /\ KumaTypeOK' /\ remote'.monitor = remote.monitor
        /\ \A g \in Handles \ {h} : remote'.handle[g] = remote.handle[g]
        /\ remote'.handle[h] \in HandleRecords
        /\ remote'.handle[h].monitors = remote.handle[h].monitors
    BY <1>h, <2>1, <2>2 DEF KumaTypeOK, HandleRecords
  <2>4. PausedNow' = PausedNow
    BY <2>3 DEF PausedNow
  <2>5. /\ \A g \in Handles : remote.handle[g] # None =>
              remote'.handle[g] # None /\ remote'.handle[g].monitors = remote.handle[g].monitors
        /\ \A d \in Calls : remote'.handle[d] # None => remote.handle[d] # None
    BY <2>2, <2>3, KumaAssumption DEF Handles
  <2>6. CallOK(c)'
    BY <1>h, <1>5, <2>1, <2>5 DEF CallOK, h
  <2>7. \A m : Handled(m) => Handled(m)'
    <3> SUFFICES ASSUME NEW m, NEW g \in Handles, HandleHas(g, m) PROVE HandleHas(g, m)'
      BY DEF Handled
    <3>1. g # h
      BY <1>5 DEF HandleHas, MayClose, h
    <3> QED
      BY <2>1, <2>3, <3>1 DEF HandleHas, Only
  <2>8. \A m : HeldBy(c, m) => HeldBy(c, m)'
    BY DEF HeldBy
  <2> QED
    BY <2>1, <2>3, <2>4, <2>5, <2>6, <2>7, <2>8 DEF Keeps
<1>6. ASSUME NEW said, got[c].todo = {}, Reply(c, "resuming", said) PROVE Keeps(c)
  BY <1>6, ReplyKeeps
<1>7. CASE Reply(c, "closed", "ok")
  BY <1>7, ReplyKeeps
<1> QED
  BY <1>1, <1>2, <1>3, <1>4, <1>5, <1>6, <1>7 DEF endMaintenance, h

\* A power action first pauses the monitors.
LEMMA WhiteGlovePauseKeeps ==
  ASSUME BaseInv, KumaInv, remote.system = "uptime-kuma", NEW c \in Calls, whiteGlovePause(c)
  PROVE  Keeps(c)
<1> args[c].tool = "white_glove"
  BY DEF whiteGlovePause, Does
<1>1. CASE Reply(c, "begin", "refused")
  BY <1>1, ReplyKeeps
<1>2. CASE openSession(c, "begin", remote.matched \cap ActiveNow, "pausing")
  <2>1. remote.matched \cap ActiveNow \in SUBSET Monitors
    BY DEF ActiveNow
  <2> QED
    BY <1>2, <2>1, OpenKeeps
<1>3. CASE at[c] = "pausing" /\ pause(c, "pausing", "pausing")
  BY <1>3, PausingKeeps
<1>4. CASE Learn(c, "pausing", ToRollBack(got[c]), "rollback")
  BY <1>4, RollBackKeeps
<1>5. CASE resume(c, "rollback", "rollback")
  BY <1>5, ResumingKeeps
<1>6. CASE got[c].todo = {} /\ Reply(c, "rollback", "refused")
  BY <1>6, ReplyKeeps
<1> QED
  BY <1>1, <1>2, <1>3, <1>4, <1>5, <1>6 DEF whiteGlovePause

\* What a server has ahead of it once a signal has come is states.
LEMMA AheadIs ==
  ASSUME NEW s, s.todo \in Seq(PowerStates), NEW signal, NEW todo \in AfterSignal(s, signal)
  PROVE  todo \in Seq(PowerStates)
<1>1. ASSUME NEW state PROVE WillPass(state, signal) \in Seq(PowerStates)
  <2>1. /\ "stopping" \in PowerStates /\ "offline" \in PowerStates
        /\ "starting" \in PowerStates /\ "running" \in PowerStates
    BY DEF PowerStates
  <2>2. /\ <<>> \in Seq(PowerStates) /\ <<"stopping", "offline">> \in Seq(PowerStates)
        /\ <<"starting", "running">> \in Seq(PowerStates)
    BY <2>1
  <2> QED
    BY <2>2 DEF WillPass
<1> DEFINE last == IF s.todo = <<>> THEN s.state ELSE s.todo[Len(s.todo)]
<1>3. WillPass(last, signal) \in Seq(PowerStates) /\ WillPass(s.state, signal) \in Seq(PowerStates)
  BY <1>1
<1>4. todo \in {s.todo, WillPass(s.state, signal), s.todo \o WillPass(last, signal)}
  BY ZenonT(20) DEF AfterSignal
<1> HIDE DEF last
<1>5. s.todo \o WillPass(last, signal) \in Seq(PowerStates)
  BY <1>3
<1> QED
  BY <1>3, <1>4, <1>5

\* The signal and the wait for it touch no monitor.
LEMMA PowerActionKeeps ==
  ASSUME BaseInv, KumaInv, remote.system = "uptime-kuma", NEW c \in Calls, powerAction(c)
  PROVE  Keeps(c)
<1> /\ FrameOK /\ KumaTypeOK /\ CallOK(c) /\ args[c].tool = "white_glove" /\ at[c] = "pausing"
    /\ got[c].failed = {}
  BY DEF BaseInv, KumaInv, powerAction, Does
<1> DEFINE signalled(todo) == [remote EXCEPT !.server.todo = todo]
           mine(restarting) ==
             [todo |-> {}, paused |-> got[c].paused, failed |-> {}, still |-> {},
              lost |-> got[c].lost, polls |-> 0, saw |-> FALSE,
              born |-> remote.server.born, was |-> remote.server.state,
              reached |-> FALSE, restarting |-> restarting]
<1>1. got[c] \in Sessions \cup PowerSessions
  BY DEF CallOK, SessionTools
<1>2. ASSUME NEW restarting \in BOOLEAN
      PROVE  /\ mine(restarting) \in Sessions \cup PowerSessions
             /\ mine(restarting).paused = got[c].paused /\ mine(restarting).still = {}
  BY <1>1, SessionFields DEF PowerSessions, KumaTypeOK
<1>3. ASSUME NEW todo \in AfterSignal(remote.server, args[c].signal), remote' = signalled(todo)
      PROVE  KumaTypeOK' /\ remote'.monitor = remote.monitor /\ remote'.handle = remote.handle
  <2>1. todo \in Seq(PowerStates)
    BY AheadIs DEF KumaTypeOK
  <2> QED
    BY <1>3, <2>1 DEF KumaTypeOK
<1>4. \E there \in {"waiting", "acted"}, todo \in AfterSignal(remote.server, args[c].signal),
         restarting \in BOOLEAN :
           Step(c, "pausing", signalled(todo), mine(restarting), there)
  <2>1. PICK todo \in AfterSignal(remote.server, args[c].signal), there \in {"waiting", "acted"} :
           Step(c, "pausing", signalled(todo),
                mine(\E i \in DOMAIN todo : todo[i] = "starting"), there)
    BY DEF powerAction
  <2>2. (\E i \in DOMAIN todo : todo[i] = "starting") \in BOOLEAN
    OBVIOUS
  <2> HIDE DEF mine, signalled
  <2> QED
    BY <2>1, <2>2, ZenonT(20)
<1> HIDE DEF mine, signalled
<1>5. PICK there \in {"waiting", "acted"}, todo \in AfterSignal(remote.server, args[c].signal),
           restarting \in BOOLEAN :
           Step(c, "pausing", signalled(todo), mine(restarting), there)
  BY <1>4
<1>6. /\ Only(c) /\ args' = args /\ got'[c] = mine(restarting) /\ at'[c] = there
      /\ KumaTypeOK' /\ remote'.monitor = remote.monitor /\ remote'.handle = remote.handle
  BY <1>3, <1>5, SessionStep
<1>7. CallOK(c)'
  BY <1>2, <1>6, SessionFields DEF CallOK
<1>8. \A m : HeldBy(c, m) => HeldBy(c, m)'
  BY <1>1, <1>2, <1>6, SessionFields DEF HeldBy, CallOK, SessionTools
<1> QED
  BY <1>6, <1>7, <1>8, KeepsHandles DEF PausedNow

\* What a wait learns is not about monitors.
LEMMA WaitKeeps ==
  ASSUME BaseInv, KumaInv, remote.system = "uptime-kuma", NEW c \in Calls, waitForPowerState(c)
  PROVE  Keeps(c)
<1> /\ FrameOK /\ KumaTypeOK /\ CallOK(c) /\ args[c].tool = "white_glove" /\ at[c] = "waiting"
  BY DEF BaseInv, KumaInv, waitForPowerState, Does
<1>1. got[c] \in Sessions \cup PowerSessions
  BY DEF CallOK, SessionTools
<1>2. \E there \in {"waiting", "acted"} :
        \/ Move(c, "waiting", there)
        \/ \E saw \in BOOLEAN :
             \/ Learn(c, "waiting", [got[c] EXCEPT !.reached = TRUE, !.saw = saw], there)
             \/ Learn(c, "waiting", [got[c] EXCEPT !.polls = @ + 1, !.saw = saw], there)
  <2>1. (got[c].saw \/ remote.server.state # "running") \in BOOLEAN
    OBVIOUS
  <2> QED
    BY <2>1 DEF waitForPowerState
<1> DEFINE done(saw) == [got[c] EXCEPT !.reached = TRUE, !.saw = saw]
           again(saw) == [got[c] EXCEPT !.polls = @ + 1, !.saw = saw]
           SameLists(new) ==
             /\ new \in Sessions \cup PowerSessions
             /\ new.todo = got[c].todo /\ new.paused = got[c].paused
             /\ new.failed = got[c].failed /\ new.still = got[c].still
<1>3. ASSUME NEW saw \in BOOLEAN PROVE SameLists(done(saw)) /\ SameLists(again(saw))
  <2>1. CASE got[c] \in Sessions
    BY <2>1 DEF Sessions
  <2>2. CASE got[c] \in PowerSessions
    <3>1. got[c].polls + 1 \in Nat
      BY <2>2 DEF PowerSessions
    <3>2. done(saw) \in PowerSessions
      BY <2>2 DEF PowerSessions
    <3>3. again(saw) \in PowerSessions
      BY <2>2, <3>1 DEF PowerSessions
    <3>4. {"todo", "paused", "failed", "still"} \subseteq DOMAIN got[c]
      BY <2>2 DEF PowerSessions
    <3>5. /\ done(saw).todo = got[c].todo /\ done(saw).paused = got[c].paused
          /\ done(saw).failed = got[c].failed /\ done(saw).still = got[c].still
      BY <3>4
    <3>6. /\ again(saw).todo = got[c].todo /\ again(saw).paused = got[c].paused
          /\ again(saw).failed = got[c].failed /\ again(saw).still = got[c].still
      BY <3>4
    <3> QED
      BY <3>2, <3>3, <3>5, <3>6
  <2> QED
    BY <1>1, <2>1, <2>2
<1>4. /\ Only(c) /\ at'[c] \in {"waiting", "acted"} /\ UNCHANGED <<remote, args>>
      /\ got'[c] \in Sessions \cup PowerSessions
      /\ got'[c].todo = got[c].todo /\ got'[c].paused = got[c].paused
      /\ got'[c].failed = got[c].failed /\ got'[c].still = got[c].still
  <2>1. \E there \in {"waiting", "acted"} :
          Move(c, "waiting", there) \/ \E new : SameLists(new) /\ Learn(c, "waiting", new, there)
    BY <1>2, <1>3, ZenonT(20)
  <2> HIDE DEF SameLists
  <2>2. /\ Only(c) /\ at'[c] \in {"waiting", "acted"} /\ UNCHANGED <<remote, args>>
        /\ got' = got \/ SameLists(got'[c])
    BY <2>1, LearnStep, MoveStep
  <2> QED
    BY <1>1, <2>2, SMTT(20) DEF SameLists
<1>5. CallOK(c)'
  BY <1>4, SessionFields DEF CallOK, SessionTools
<1>6. \A m : HeldBy(c, m) => HeldBy(c, m)'
  BY <1>1, <1>4, SessionFields DEF HeldBy
<1> QED
  BY <1>4, <1>5, <1>6, KeepsHandles DEF PausedNow, KumaTypeOK

\* Afterwards the monitors are resumed, and those that are not are told.
LEMMA SafeResumeKeeps ==
  ASSUME BaseInv, KumaInv, remote.system = "uptime-kuma", NEW c \in Calls, safeResume(c)
  PROVE  Keeps(c)
<1> /\ FrameOK /\ KumaTypeOK /\ CallOK(c) /\ args[c].tool = "white_glove"
  BY DEF BaseInv, KumaInv, safeResume, Does
<1>1. CASE resumeExactly(c, "acted", got[c].paused, "resuming")
  <2>1. got[c] \in Sessions \cup PowerSessions /\ at[c] = "acted" /\ got[c].still = {}
    BY <1>1 DEF CallOK, SessionTools, resumeExactly, Learn
  <2>2. CallOK(c)'
    BY <1>1, <2>1, ResumeExactlyIs, SessionFields DEF CallOK
  <2>3. \A m \in PausedNow : HeldBy(c, m) => HeldBy(c, m)'
    BY <1>1, <2>1, ResumeExactlyIs, SessionFields DEF HeldBy
  <2>4. Only(c) /\ UNCHANGED <<remote, args>>
    BY <1>1, <2>1, ResumeExactlyIs
  <2> QED
    BY <2>2, <2>3, <2>4, KeepsHandles DEF PausedNow, KumaTypeOK
<1>2. CASE at[c] = "acted" /\ Learn(c, "acted", [got[c] EXCEPT !.still = got[c].paused], "resuming")
  <2>1. got[c] \in Sessions \cup PowerSessions /\ got[c].still = {}
    BY <1>2 DEF CallOK, SessionTools
  <2>2. /\ Only(c) /\ at'[c] = "resuming" /\ UNCHANGED <<remote, args>>
        /\ got'[c] = [got[c] EXCEPT !.still = got[c].paused]
    BY <1>2, LearnStep
  <2>3. /\ got'[c] \in Sessions \cup PowerSessions /\ got'[c].still = got[c].paused
        /\ got'[c].failed = got[c].failed
    <3>1. got[c].paused \in SUBSET Monitors /\ "still" \in DOMAIN got[c]
      BY <2>1, SessionFields
    <3>2. [got[c] EXCEPT !.still = got[c].paused] \in Sessions \cup PowerSessions
      BY <2>1, <3>1, SessionSet
    <3> QED
      BY <2>2, <3>1, <3>2
  <2>4. CallOK(c)'
    BY <2>2, <2>3, SessionFields DEF CallOK
  <2>5. \A m : HeldBy(c, m) => HeldBy(c, m)'
    BY <1>2, <2>1, <2>2, <2>3, SessionFields DEF HeldBy
  <2> QED
    BY <2>2, <2>4, <2>5, KeepsHandles DEF PausedNow, KumaTypeOK
<1>3. CASE resume(c, "resuming", "resuming")
  BY <1>3, ResumingKeeps
<1>4. ASSUME NEW said, got[c].todo = {}, Reply(c, "resuming", said) PROVE Keeps(c)
  BY <1>4, ReplyKeeps
<1> QED
  BY <1>1, <1>2, <1>3, <1>4 DEF safeResume

\* Every step of a handler keeps the invariant.
LEMMA KumaStep ==
  ASSUME BaseInv, KumaInv, remote.system = "uptime-kuma", NEW c \in Calls, UptimeKumaStep(c)
  PROVE  KumaInv'
<1> FrameOK /\ KumaTypeOK /\ CallOK(c)
  BY DEF BaseInv, KumaInv
<1>1. CASE Begin(c, UptimeKumaCalls)
  <2>1. Only(c) /\ at[c] = "idle" /\ at'[c] = "begin" /\ UNCHANGED <<remote, got>>
    BY <1>1, BeginStep
  <2>2. CallOK(c)'
    BY <2>1 DEF CallOK
  <2>3. \A m : HeldBy(c, m) => HeldBy(c, m)'
    BY <2>1 DEF HeldBy
  <2>4. Keeps(c)
    BY <2>1, <2>2, <2>3, KeepsHandles DEF PausedNow, KumaTypeOK
  <2> QED
    BY <2>4, KeepsInv
<1>2. CASE pauseMonitor(c)
  BY <1>2, PauseMonitorKeeps, KeepsInv
<1>3. CASE resumeMonitor(c)
  BY <1>3, ResumeMonitorKeeps, KeepsInv
<1>4. CASE maintenance(c)
  BY <1>4, MaintenanceKeeps, KeepsInv
<1>5. CASE endMaintenance(c)
  BY <1>5, EndMaintenanceKeeps, KeepsInv
<1>6. CASE kumaReads(c)
  <2>1. args[c].tool \notin SessionTools
    BY <1>6 DEF kumaReads, KumaReadCalls, SessionTools
  <2>2. CASE Reply(c, "have", "ok")
    BY <2>2, ReplyKeeps, KeepsInv
  <2>3. CASE Learn(c, "begin", remote.monitor, "have")
    <3>1. Only(c) /\ at[c] = "begin" /\ at'[c] = "have" /\ UNCHANGED <<remote, args>>
      BY <2>3, LearnStep
    <3>2. CallOK(c)'
      BY <2>1, <3>1 DEF CallOK, SessionTools
    <3>3. \A m : HeldBy(c, m) => HeldBy(c, m)'
      BY <2>1 DEF HeldBy, SessionTools
    <3> QED
      BY <3>1, <3>2, <3>3, KeepsHandles, KeepsInv DEF PausedNow, KumaTypeOK
  <2> QED
    BY <1>6, <2>2, <2>3 DEF kumaReads
<1>7. CASE whiteGlovePause(c)
  BY <1>7, WhiteGlovePauseKeeps, KeepsInv
<1>8. CASE powerAction(c)
  BY <1>8, PowerActionKeeps, KeepsInv
<1>9. CASE waitForPowerState(c)
  BY <1>9, WaitKeeps, KeepsInv
<1>10. CASE safeResume(c)
  BY <1>10, SafeResumeKeeps, KeepsInv
<1>11. CASE SessionFails(c)
  BY <1>11, ReplyKeeps, KeepsInv DEF SessionFails
<1> QED
  BY <1>1, <1>2, <1>3, <1>4, <1>5, <1>6, <1>7, <1>8, <1>9, <1>10, <1>11 DEF UptimeKumaStep

\* People resume and delete monitors, and the server's process goes its way.
LEMMA KumaOthers ==
  ASSUME BaseInv, KumaInv, remote.system = "uptime-kuma", kumaEdit \/ serverTurns
  PROVE  KumaInv'
<1>1. /\ KumaTypeOK' /\ remote'.handle = remote.handle
      /\ UNCHANGED <<args, at, got, sent, answer, touched>>
      /\ \A m \in Monitors : remote'.monitor[m] = "paused" => remote.monitor[m] = "paused"
  <2>1. ASSUME NEW m \in Monitors, NEW v \in {"active", "gone"},
               Edit([remote EXCEPT !.monitor[m] = v])
        PROVE  /\ KumaTypeOK' /\ remote'.handle = remote.handle
               /\ UNCHANGED <<args, at, got, sent, answer, touched>>
               /\ \A x \in Monitors : remote'.monitor[x] = "paused" => remote.monitor[x] = "paused"
    BY <2>1 DEF KumaInv, KumaTypeOK, Edit
  <2>2. CASE serverTurns
    <3> DEFINE s == remote.server
               new == [s EXCEPT !.state = Head(s.todo), !.todo = Tail(s.todo),
                                !.born = @ + IF Head(s.todo) = "starting" THEN 1 ELSE 0]
    <3>1. Head(s.todo) \in PowerStates /\ Tail(s.todo) \in Seq(PowerStates)
      BY <2>2 DEF serverTurns, KumaInv, KumaTypeOK
    <3>2. new \in [state : PowerStates, todo : Seq(PowerStates), born : Nat]
      <4>1. s \in [state : PowerStates, todo : Seq(PowerStates), born : Nat]
        BY DEF KumaInv, KumaTypeOK
      <4>2. (s.born + IF Head(s.todo) = "starting" THEN 1 ELSE 0) \in Nat
        BY <4>1
      <4> HIDE DEF s
      <4> QED
        BY <3>1, <4>1, <4>2
    <3> HIDE DEF new
    <3>3. remote' = [remote EXCEPT !.server = new]
      BY <2>2 DEF serverTurns, new
    <3> QED
      BY <2>2, <3>2, <3>3 DEF serverTurns, KumaInv, KumaTypeOK
  <2> QED
    BY <2>1, <2>2 DEF kumaEdit
<1>2. \A c \in Calls : CallOK(c)'
  BY <1>1 DEF KumaInv, CallOK
<1>3. ASSUME NEW m, Answered(m) PROVE Answered(m)'
  BY <1>1, <1>3 DEF Answered, Handled, HandleHas, HeldBy
<1>4. PausedNow' \subseteq PausedNow
  BY <1>1 DEF PausedNow
<1> QED
  BY <1>1, <1>2, <1>3, <1>4 DEF KumaInv

\* The servers there may be at first.
LEMMA AtFirst ==
  ASSUME NEW s \in ServersAtFirst
  PROVE  /\ s \in [state : PowerStates, todo : Seq(PowerStates), born : Nat]
         /\ s.todo \in {<<>>, <<"running">>, <<"offline">>,
                        <<"offline", "starting", "running">>}
         /\ s.todo # <<>> /\ s.todo[1] = "running" => s.state = "starting"
         /\ s.todo # <<>> => s.state # "offline"
<1>1. /\ "stopping" \in PowerStates /\ "offline" \in PowerStates
      /\ "starting" \in PowerStates /\ "running" \in PowerStates
  BY DEF PowerStates
<1>2. /\ <<>> \in Seq(PowerStates) /\ <<"running">> \in Seq(PowerStates)
      /\ <<"offline">> \in Seq(PowerStates)
      /\ <<"offline", "starting", "running">> \in Seq(PowerStates)
  BY <1>1
<1>3. \/ s = [state |-> "running", todo |-> <<>>, born |-> 0]
      \/ s = [state |-> "offline", todo |-> <<>>, born |-> 0]
      \/ s = [state |-> "starting", todo |-> <<"running">>, born |-> 0]
      \/ s = [state |-> "stopping", todo |-> <<"offline">>, born |-> 0]
      \/ s = [state |-> "stopping", todo |-> <<"offline", "starting", "running">>, born |-> 0]
  BY Zenon DEF ServersAtFirst
<1>4. CASE s = [state |-> "running", todo |-> <<>>, born |-> 0]
  BY <1>1, <1>2, <1>4
<1>5. CASE s = [state |-> "offline", todo |-> <<>>, born |-> 0]
  BY <1>1, <1>2, <1>5
<1>6. CASE s = [state |-> "starting", todo |-> <<"running">>, born |-> 0]
  BY <1>1, <1>2, <1>6
<1>7. CASE s = [state |-> "stopping", todo |-> <<"offline">>, born |-> 0]
  BY <1>1, <1>2, <1>7
<1>8. CASE s = [state |-> "stopping", todo |-> <<"offline", "starting", "running">>, born |-> 0]
  BY <1>1, <1>2, <1>8
<1> QED
  BY <1>3, <1>4, <1>5, <1>6, <1>7, <1>8

\* A monitor that is paused at first was paused by hand, and has a handle.
LEMMA KumaStart ==
  ASSUME CallInit, UptimeKumaInit
  PROVE  KumaInv /\ remote.system = "uptime-kuma"
<1> PICK topic \in {"windows", "bounce", "other"}, old \in SUBSET {First(Monitors)},
         matched \in SUBSET Monitors, targets \in 1..2, server \in ServersAtFirst :
      remote = [system |-> "uptime-kuma", topic |-> topic, matched |-> matched,
                 kumaTargets |-> targets,
                 monitor |-> [m \in Monitors |-> IF m \in old THEN "paused"
                                                 ELSE "active"],
                 handle |-> [h \in Handles |->
                   IF h = OldHandle /\ old # {}
                   THEN [monitors |-> old, open |-> TRUE] ELSE None],
                 server |-> server]
  BY ZenonT(60) DEF UptimeKumaInit
<1>1. old \subseteq Monitors
  BY FirstIn, KumaAssumption
<1>2. \A c \in Calls : /\ args[c] = None /\ at[c] = "idle" /\ got[c] = None
                       /\ remote.handle[c] = None
  BY KumaAssumption DEF CallInit, Handles
<1>3. KumaTypeOK
  <2>1. [monitors |-> old, open |-> TRUE] \in HandleRecords
    BY <1>1 DEF HandleRecords
  <2>2. server \in [state : PowerStates, todo : Seq(PowerStates), born : Nat]
    BY AtFirst
  <2>3. remote.handle \in [Handles -> HandleRecords \cup {None}]
    BY <2>1
  <2>4. remote.monitor \in [Monitors -> {"active", "paused", "gone"}]
    OBVIOUS
  <2> QED
    BY <2>2, <2>3, <2>4 DEF KumaTypeOK
<1>4. \A c \in Calls : CallOK(c)
  BY <1>2 DEF CallOK
<1>5. ASSUME NEW m \in PausedNow
      PROVE  Answered(m)
  <2>1. m \in old
    BY DEF PausedNow
  <2>2. remote.handle[OldHandle] = [monitors |-> old, open |-> TRUE]
    BY <2>1 DEF Handles
  <2>3. HandleHas(OldHandle, m)
    <3>1. remote.handle[OldHandle] # None
      <4>1. [monitors |-> old, open |-> TRUE] \in HandleRecords
        BY <1>1 DEF HandleRecords
      <4> QED
        BY <2>2, <4>1, KumaAssumption
    <3> QED
      BY <2>1, <2>2, <3>1, <1>2 DEF HandleHas
  <2> QED
    BY <2>3 DEF Answered, Handled, Handles
<1> QED
  BY <1>3, <1>4, <1>5 DEF KumaInv

\* The invariant behind PausedIsAccounted, for any number of calls, monitors and handles.
THEOREM KumaInvariant == ConnectorsSpec => [](BaseInv /\ KumaHolds)
<1>1. ASSUME ConnectorsInit PROVE KumaHolds
  <2>1. CASE PortainerInit
    BY <2>1 DEF PortainerInit, KumaHolds
  <2>2. CASE ProxmoxInit
    BY <2>2 DEF ProxmoxInit, KumaHolds
  <2>3. CASE HomeAssistantInit
    BY <2>3 DEF HomeAssistantInit, KumaHolds
  <2>4. CASE UptimeKumaInit
    BY <1>1, <2>4, KumaStart DEF ConnectorsInit, KumaHolds
  <2>5. CASE SshInit
    BY <2>5 DEF SshInit, KumaHolds
  <2>6. CASE UniFiInit
    BY <2>6, UniFiAssumption DEF UniFiInit, KumaHolds
  <2>7. CASE PelicanPanelInit
    BY <2>7, PanelAssumption DEF PelicanPanelInit, KumaHolds
  <2>8. CASE PelicanHostInit
    BY <2>8, HostAssumption DEF PelicanHostInit, KumaHolds
  <2> QED
    BY <1>1, <2>1, <2>2, <2>3, <2>4, <2>5, <2>6, <2>7, <2>8 DEF ConnectorsInit
<1>2. ASSUME BaseInv, KumaHolds, [ConnectorsNext]_callVars PROVE KumaHolds'
  <2> SUFFICES ASSUME remote'.system = "uptime-kuma" PROVE KumaInv'
    BY DEF KumaHolds
  <2>1. remote.system = "uptime-kuma"
    <3>1. SameKind
      BY <1>2, BaseStep
    <3> QED
      BY <1>2, <3>1 DEF SameKind, BaseInv, FrameOK
  <2>2. KumaInv
    BY <1>2, <2>1 DEF KumaHolds
  <2>3. ASSUME NEW c \in Calls, CallStep(c) PROVE KumaInv'
    <3>1. UptimeKumaStep(c)
      BY <2>1, <2>3 DEF CallStep
    <3> QED
      BY <1>2, <2>1, <2>2, <3>1, KumaStep
  <2>4. CASE Others
    <3>1. kumaEdit \/ serverTurns
      BY <2>1, <2>4 DEF Others
    <3> QED
      BY <1>2, <2>1, <2>2, <3>1, KumaOthers
  <2>5. CASE UNCHANGED callVars
    <3>1. UNCHANGED <<remote, args, at, got>>
      BY <2>5 DEF callVars
    <3>2. KumaTypeOK'
      BY <2>2, <3>1 DEF KumaInv, KumaTypeOK
    <3>3. \A c \in Calls : CallOK(c)'
      BY <2>2, <3>1 DEF KumaInv, CallOK
    <3>4. ASSUME NEW m \in PausedNow' PROVE Answered(m)'
      <4>1. Answered(m)
        BY <2>2, <3>1, <3>4 DEF KumaInv, PausedNow
      <4> QED
        BY <4>1, <3>1 DEF Answered, Handled, HandleHas, HeldBy
    <3> QED
      BY <3>2, <3>3, <3>4 DEF KumaInv
  <2> QED
    BY <1>2, <2>3, <2>4, <2>5 DEF ConnectorsNext, AllAnswered
<1>3. ConnectorsSpec => []BaseInv
  BY BaseInvariant
<1> QED
  BY <1>1, <1>2, <1>3, PTL DEF ConnectorsSpec

\* When no call is under way every paused monitor has an open handle or was told of.
THEOREM PausedMonitorsAreTold == ConnectorsSpec => []PausedIsAccounted
<1>1. ASSUME BaseInv, KumaHolds PROVE PausedIsAccounted
  <2> SUFFICES ASSUME remote.system = "uptime-kuma", \A c \in Calls : ~Running(c),
                      NEW m \in PausedNow
               PROVE  \/ \E h \in Handles : /\ remote.handle[h] # None
                                            /\ remote.handle[h].open
                                            /\ m \in remote.handle[h].monitors
                      \/ \E c \in Calls :
                           /\ at[c] = "done"
                           /\ \/ args[c].tool = "pause_monitor" /\ args[c].monitor = m
                              \/ got[c] # None /\ m \in got[c].failed
                              \/ /\ got[c] # None /\ m \in got[c].still
                                 /\ args[c].tool \in {"white_glove", "maintenance"}
    BY DEF PausedIsAccounted
  <2>1. Answered(m)
    BY <1>1 DEF KumaHolds, KumaInv
  <2>2. \A c \in Calls : at[c] \in {"idle", "done"}
    BY DEF Running
  <2> QED
    BY <2>1, <2>2 DEF Answered, Handled, HandleHas, HeldBy
<1> QED
  BY <1>1, KumaInvariant, PTL

\* A document with the changes put over what was read is faithful.
LEMMA MergedFaithful ==
  ASSUME NEW c \in Calls, NEW set, NEW base, Wanted(c) = set, Base(c) = base
  PROVE  Faithful(c, Patched(set, base))
<1> DEFINE body == Patched(set, base)
<1>1. /\ DOMAIN body = DOMAIN set \cup DOMAIN base
      /\ \A x \in DOMAIN body : body[x] = IF x \in DOMAIN set THEN set[x] ELSE base[x]
  BY DEF Patched
<1> SUFFICES Faithful(c, body)
  OBVIOUS
<1> HIDE DEF body
<1> QED
  BY <1>1 DEF Faithful

\* It stays so while the call has the same arguments and the same knowledge.
LEMMA FaithfulKept ==
  ASSUME NEW c \in Calls, args'[c] = args[c], got'[c] = got[c],
         remote'.system = remote.system, NEW body, Faithful(c, body)
  PROVE  Faithful(c, body)'
<1>1. Wanted(c)' = Wanted(c)
  BY DEF Wanted
<1>2. UniFiBase(c)' = UniFiBase(c)
  BY DEF UniFiBase, findPortForward, Stored
<1>3. Base(c)' = Base(c)
  BY <1>2 DEF Base
<1> QED
  BY <1>1, <1>3 DEF Faithful

\* Steps that send nothing, by kind.
LEMMA RestQuiet ==
  ASSUME NEW c \in Calls, Rest(c), at[c] \notin {"put", "done"}, at'[c] # "extras",
         sent' = sent
  PROVE  Rest(c)'
  BY DEF Rest

\* It learns something.
LEMMA RestLearn ==
  ASSUME FrameOK, NEW c \in Calls, Rest(c), NEW here, NEW value, NEW there,
         here \notin {"put", "done"}, there # "extras", Learn(c, here, value, there)
  PROVE  Rest(c)'
  BY LearnStep DEF Rest

\* A step of a session.
LEMMA RestStep ==
  ASSUME FrameOK, NEW c \in Calls, Rest(c), NEW here, NEW new, NEW mine, NEW there,
         here \notin {"put", "done"}, there # "extras", Step(c, here, new, mine, there)
  PROVE  Rest(c)'
  BY SessionStep DEF Rest

\* It waits elsewhere.
LEMMA RestMove ==
  ASSUME FrameOK, NEW c \in Calls, Rest(c), NEW here, NEW there,
         here \notin {"put", "done"}, there # "extras", Move(c, here, there)
  PROVE  Rest(c)'
  BY MoveStep DEF Rest

\* It returns.
LEMMA RestReply ==
  ASSUME FrameOK, NEW c \in Calls, Rest(c), NEW here, NEW said,
         here # "idle", Reply(c, here, said)
  PROVE  Rest(c)'
  BY ReplyStep DEF Rest

\* It changes the system without a document.
LEMMA RestChange ==
  ASSUME FrameOK, NEW c \in Calls, NEW here, NEW new, NEW effect, NEW there,
         there # "extras", Change(c, here, new, effect, None, there)
  PROVE  Rest(c)'
  BY ChangeStep DEF Rest

\* It begins.
LEMMA RestBegin ==
  ASSUME FrameOK, NEW c \in Calls, Rest(c), NEW accepted, Begin(c, accepted)
  PROVE  Rest(c)'
  BY BeginStep DEF Rest

\* The step that sends a body, faithful when it is sent.
LEMMA RestBody ==
  ASSUME FrameOK, "system" \in DOMAIN remote, NEW c \in Calls, NEW here, NEW new,
         NEW effect, NEW body, Alike(new), Faithful(c, body),
         Change(c, here, new, effect, body, "put")
  PROVE  Rest(c)'
<1>1. /\ UNCHANGED <<args, got>> /\ remote'.system = remote.system
      /\ sent'[c] = body /\ at'[c] = "put"
  BY ChangeStep DEF Alike
<1>2. Faithful(c, body)'
  BY <1>1, FaithfulKept
<1> QED
  BY <1>1, <1>2 DEF Rest

\* UniFi: settings, networks and rules are written back whole.
LEMMA UniFiRest ==
  ASSUME FrameOK, "system" \in DOMAIN remote, remote.system = "unifi",
         NEW c \in Calls, Rest(c), UniFiStep(c),
         at[c] # "idle" => args[c] \in UniFiCalls
  PROVE  Rest(c)'
<1>1. CASE unifiNotReady(c)
  BY <1>1, RestLearn, RestChange, RestReply, RestMove DEF unifiNotReady
<1>2. CASE setNetworkIpv6(c)
  <2> DEFINE updated == Patched(args[c].set, got[c])
  <2>1. Faithful(c, updated)
    BY <1>2, MergedFaithful DEF Base, Wanted, UniFiBase, setNetworkIpv6, Does
  <2>2. Alike([remote EXCEPT !.net = updated])
    BY DEF Alike
  <2> HIDE DEF updated
  <2>3. CASE Change(c, "have", [remote EXCEPT !.net = updated], {"net"}, updated, "put")
    BY <2>1, <2>2, <2>3, RestBody
  <2> QED
    BY <1>2, <2>3, RestLearn, RestReply DEF setNetworkIpv6, updated
<1>3. CASE setGatewayFeature(c) \/ setRemoteLogging(c)
  <2> DEFINE updated == Patched(args[c].set, got[c].first)
             new == [remote EXCEPT ![args[c].group] = updated]
  <2>1. /\ args[c].group \notin {"system", "topic"}
        /\ args[c].tool \in {"set_gateway_feature", "set_remote_logging"}
    BY <1>3 DEF setGatewayFeature, setRemoteLogging, Does, Running, UniFiCalls,
              UniFiSettingCalls, UniFiForwardCalls, UniFiReadCalls
  <2>2. Alike(new)
    BY <2>1 DEF Alike
  <2>3. ~Drifted(got[c]) => Faithful(c, updated)
    BY <2>1, MergedFaithful DEF Base, Wanted, UniFiBase, Drifted
  <2> HIDE DEF updated, new
  <2>4. ASSUME ~Drifted(got[c]), Change(c, "fresh", new, {"group"}, updated, "put")
        PROVE  Rest(c)'
    BY <2>2, <2>3, <2>4, RestBody
  <2>5. CASE RewriteGroup(c)
    BY <2>4, <2>5, RestLearn, RestReply DEF RewriteGroup, updated, new
  <2> QED
    BY <1>3, <2>5, RestReply DEF setGatewayFeature, setRemoteLogging
<1>4. CASE createPortForward(c)
  BY <1>4, RestLearn, RestChange, RestReply, RestMove DEF createPortForward
<1>5. CASE updatePortForward(c)
  <2> DEFINE found == findPortForward(args[c].ref, got[c])
             updated(r) == Patched(args[c].set, got[c][r])
             new(r) == [remote EXCEPT !.rules[r] = updated(r), !.live = FALSE]
  <2>1. args[c].tool = "update_port_forward"
    BY <1>5 DEF updatePortForward, Does
  <2>2. IsFiniteSet(found)
    BY UniFiAssumption, FS_Subset, FS_Singleton DEF findPortForward, Stored
  <2>3. ASSUME NEW r \in found, Cardinality(found) = 1
        PROVE  Faithful(c, updated(r)) /\ Alike(new(r))
    <3>1. found = {r}
      BY <2>2, <2>3, FS_Singleton
    <3>2. Base(c) = got[c][r]
      BY <2>1, <3>1 DEF Base, UniFiBase
    <3>3. Wanted(c) = args[c].set
      BY <2>1 DEF Wanted
    <3> QED
      BY <3>2, <3>3, MergedFaithful DEF Alike
  <2> HIDE DEF found, updated, new
  <2>4. ASSUME NEW r \in found, Cardinality(found) = 1,
               Change(c, "have", new(r), {"rule"}, updated(r), "put")
        PROVE  Rest(c)'
    BY <2>3, <2>4, RestBody
  <2> QED
    BY <1>5, <2>4, RestLearn, RestReply DEF updatePortForward, found, updated, new
<1>6. CASE deletePortForward(c)
  BY <1>6, RestLearn, RestChange, RestReply, RestMove DEF deletePortForward
<1>7. CASE forceProvision(c)
  BY <1>7, RestLearn, RestChange, RestReply, RestMove DEF forceProvision
<1>8. CASE unifiReads(c)
  BY <1>8, RestLearn, RestChange, RestReply, RestMove DEF unifiReads
<1>9. CASE unifiSnapshot(c)
  BY <1>9, RestLearn, RestChange, RestReply, RestMove DEF unifiSnapshot
<1>10. CASE Breaks(c, UniFiTools)
  BY <1>10, RestReply DEF Breaks, Running
<1>11. CASE Begin(c, UniFiCalls)
  BY <1>11, RestBegin
<1> QED
  BY <1>1, <1>2, <1>3, <1>4, <1>5, <1>6, <1>7, <1>8, <1>9, <1>10, <1>11 DEF UniFiStep

\* Portainer: a stack's environment is.
LEMMA PortainerRest ==
  ASSUME FrameOK, "system" \in DOMAIN remote, remote.system = "portainer",
         NEW c \in Calls, Rest(c), PortainerStep(c)
  PROVE  Rest(c)'
<1>1. CASE createStack(c)
  BY <1>1, RestLearn, RestChange, RestReply, RestMove DEF createStack
<1>2. CASE updateStack(c)
  <2> DEFINE a == args[c]
             merged == mergeEnv(got[c].env, a.env, a.secret)
             new == [remote EXCEPT !.stacks[a.id].marked = a.marked,
                                   !.stacks[a.id].env = merged]
  <2>1. args[c].tool = "update_stack"
    BY <1>2 DEF updateStack, Does
  <2>2. Faithful(c, merged)
    <3> DEFINE wanted == Patched(a.secret, a.env)
    <3>1. Base(c) = got[c].env /\ Wanted(c) = wanted
      BY <2>1 DEF Base, Wanted
    <3>2. DOMAIN wanted = DOMAIN a.secret \cup DOMAIN a.env
      BY DEF Patched
    <3>3. merged = Patched(wanted, got[c].env)
      BY DEF mergeEnv, Patched
    <3> HIDE DEF wanted, merged
    <3> QED
      BY <3>1, <3>3, MergedFaithful
  <2>3. Alike(new)
    BY DEF Alike
  <2> HIDE DEF merged, new
  <2>4. CASE Change(c, "have", new, {"stack"}, merged, "put")
    BY <2>2, <2>3, <2>4, RestBody
  <2> QED
    BY <1>2, <2>4, RestLearn, RestReply DEF updateStack, merged, new
<1>3. CASE removeStack(c)
  BY <1>3, RestLearn, RestChange, RestReply, RestMove DEF removeStack
<1>4. CASE containerAction(c)
  BY <1>4, RestLearn, RestChange, RestReply, RestMove DEF containerAction
<1>5. CASE exec(c)
  BY <1>5, RestLearn, RestChange, RestReply, RestMove DEF exec
<1>6. CASE portainerReads(c)
  BY <1>6, RestLearn, RestChange, RestReply, RestMove DEF portainerReads
<1>7. CASE containerLogs(c)
  BY <1>7, RestLearn, RestChange, RestReply, RestMove DEF containerLogs
<1>8. CASE portainerSnapshot(c)
  BY <1>8, RestLearn, RestChange, RestReply, RestMove DEF portainerSnapshot
<1>9. CASE Breaks(c, PortainerTools)
  BY <1>9, RestReply DEF Breaks, Running
<1>10. CASE Begin(c, PortainerCalls)
  BY <1>10, RestBegin
<1> QED
  BY <1>1, <1>2, <1>3, <1>4, <1>5, <1>6, <1>7, <1>8, <1>9, <1>10 DEF PortainerStep

\* Proxmox sends no document.
LEMMA ProxmoxRest ==
  ASSUME FrameOK, "system" \in DOMAIN remote, remote.system = "proxmox",
         NEW c \in Calls, Rest(c), ProxmoxStep(c)
  PROVE  Rest(c)'
<1>1. CASE proxmoxNotReady(c)
  BY <1>1, RestLearn, RestChange, RestReply, RestMove DEF proxmoxNotReady
<1>2. CASE guestPower(c)
  BY <1>2, RestLearn, RestChange, RestReply, RestMove DEF guestPower
<1>3. CASE proxmoxTimesOut(c)
  BY <1>3, RestLearn, RestChange, RestReply, RestMove DEF proxmoxTimesOut
<1>4. CASE proxmoxReads(c)
  BY <1>4, RestLearn, RestChange, RestReply, RestMove DEF proxmoxReads
<1>5. CASE proxmoxSnapshot(c)
  BY <1>5, RestLearn, RestChange, RestReply, RestMove DEF proxmoxSnapshot
<1>6. CASE Breaks(c, ProxmoxTools)
  BY <1>6, RestReply DEF Breaks, Running
<1>7. CASE Begin(c, GuestCalls) \/ Begin(c, ProxmoxReadCalls)
  BY <1>7, RestBegin
<1> QED
  BY <1>1, <1>2, <1>3, <1>4, <1>5, <1>6, <1>7 DEF ProxmoxStep

\* Nor does Home Assistant.
LEMMA HomeAssistantRest ==
  ASSUME FrameOK, "system" \in DOMAIN remote, remote.system = "home-assistant",
         NEW c \in Calls, Rest(c), HomeAssistantStep(c)
  PROVE  Rest(c)'
<1>1. CASE getRaw(c)
  BY <1>1, RestLearn, RestChange, RestReply, RestMove DEF getRaw
<1>2. CASE statesOrLogbook(c)
  BY <1>2, RestLearn, RestChange, RestReply, RestMove DEF statesOrLogbook
<1>3. CASE callService(c)
  BY <1>3, RestLearn, RestChange, RestReply, RestMove DEF callService
<1>4. CASE serviceAnswered(c)
  BY <1>4, RestLearn, RestChange, RestReply, RestMove DEF serviceAnswered
<1>5. CASE homeAssistantTimesOut(c)
  BY <1>5, RestLearn, RestChange, RestReply, RestMove DEF homeAssistantTimesOut, Running
<1>6. CASE haSnapshot(c)
  BY <1>6, RestLearn, RestChange, RestReply, RestMove DEF haSnapshot
<1>7. CASE haSnapshotDone(c)
  BY <1>7, RestLearn, RestChange, RestReply, RestMove DEF haSnapshotDone
<1>8. CASE Breaks(c, HomeAssistantTools)
  BY <1>8, RestReply DEF Breaks, Running
<1>9. CASE Begin(c, HomeAssistantCalls)
  BY <1>9, RestBegin
<1> QED
  BY <1>1, <1>2, <1>3, <1>4, <1>5, <1>6, <1>7, <1>8, <1>9 DEF HomeAssistantStep

\* Pelican's panel: build limits, startup variables, schedules and new servers.
LEMMA PelicanPanelRest ==
  ASSUME FrameOK, "system" \in DOMAIN remote, remote.system = "pelican",
         NEW c \in Calls, Rest(c), PelicanPanelStep(c)
  PROVE  Rest(c)'
<1>1. CASE panelNotReady(c)
  BY <1>1, RestLearn, RestChange, RestReply, RestMove DEF panelNotReady
<1>2. CASE updateServerBuild(c)
  <2> DEFINE whole == Patched(args[c].set, got[c])
             new == [remote EXCEPT !.build = whole]
  <2>1. Faithful(c, whole)
    BY <1>2, MergedFaithful DEF Base, Wanted, updateServerBuild, Ready, Does
  <2>2. Alike(new)
    BY DEF Alike
  <2> HIDE DEF whole, new
  <2>3. CASE Change(c, "have", new, {"build"}, whole, "put")
    BY <2>1, <2>2, <2>3, RestBody
  <2> QED
    BY <1>2, <2>3, RestLearn, RestReply DEF updateServerBuild, whole, new
<1>3. CASE updateServerStartup(c)
  <2> DEFINE environment == Merged(got[c], args[c].set)
             new == [remote EXCEPT !.env = PanelStores(environment)]
  <2>1. ASSUME KnownVariables(args[c].set)
        PROVE  Faithful(c, environment)
    BY <1>3, <2>1 DEF Faithful, Base, Wanted, updateServerStartup, Ready, Does, Merged,
                    buildEnvironment, KnownVariables
  <2>2. Alike(new)
    BY DEF Alike
  <2> HIDE DEF environment, new
  <2>3. ASSUME KnownVariables(args[c].set),
               Change(c, "variables", new, {"env"}, environment, "put")
        PROVE  Rest(c)'
    BY <2>1, <2>2, <2>3, RestBody
  <2> QED
    BY <1>3, <2>3, RestLearn, RestMove, RestReply DEF updateServerStartup, environment, new
<1>4. CASE updateStartupVariables(c)
  BY <1>4, RestQuiet, RestLearn, RestReply DEF updateStartupVariables
<1>5. CASE createSchedule(c)
  <2>1. ASSUME NEW i, at[c] = "begin", got' = Now(got, c, i), at' = Now(at, c, "made"),
               sent' = sent
        PROVE  Rest(c)'
    BY <2>1, RestQuiet, NowEntry DEF FrameOK
  <2> QED
    BY <1>5, <2>1, RestChange, RestReply DEF createSchedule
<1>6. CASE updateSchedule(c)
  <2> DEFINE i == args[c].id
             whole == Patched(args[c].set, got[c])
             new == [remote EXCEPT !.schedules[i] =
                       [whole EXCEPT !.tasks = remote.schedules[i].tasks]]
  <2>1. Faithful(c, whole)
    BY <1>6, MergedFaithful DEF Base, Wanted, updateSchedule, Ready, Does
  <2>2. Alike(new)
    BY DEF Alike
  <2> HIDE DEF whole, new
  <2>3. CASE Change(c, "have", new, {"schedule"}, whole, "put")
    BY <2>1, <2>2, <2>3, RestBody
  <2> QED
    BY <1>6, <2>3, RestLearn, RestReply DEF updateSchedule, whole, new
<1>7. CASE deleteSchedule(c)
  BY <1>7, RestLearn, RestChange, RestReply, RestMove DEF deleteSchedule
<1>8. CASE createAllocations(c)
  BY <1>8, RestLearn, RestChange, RestReply, RestMove DEF createAllocations
<1>9. CASE assignAllocation(c)
  BY <1>9, RestLearn, RestChange, RestReply, RestMove DEF assignAllocation
<1>10. CASE createServer(c)
  <2> DEFINE s == args[c].server
             environment == buildEnvironment(s.set)
             ports == {s.default} \cup s.extras
             new == [remote EXCEPT !.alloc = Patched([p \in ports |-> "used"], @),
                                   !.env = PanelStores(environment)]
  <2>1. args[c].tool = "create_server"
    BY <1>10 DEF createServer, Ready, Does
  <2>2. ASSUME KnownVariables(s.set)
        PROVE  Faithful(c, environment)
    <3>1. ~ remote.system = "unifi"
      OBVIOUS
    <3> QED
      BY <2>1, <2>2, <3>1 DEF Faithful, Base, Wanted, buildEnvironment, KnownVariables
  <2>3. Alike(new)
    BY DEF Alike
  <2>4. ASSUME KnownVariables(s.set), Learn(c, "have", remote.alloc, "extras")
        PROVE  Rest(c)'
    BY <2>4, LearnStep DEF Rest
  <2> HIDE DEF environment, new
  <2>5. CASE Change(c, "extras", new, {"server"}, environment, "put")
    <3>1. KnownVariables(s.set)
      BY <2>1, <2>5 DEF Rest, Change
    <3> QED
      BY <2>2, <2>3, <2>5, <3>1, RestBody
  <2> QED
    BY <1>10, <2>4, <2>5, RestLearn, RestReply DEF createServer, environment, new
<1>11. CASE importEgg(c)
  BY <1>11, RestLearn, RestChange, RestReply, RestMove DEF importEgg
<1>12. CASE fileOperation(c)
  BY <1>12, RestLearn, RestChange, RestReply, RestMove DEF fileOperation
<1>13. CASE pullFile(c)
  <2>1. ASSUME at[c] = "begin", at' = Now(at, c, "poll"), sent' = sent
        PROVE  Rest(c)'
    BY <2>1, RestQuiet, NowEntry DEF FrameOK
  <2> QED
    BY <1>13, <2>1, RestReply DEF pullFile
<1>14. CASE waitForFile(c)
  BY <1>14, RestLearn, RestChange, RestReply, RestMove DEF waitForFile
<1>15. CASE readFile(c)
  BY <1>15, RestLearn, RestChange, RestReply, RestMove DEF readFile
<1>16. CASE list(c)
  BY <1>16, RestLearn, RestChange, RestReply, RestMove DEF list
<1>17. CASE pelicanSnapshot(c)
  BY <1>17, RestLearn, RestChange, RestReply, RestMove DEF pelicanSnapshot
<1>18. CASE Breaks(c, PanelTools)
  BY <1>18, RestReply DEF Breaks, Running
<1>19. CASE Begin(c, PanelCalls)
  BY <1>19, RestBegin
<1> QED
  BY <1>1, <1>2, <1>3, <1>4, <1>5, <1>6, <1>7, <1>8, <1>9, <1>10, <1>11, <1>12, <1>13, <1>14,
     <1>15, <1>16, <1>17, <1>18, <1>19
     DEF PelicanPanelStep

\* Uptime Kuma sends no document.
LEMMA UptimeKumaRest ==
  ASSUME FrameOK, "system" \in DOMAIN remote, remote.system = "uptime-kuma",
         NEW c \in Calls, Rest(c), UptimeKumaStep(c)
  PROVE  Rest(c)'
<1>1. CASE pauseMonitor(c)
  BY <1>1, RestLearn, RestReply, RestMove, RestStep
     DEF pauseMonitor, openSession, pause, SetMonitor
<1>2. CASE resumeMonitor(c)
  BY <1>2, RestLearn, RestReply, RestMove, RestStep
     DEF resumeMonitor, openSession, resume, SetMonitor
<1>3. CASE maintenance(c)
  BY <1>3, RestLearn, RestReply, RestMove, RestStep
     DEF maintenance, openSession, pause, resume, add, SetMonitor
<1>4. CASE endMaintenance(c)
  BY <1>4, RestLearn, RestReply, RestMove, RestStep
     DEF endMaintenance, openSession, resumeExactly, resume, end, SetMonitor
<1>5. CASE kumaReads(c)
  BY <1>5, RestLearn, RestReply, RestMove, RestStep DEF kumaReads
<1>6. CASE whiteGlovePause(c)
  BY <1>6, RestLearn, RestReply, RestMove, RestStep
     DEF whiteGlovePause, openSession, pause, resume, SetMonitor
<1>7. CASE powerAction(c)
  BY <1>7, RestLearn, RestReply, RestMove, RestStep DEF powerAction
<1>8. CASE waitForPowerState(c)
  BY <1>8, RestLearn, RestReply, RestMove, RestStep DEF waitForPowerState
<1>9. CASE safeResume(c)
  BY <1>9, RestLearn, RestReply, RestMove, RestStep
     DEF safeResume, resumeExactly, resume, SetMonitor
<1>10. CASE SessionFails(c)
  BY <1>10, RestLearn, RestReply, RestMove, RestStep DEF SessionFails, Running
<1>11. CASE Begin(c, UptimeKumaCalls)
  BY <1>11, RestBegin
<1> QED
  BY <1>1, <1>2, <1>3, <1>4, <1>5, <1>6, <1>7, <1>8, <1>9, <1>10, <1>11 DEF UptimeKumaStep

\* Nor does SSH.
LEMMA SshRest ==
  ASSUME FrameOK, "system" \in DOMAIN remote, remote.system = "ssh",
         NEW c \in Calls, Rest(c), SshStep(c)
  PROVE  Rest(c)'
<1>1. CASE execSsh(c)
  BY <1>1, RestLearn, RestChange, RestReply, RestMove DEF execSsh, runSsh
<1>2. CASE sshSnapshot(c)
  BY <1>2, RestLearn, RestChange, RestReply, RestMove DEF sshSnapshot, runSsh
<1>3. CASE Breaks(c, SshTools)
  BY <1>3, RestReply DEF Breaks, Running
<1>4. CASE Begin(c, SshCalls)
  BY <1>4, RestBegin
<1> QED
  BY <1>1, <1>2, <1>3, <1>4 DEF SshStep

\* What a call has sent is faithful to what it read as long as it waits for the answer.
THEOREM RestInvariant == ConnectorsSpec => [](BaseInv /\ RestInv)
<1>1. ConnectorsInit => RestInv
  BY DEF ConnectorsInit, CallInit, RestInv, Rest
<1>2. ASSUME BaseInv, RestInv, [ConnectorsNext]_callVars PROVE RestInv'
  <2>1. remote'.system = remote.system
    <3>1. SameKind
      BY <1>2, BaseStep
    <3> QED
      BY <1>2, <3>1 DEF SameKind, BaseInv
  <2> SUFFICES ASSUME remote.system # "host", NEW d \in Calls PROVE Rest(d)'
    BY <2>1 DEF RestInv
  <2>2. FrameOK /\ "system" \in DOMAIN remote /\ Rest(d)
    BY <1>2 DEF BaseInv, RestInv
  <2>3. ASSUME args'[d] = args[d], at'[d] = at[d], got'[d] = got[d], sent'[d] = sent[d]
        PROVE  Rest(d)'
    <3>1. Faithful(d, sent[d]) => Faithful(d, sent[d])'
      BY <2>1, <2>3, FaithfulKept
    <3> QED
      BY <2>2, <2>3, <3>1 DEF Rest
  <2>4. ASSUME NEW c \in Calls, CallStep(c) PROVE Rest(d)'
    <3>1. CASE c # d
      <4>1. Proper(c, Accepted)
        BY <1>2, <2>4, StepProper
      <4> QED
        BY <2>3, <3>1, <4>1 DEF Proper, Only
    <3>2. CASE c = d
      <4>1. remote.system = "unifi" => (at[d] # "idle" => args[d] \in UniFiCalls)
        BY <1>2 DEF BaseInv, Accepted
      <4> QED
        BY <2>2, <2>4, <3>2, <4>1, UniFiRest, PortainerRest, ProxmoxRest, HomeAssistantRest,
           PelicanPanelRest, UptimeKumaRest, SshRest DEF CallStep
    <3> QED
      BY <3>1, <3>2
  <2>5. CASE Others
    BY <2>2, <2>3, <2>5, OthersFrame
  <2>6. CASE UNCHANGED callVars
    BY <2>3, <2>6 DEF callVars
  <2> QED
    BY <1>2, <2>4, <2>5, <2>6 DEF ConnectorsNext, AllAnswered
<1>3. ConnectorsSpec => []BaseInv
  BY BaseInvariant
<1> QED
  BY <1>1, <1>2, <1>3, PTL DEF ConnectorsSpec

\* Whole documents are written back with nothing left out and no earlier edit undone.
THEOREM DocumentsKeepTheRest == ConnectorsSpec => []KeepsTheRest
<1>1. RestInv => KeepsTheRest
  BY DEF RestInv, Rest, Faithful, KeepsTheRest
<1> QED
  BY <1>1, RestInvariant, PTL

-----------------------------------------------------------------------------
(* Port forwards.                                                             *)

\* What the checks let through is safe.
LEMMA AllowedIsSafe ==
  ASSUME NEW rule, assertForwardAllowed(rule)
  PROVE  SafeForward(rule)
<1>1. ASSUME NEW spec \in {rule.wan, rule.lan}
      PROVE  (spec.lo..spec.hi) \cap DeniedPorts = {}
  <2>1. spec.lo \in Int /\ spec.hi \in Int
    BY UniFiAssumption DEF assertForwardAllowed, parsePortSpec
  <2>2. \A p \in DeniedPorts : p \in Int /\ (p < spec.lo \/ spec.hi < p)
    BY UniFiAssumption DEF assertForwardAllowed
  <2> QED
    BY <2>1, <2>2
<1> QED
  BY <1>1 DEF assertForwardAllowed, isPrivateIPv4, SafeForward

\* One rule is replaced, by one that is safe or off.
LEMMA OneRuleSet ==
  ASSUME ForwardsInv, remote.system = "unifi", remote.topic = "forwards",
         NEW r \in RuleIds, NEW new,
         remote' = [remote EXCEPT !.rules[r] = new, !.live = FALSE],
         new # None /\ new.enabled => SafeForward(new)
  PROVE  RulesScreened
  BY DEF ForwardsInv, RulesScreened

\* No rule is replaced.
LEMMA RulesKept ==
  ASSUME ForwardsInv, remote.system = "unifi", remote.topic = "forwards",
         remote'.rules = remote.rules, DOMAIN remote' = DOMAIN remote
  PROVE  RulesScreened
  BY DEF ForwardsInv, RulesScreened

\* A patch that only disables leaves the rule off.
LEMMA SwitchedOff ==
  ASSUME NEW current, NEW patch, isDisableOnlyPatch(current, patch)
  PROVE  ~Patched(patch, current).enabled
  BY DEF isDisableOnlyPatch, Patched

\* Whatever a call does, no rule is left enabled that is not safe.
LEMMA CallScreens ==
  ASSUME BaseInv, ForwardsInv, remote.system = "unifi", remote.topic = "forwards",
         NEW c \in Calls, UniFiStep(c)
  PROVE  RulesScreened
<1> FrameOK
  BY DEF BaseInv
<1> at[c] # "idle" => args[c] \in UniFiForwardCalls
  BY DEF BaseInv, Accepted, UniFiCalls
<1>1. CASE createPortForward(c)
  <2>1. ASSUME NEW r \in RuleIds \ Stored(remote.rules), at[c] = "have",
               Change(c, "have", [remote EXCEPT !.rules[r] = args[c].rule, !.live = FALSE],
                      {"rule"}, None, "put")
        PROVE  RulesScreened
    <3>1. SafeForward(args[c].rule)
      BY <1>1, <2>1, AllowedIsSafe DEF ForwardsInv, createPortForward, Does
    <3>2. remote' = [remote EXCEPT !.rules[r] = args[c].rule, !.live = FALSE]
      BY <2>1 DEF Change
    <3> QED
      BY <3>1, <3>2, OneRuleSet
  <2>2. RulesScreened \/ UNCHANGED remote
    BY <1>1, <2>1 DEF createPortForward, Learn, Reply
  <2> QED
    BY <2>2, RulesKept
<1>2. CASE updatePortForward(c)
  <2> DEFINE found == findPortForward(args[c].ref, got[c])
             updated(r) == Patched(args[c].set, got[c][r])
  <2>1. ASSUME NEW r \in found,
               isDisableOnlyPatch(got[c][r], args[c].set) \/ assertForwardAllowed(updated(r)),
               Change(c, "have", [remote EXCEPT !.rules[r] = updated(r), !.live = FALSE],
                      {"rule"}, updated(r), "put")
        PROVE  RulesScreened
    <3>1. updated(r).enabled => SafeForward(updated(r))
      BY <2>1, SwitchedOff, AllowedIsSafe
    <3>2. remote' = [remote EXCEPT !.rules[r] = updated(r), !.live = FALSE]
      BY <2>1 DEF Change
    <3>3. r \in RuleIds
      BY <2>1 DEF findPortForward, Stored
    <3> HIDE DEF updated
    <3> QED
      BY <3>1, <3>2, <3>3, OneRuleSet
  <2>2. RulesScreened \/ UNCHANGED remote
    BY <1>2, <2>1 DEF updatePortForward, Learn, Reply
  <2> QED
    BY <2>2, RulesKept
<1>3. CASE deletePortForward(c)
  <2> DEFINE found == findPortForward(args[c].ref, got[c])
  <2>1. ASSUME NEW r \in found,
               Change(c, "have", [remote EXCEPT !.rules[r] = None, !.live = FALSE],
                      {"rule"}, None, "put")
        PROVE  RulesScreened
    <3>1. remote' = [remote EXCEPT !.rules[r] = None, !.live = FALSE]
      BY <2>1 DEF Change
    <3>2. r \in RuleIds
      BY <2>1 DEF findPortForward, Stored
    <3> QED
      BY <3>1, <3>2, OneRuleSet
  <2>2. RulesScreened \/ UNCHANGED remote
    BY <1>3, <2>1 DEF deletePortForward, Learn, Reply
  <2> QED
    BY <2>2, RulesKept
<1>4. CASE forceProvision(c)
  <2>1. remote'.rules = remote.rules /\ DOMAIN remote' = DOMAIN remote
    BY <1>4 DEF forceProvision, Learn, Change, Reply, ForwardsInv
  <2> QED
    BY <2>1, RulesKept
<1>5. CASE \/ unifiNotReady(c) \/ Breaks(c, UniFiTools) \/ Begin(c, UniFiCalls)
           \/ unifiReads(c) \/ unifiSnapshot(c)
  <2>1. UNCHANGED remote
    BY <1>5 DEF unifiNotReady, Breaks, Begin, unifiReads, unifiSnapshot, Learn, Reply
  <2> QED
    BY <2>1, RulesKept
<1>6. ~setNetworkIpv6(c) /\ ~setGatewayFeature(c) /\ ~setRemoteLogging(c)
  BY DEF setNetworkIpv6, setGatewayFeature, setRemoteLogging, Does, Running,
         UniFiForwardCalls
<1> QED
  BY <1>1, <1>2, <1>3, <1>4, <1>5, <1>6 DEF UniFiStep

\* A rule that is to be made was checked before the call waits for the list.
LEMMA CreatesChecked ==
  ASSUME BaseInv, ForwardsInv, remote.system = "unifi", NEW c \in Calls, UniFiStep(c),
         at'[c] = "have", args'[c].tool = "create_port_forward"
  PROVE  assertForwardAllowed(args'[c].rule)
<1>1. FrameOK /\ Proper(c, Accepted)
  BY StepProper DEF BaseInv, CallStep
<1>2. ASSUME at[c] # "idle", args'[c] = args[c]
      PROVE  assertForwardAllowed(args'[c].rule)
  <2>1. CASE createPortForward(c)
    <3>1. ASSUME Reply(c, "begin", "refused") \/ Reply(c, "have", "refused")
                 \/ Reply(c, "put", "ok")
          PROVE  FALSE
      BY <1>1, <3>1, ReplyStep
    <3>2. ASSUME NEW new, Change(c, "have", new, {"rule"}, None, "put")
          PROVE  FALSE
      BY <1>1, <3>2, ChangeStep
    <3> QED
      BY <1>2, <2>1, <3>1, <3>2 DEF createPortForward
  <2>2. CASE unifiNotReady(c) \/ Breaks(c, UniFiTools)
    BY <1>1, <2>2, ReplyStep DEF unifiNotReady, Breaks
  <2>3. CASE Begin(c, UniFiCalls)
    BY <1>2, <2>3 DEF Begin
  <2> QED
    BY <1>2, <2>1, <2>2, <2>3
       DEF UniFiStep, setNetworkIpv6, setGatewayFeature, setRemoteLogging,
       updatePortForward, deletePortForward, forceProvision, unifiReads, unifiSnapshot, Does
<1>3. CASE at[c] = "idle"
  <2>1. Begin(c, UniFiCalls)
    BY <1>3 DEF UniFiStep, unifiNotReady, setNetworkIpv6, setGatewayFeature, setRemoteLogging,
       createPortForward, updatePortForward, deletePortForward, forceProvision, unifiReads,
       unifiSnapshot, Breaks, Does, Running
  <2> QED
    BY <1>1, <2>1, BeginStep
<1> QED
  BY <1>1, <1>2, <1>3 DEF Proper

\* People may set any rule, among the same ids.
LEMMA EditKeepsRules ==
  ASSUME BaseInv, ForwardsInv, remote.system = "unifi", remote.topic = "forwards", unifiEdit
  PROVE  "rules" \in DOMAIN remote' /\ DOMAIN remote'.rules = RuleIds
  BY DEF unifiEdit, Edit, ForwardsInv

\* A step that is not an edit screens what it leaves enabled.
LEMMA ForwardsStep ==
  ASSUME BaseInv, ForwardsInv, [ConnectorsNext]_callVars
  PROVE  ForwardsInv' /\ (remote.system = "unifi" /\ remote.topic = "forwards"
                           /\ edits' = edits => RulesScreened)
<1>1. SameKind
  BY BaseStep
<1>2. /\ remote'.system = remote.system
      /\ remote.system = "unifi" => remote'.topic = remote.topic
  BY <1>1 DEF SameKind, BaseInv
<1> SUFFICES ASSUME remote.system = "unifi"
             PROVE  ForwardsInv' /\ (remote.topic = "forwards" /\ edits' = edits => RulesScreened)
  BY <1>2 DEF ForwardsInv
<1>3. ASSUME NEW c \in Calls, CallStep(c)
      PROVE  ForwardsInv' /\ (remote.topic = "forwards" => RulesScreened)
  <2>1. UniFiStep(c)
    BY <1>3 DEF CallStep
  <2>2. ASSUME NEW d \in Calls, at'[d] = "have", args'[d].tool = "create_port_forward"
        PROVE  assertForwardAllowed(args'[d].rule)
    <3>1. CASE d = c
      BY <2>1, <2>2, <3>1, CreatesChecked
    <3>2. CASE d # c
      <4>1. at'[d] = at[d] /\ args'[d] = args[d]
        BY <1>3, <3>2, StepProper DEF Proper, Only
      <4> QED
        BY <2>2, <4>1 DEF ForwardsInv
    <3> QED
      BY <3>1, <3>2
  <2>3. remote.topic = "forwards" => RulesScreened
    BY <2>1, CallScreens
  <2> QED
    BY <1>2, <2>2, <2>3 DEF ForwardsInv, RulesScreened, assertForwardAllowed
<1>4. CASE Others
  <2>1. unifiEdit
    BY <1>4 DEF Others
  <2>2. /\ UNCHANGED <<args, at>>
        /\ remote.topic = "forwards" => "rules" \in DOMAIN remote' /\ DOMAIN remote'.rules = RuleIds
    BY <2>1, <1>4, OthersFrame, EditKeepsRules DEF BaseInv
  <2>3. edits' = edits => RulesScreened
    BY <2>1 DEF unifiEdit, Edit, BaseInv
  <2> QED
    BY <1>2, <2>2, <2>3 DEF ForwardsInv, assertForwardAllowed
<1>5. CASE UNCHANGED callVars
  <2>1. UNCHANGED <<remote, args, at>>
    BY <1>5 DEF callVars
  <2> QED
    BY <2>1, RulesKept DEF ForwardsInv, assertForwardAllowed
<1> QED
  BY <1>3, <1>4, <1>5 DEF ConnectorsNext, AllAnswered

\* A call past its first answer has passed the checks on its rule.
THEOREM ForwardsInvariant == ConnectorsSpec => [](BaseInv /\ ForwardsInv)
<1>1. ConnectorsInit => ForwardsInv
  <2> SUFFICES ASSUME ConnectorsInit, remote.system = "unifi"
               PROVE  ForwardsInv
    BY DEF ForwardsInv
  <2>1. UniFiInit
    <3>1. PelicanPanelInit \/ PelicanHostInit => FALSE
      BY PanelAssumption, HostAssumption DEF PelicanPanelInit, PelicanHostInit
    <3>2. CASE PortainerInit
      BY <3>2 DEF PortainerInit
    <3>4. CASE ProxmoxInit
      BY <3>4 DEF ProxmoxInit
    <3>3. HomeAssistantInit \/ UptimeKumaInit \/ SshInit => FALSE
      BY DEF HomeAssistantInit, UptimeKumaInit, SshInit
    <3> QED
      BY <3>1, <3>2, <3>3, <3>4 DEF ConnectorsInit
  <2> QED
    BY <2>1, UniFiAssumption DEF ConnectorsInit, CallInit, UniFiInit, ForwardsInv
<1>2. BaseInv /\ ForwardsInv /\ [ConnectorsNext]_callVars => ForwardsInv'
  BY ForwardsStep
<1>3. ConnectorsSpec => []BaseInv
  BY BaseInvariant
<1> QED
  BY <1>1, <1>2, <1>3, PTL DEF ConnectorsSpec

\* No call leaves a rule enabled that leads into the control plane.
THEOREM ForwardsAreScreened == ConnectorsSpec => ForwardsScreened
<1>1. ASSUME BaseInv, ForwardsInv, [ConnectorsNext]_callVars
      PROVE  [ remote.system = "unifi" /\ remote.topic = "forwards" /\ edits' = edits =>
                 \A r \in RuleIds :
                   LET new == remote'.rules[r] IN
                   new # remote.rules[r] /\ new # None /\ new.enabled => SafeForward(new)
             ]_callVars
  BY <1>1, ForwardsStep DEF RulesScreened
<1> QED
  BY <1>1, ForwardsInvariant, PTL DEF ConnectorsSpec, ForwardsScreened

-----------------------------------------------------------------------------
(* What is deleted or powered is what was named.                              *)

\* Steps that touch no stack.
LEMMA StacksKept ==
  ASSUME StacksOK, DOMAIN remote' = DOMAIN remote, remote'.stacks = remote.stacks,
         remote'.unused = remote.unused
  PROVE  StacksMove
  BY DEF StacksOK, StacksMove, StacksThere

\* The name of a stack outlives a change of its file and its environment.
LEMMA NameStays ==
  ASSUME NEW f, "name" \in DOMAIN f, NEW x, NEW y
  PROVE  /\ DOMAIN [f EXCEPT !.marked = x, !.env = y] = DOMAIN f
         /\ [f EXCEPT !.marked = x, !.env = y].name = f.name
<1> DEFINE g == [f EXCEPT !.marked = x]
<1>1. DOMAIN g = DOMAIN f /\ g.name = f.name
  OBVIOUS
<1>2. [f EXCEPT !.marked = x, !.env = y] = [g EXCEPT !.env = y]
  OBVIOUS
<1> HIDE DEF g
<1> QED
  BY <1>1, <1>2

\* Every handler moves the stacks as said.
LEMMA CallMovesStacks ==
  ASSUME FrameOK, StacksOK, NEW c \in Calls, PortainerStep(c)
  PROVE  StacksMove
<1>1. CASE createStack(c)
  <2>1. ASSUME NEW stack, "name" \in DOMAIN stack, NEW s \in remote.unused,
               remote' = [remote EXCEPT !.stacks[s] = stack, !.unused = @ \ {s}]
        PROVE  StacksMove
    BY <2>1 DEF StacksOK, StacksMove, StacksThere
  <2> DEFINE a == args[c]
             stack == [name |-> a.name, marked |-> TRUE, made |-> TRUE,
                       env |-> mergeEnv(<<>>, a.env, a.secret)]
  <2>2. "name" \in DOMAIN stack
    OBVIOUS
  <2> HIDE DEF stack
  <2>3. UNCHANGED remote \/ \E s \in remote.unused :
          remote' = [remote EXCEPT !.stacks[s] = stack, !.unused = @ \ {s}]
    BY <1>1 DEF createStack, Learn, Change, Reply, stack
  <2> QED
    BY <2>1, <2>2, <2>3, StacksKept
<1>2. CASE updateStack(c)
  <2>1. ASSUME NEW s \in StacksThere, NEW x, NEW y,
               remote' = [remote EXCEPT !.stacks[s].marked = x, !.stacks[s].env = y]
        PROVE  StacksMove
    <3>1. /\ DOMAIN remote' = DOMAIN remote /\ remote'.unused = remote.unused
          /\ DOMAIN remote'.stacks = StackIds
          /\ \A t \in StackIds \ {s} : remote'.stacks[t] = remote.stacks[t]
          /\ remote'.stacks[s] = [remote.stacks[s] EXCEPT !.marked = x, !.env = y]
      BY <2>1 DEF StacksOK, StacksThere
    <3>2. /\ DOMAIN remote'.stacks[s] = DOMAIN remote.stacks[s]
          /\ remote'.stacks[s].name = remote.stacks[s].name
      <4>1. "name" \in DOMAIN remote.stacks[s]
        BY <2>1 DEF StacksOK
      <4> QED
        BY <3>1, <4>1, NameStays
    <3> QED
      BY <2>1, <3>1, <3>2 DEF StacksOK, StacksMove, StacksThere
  <2>2. UNCHANGED remote \/ \E s \in StacksThere : \E x, y :
          remote' = [remote EXCEPT !.stacks[s].marked = x, !.stacks[s].env = y]
    BY <1>2 DEF updateStack, Learn, Change, Reply
  <2> QED
    BY <2>1, <2>2, StacksKept
<1>3. CASE removeStack(c)
  <2>1. ASSUME NEW i, remote' = [remote EXCEPT !.stacks[i] = None]
        PROVE  StacksMove
    BY <2>1 DEF StacksOK, StacksMove, StacksThere
  <2>2. UNCHANGED remote \/ \E i : remote' = [remote EXCEPT !.stacks[i] = None]
    BY <1>3 DEF removeStack, Learn, Change, Reply
  <2> QED
    BY <2>1, <2>2, StacksKept
<1>4. CASE containerAction(c) \/ exec(c)
  <2>1. \/ UNCHANGED remote
        \/ \E x : remote' = [remote EXCEPT !.container = x]
        \/ remote' = [remote EXCEPT !.ran = TRUE]
    BY <1>4 DEF containerAction, exec, Learn, Change, Reply
  <2> QED
    BY <2>1, StacksKept DEF StacksOK
<1>5. CASE \/ portainerReads(c) \/ containerLogs(c) \/ portainerSnapshot(c)
           \/ Breaks(c, PortainerTools) \/ Begin(c, PortainerCalls)
  <2>1. UNCHANGED remote
    BY <1>5 DEF portainerReads, containerLogs, portainerSnapshot, Breaks, Begin, Learn, Reply
  <2> QED
    BY <2>1, StacksKept
<1> QED
  BY <1>1, <1>2, <1>3, <1>4, <1>5 DEF PortainerStep

\* So do people.
LEMMA EditMovesStacks ==
  ASSUME StacksOK, portainerEdit
  PROVE  StacksMove
<1>1. ASSUME NEW s \in StacksThere, NEW x, remote' = [remote EXCEPT !.stacks[s].env = x]
      PROVE  StacksMove
  <2>1. /\ DOMAIN remote' = DOMAIN remote /\ remote'.unused = remote.unused
        /\ DOMAIN remote'.stacks = StackIds
        /\ \A t \in StackIds \ {s} : remote'.stacks[t] = remote.stacks[t]
        /\ remote'.stacks[s] = [remote.stacks[s] EXCEPT !.env = x]
    BY <1>1 DEF StacksOK, StacksThere
  <2>2. /\ DOMAIN remote'.stacks[s] = DOMAIN remote.stacks[s]
        /\ remote'.stacks[s].name = remote.stacks[s].name
    BY <1>1, <2>1 DEF StacksOK
  <2> QED
    BY <1>1, <2>1, <2>2 DEF StacksOK, StacksMove, StacksThere
<1>2. ASSUME NEW s \in StacksThere, remote' = [remote EXCEPT !.stacks[s] = None]
      PROVE  StacksMove
  BY <1>2 DEF StacksOK, StacksMove, StacksThere
<1> QED
  BY <1>1, <1>2 DEF portainerEdit, Edit

\* A removal that takes no step has still seen what it saw.
LEMMA RemovalKept ==
  ASSUME StacksOK, StacksMove, NEW d \in Calls, Removal(d),
         args'[d] = args[d], at'[d] = at[d], got'[d] = got[d]
  PROVE  Removal(d)'
  BY DEF StacksMove, Removal

\* One that does has looked by then.
LEMMA RemovalGoesOn ==
  ASSUME BaseInv, StacksOK, StacksMove, remote.system = "portainer",
         NEW c \in Calls, Removal(c), PortainerStep(c)
  PROVE  Removal(c)'
<1> FrameOK
  BY DEF BaseInv
<1>1. CASE removeStack(c)
  <2> DEFINE a == args[c]
  <2>1. a.tool = "remove_stack"
    BY <1>1 DEF removeStack, Does
  <2>2. ASSUME a.id \in StacksThere, Learn(c, "begin", remote.stacks[a.id], "have")
        PROVE  Removal(c)'
    <3>1. /\ UNCHANGED <<remote, args>> /\ got'[c] = remote.stacks[a.id] /\ at'[c] = "have"
      BY <2>2, LearnStep
    <3> QED
      BY <2>2, <3>1 DEF Removal, StacksOK, StacksThere
  <2>3. ASSUME NEW m, SameStack(got[c], a.name),
               Learn(c, "have", [got[c] EXCEPT !.marked = m], "file")
        PROVE  Removal(c)'
    <3>1. /\ UNCHANGED <<remote, args>> /\ got'[c] = [got[c] EXCEPT !.marked = m]
          /\ at[c] = "have" /\ at'[c] = "file"
      BY <2>3, LearnStep
    <3>2. "name" \in DOMAIN got[c]
      BY <2>1, <3>1 DEF Removal
    <3>3. "name" \in DOMAIN got'[c] /\ got'[c].name = got[c].name
      BY <3>1, <3>2
    <3> QED
      BY <2>1, <2>3, <3>1, <3>3 DEF Removal, SameStack
  <2>4. ASSUME NEW here, NEW said, Reply(c, here, said)
        PROVE  Removal(c)'
    BY <2>4, ReplyStep DEF Removal
  <2>5. ASSUME NEW new, Change(c, "file", new, {"stack"}, None, "put")
        PROVE  Removal(c)'
    BY <2>5, ChangeStep DEF Removal
  <2>6. CASE a.id \in StacksThere
    BY <1>1, <2>2, <2>3, <2>4, <2>5, <2>6 DEF removeStack
  <2>7. CASE at[c] = "put"
    BY <1>1, <2>3, <2>4, <2>5, <2>7 DEF removeStack, Learn
  <2> QED
    BY <1>1, <2>6, <2>7 DEF removeStack
<1>2. CASE Breaks(c, PortainerTools)
  BY <1>2, ReplyStep DEF Breaks, Removal
<1>3. CASE Begin(c, PortainerCalls)
  BY <1>3, BeginStep DEF Removal
<1>4. ASSUME at[c] # "idle", args[c].tool # "remove_stack"
      PROVE  Removal(c)'
  <2>1. args'[c] = args[c]
    BY <1>4, StepProper DEF Proper, CallStep
  <2> QED
    BY <1>4, <2>1 DEF Removal
<1>5. createStack(c) \/ updateStack(c) \/ containerAction(c) \/ exec(c) \/ containerLogs(c)
        \/ portainerSnapshot(c) => at[c] # "idle" /\ args[c].tool # "remove_stack"
  BY DEF createStack, updateStack, containerAction, exec, containerLogs, portainerSnapshot,
         Does, Running
<1>6. portainerReads(c) => at[c] # "idle" /\ args[c].tool # "remove_stack"
  BY DEF portainerReads, PortainerReadCalls, Running
<1> QED
  BY <1>1, <1>2, <1>3, <1>4, <1>5, <1>6 DEF PortainerStep

\* Whoever takes a step, the removals under way stay right about their stacks.
LEMMA StacksStep ==
  ASSUME BaseInv, StacksInv, [ConnectorsNext]_callVars
  PROVE  StacksInv'
<1>1. remote'.system = remote.system
  <2>1. SameKind
    BY BaseStep
  <2> QED
    BY <2>1 DEF SameKind, BaseInv
<1> SUFFICES ASSUME remote.system = "portainer" PROVE StacksInv'
  BY <1>1 DEF StacksInv
<1> StacksOK /\ \A d \in Calls : Removal(d)
  BY DEF StacksInv
<1>2. ASSUME NEW c \in Calls, CallStep(c) PROVE StacksInv'
  <2>1. PortainerStep(c)
    BY <1>2 DEF CallStep
  <2>2. StacksMove
    BY <2>1, CallMovesStacks DEF BaseInv
  <2>3. ASSUME NEW d \in Calls PROVE Removal(d)'
    <3>1. CASE d = c
      BY <2>1, <2>2, <3>1, RemovalGoesOn
    <3>2. CASE d # c
      BY <1>2, <2>2, <3>2, StepProper, RemovalKept DEF Proper, Only
    <3> QED
      BY <3>1, <3>2
  <2> QED
    BY <2>2, <2>3 DEF StacksInv, StacksMove
<1>3. CASE Others
  <2>1. StacksMove
    BY <1>3, EditMovesStacks DEF Others
  <2> QED
    BY <1>3, <2>1, OthersFrame, RemovalKept DEF StacksInv, StacksMove, BaseInv
<1>4. CASE UNCHANGED callVars
  <2>1. UNCHANGED <<remote, args, at, got>>
    BY <1>4 DEF callVars
  <2>2. StacksMove
    BY <2>1, StacksKept
  <2> QED
    BY <2>1, <2>2, RemovalKept DEF StacksInv, StacksMove
<1> QED
  BY <1>2, <1>3, <1>4 DEF ConnectorsNext, AllAnswered

\* A removal that has read its stack names the stack that the id was given to.
THEOREM StacksInvariant == ConnectorsSpec => [](BaseInv /\ StacksInv)
<1>1. ConnectorsInit => StacksInv
  <2> SUFFICES ASSUME ConnectorsInit, remote.system = "portainer"
               PROVE  StacksInv
    BY DEF StacksInv
  <2>1. PortainerInit
    <3>1. UniFiInit \/ PelicanPanelInit \/ PelicanHostInit => FALSE
      BY UniFiAssumption, PanelAssumption, HostAssumption
      DEF UniFiInit, PelicanPanelInit, PelicanHostInit
    <3>2. CASE ProxmoxInit
      BY <3>2 DEF ProxmoxInit
    <3>3. HomeAssistantInit \/ UptimeKumaInit \/ SshInit => FALSE
      BY DEF HomeAssistantInit, UptimeKumaInit, SshInit
    <3> QED
      BY <3>1, <3>2, <3>3 DEF ConnectorsInit
  <2>2. StacksOK
    BY <2>1 DEF PortainerInit, StacksOK, StacksThere
  <2>3. \A c \in Calls : at[c] = "idle"
    BY DEF ConnectorsInit, CallInit
  <2> QED
    BY <2>2, <2>3 DEF StacksInv, Removal
<1>2. BaseInv /\ StacksInv /\ [ConnectorsNext]_callVars => StacksInv'
  BY StacksStep
<1>3. ConnectorsSpec => []BaseInv
  BY BaseInvariant
<1> QED
  BY <1>1, <1>2, <1>3, PTL DEF ConnectorsSpec

\* Steps that hit nothing, by tool and by kind.
LEMMA HitsOther ==
  ASSUME NEW c \in Calls, args[c].tool \notin ByName
  PROVE  Hits(c)
  BY DEF Hits, ByName

\* It returns.
LEMMA HitsReply ==
  ASSUME FrameOK, NEW c \in Calls, NEW here, NEW said, Reply(c, here, said)
  PROVE  Hits(c)
  BY ReplyStep DEF Hits

\* It learns something before its request.
LEMMA HitsLearn ==
  ASSUME FrameOK, NEW c \in Calls, NEW here, NEW value, NEW there,
         there # "put", Learn(c, here, value, there)
  PROVE  Hits(c)
  BY LearnStep DEF Hits

\* It begins.
LEMMA HitsBegin ==
  ASSUME NEW c \in Calls, NEW accepted, Begin(c, accepted)
  PROVE  Hits(c)
  BY DEF Hits, Begin

\* What each connector hits. UniFi: the rule that was found by name and expectation.
LEMMA UniFiHits ==
  ASSUME FrameOK, NEW c \in Calls, UniFiStep(c)
  PROVE  Hits(c)
<1>1. CASE unifiNotReady(c)
  BY <1>1, HitsReply DEF unifiNotReady
<1>2. CASE setNetworkIpv6(c)
  BY <1>2, HitsOther DEF ByName, setNetworkIpv6, Does
<1>3. CASE setGatewayFeature(c)
  BY <1>3, HitsOther DEF ByName, setGatewayFeature, Does
<1>4. CASE setRemoteLogging(c)
  BY <1>4, HitsOther DEF ByName, setRemoteLogging, Does
<1>5. CASE createPortForward(c)
  BY <1>5, HitsOther DEF ByName, createPortForward, Does
<1>6. CASE updatePortForward(c)
  BY <1>6, HitsOther DEF ByName, updatePortForward, Does
<1>7. CASE deletePortForward(c)
  <2> DEFINE found == findPortForward(args[c].ref, got[c])
  <2>1. ASSUME NEW r \in found, Cardinality(found) = 1,
               \A x \in found : ExpectedForward(got[c][x], args[c].expect),
               Change(c, "have", [remote EXCEPT !.rules[r] = None, !.live = FALSE],
                      {"rule"}, None, "put")
        PROVE  Hits(c)
    <3>1. \A x \in Stored(remote.rules) \ Stored(remote'.rules) : x = r
      BY <2>1 DEF Change, Stored
    <3>2. args[c].ref \in {r, got[c][r].name}
      BY <2>1 DEF findPortForward
    <3>3. args[c].tool = "delete_port_forward"
      BY <1>7 DEF deletePortForward, Does
    <3> QED
      BY <2>1, <3>1, <3>2, <3>3 DEF Hits, ExpectedForward
  <2> QED
    BY <1>7, <2>1, HitsLearn, HitsReply DEF deletePortForward
<1>8. CASE forceProvision(c)
  BY <1>8, HitsOther DEF ByName, forceProvision, Does
<1>9. CASE unifiReads(c)
  BY <1>9, HitsOther DEF ByName, unifiReads, Does
<1>10. CASE unifiSnapshot(c)
  BY <1>10, HitsOther DEF ByName, unifiSnapshot, Does
<1>11. CASE Breaks(c, UniFiTools)
  BY <1>11, HitsReply DEF Breaks
<1>12. CASE Begin(c, UniFiCalls)
  BY <1>12, HitsBegin
<1> QED
  BY <1>1, <1>2, <1>3, <1>4, <1>5, <1>6, <1>7, <1>8, <1>9, <1>10, <1>11, <1>12 DEF UniFiStep

\* Portainer: the stack of that name.
LEMMA PortainerHits ==
  ASSUME FrameOK, StacksInv,
         remote.system = "portainer", NEW c \in Calls, PortainerStep(c)
  PROVE  Hits(c)
<1>1. CASE createStack(c)
  BY <1>1, HitsOther DEF ByName, createStack, Does
<1>2. CASE updateStack(c)
  BY <1>2, HitsOther DEF ByName, updateStack, Does
<1>3. CASE removeStack(c)
  <2>1. ASSUME NEW new, args[c].id \in StacksThere,
               Change(c, "file", new, {"stack"}, None, "put")
        PROVE  Hits(c)
    <3>1. at[c] = "file" /\ args[c].tool = "remove_stack"
      BY <1>3, <2>1 DEF removeStack, Does, Change
    <3>2. Removal(c)
      BY DEF StacksInv
    <3> QED
      BY <2>1, <3>1, <3>2 DEF Hits, Removal, StacksThere
  <2>2. ASSUME NEW new, at[c] = "put", Change(c, "file", new, {"stack"}, None, "put")
        PROVE  FALSE
    BY <2>2 DEF Change
  <2> QED
    BY <1>3, <2>1, <2>2, HitsLearn, HitsReply DEF removeStack
<1>4. CASE containerAction(c)
  BY <1>4, HitsOther DEF ByName, containerAction, Does
<1>5. CASE exec(c)
  BY <1>5, HitsOther DEF ByName, exec, Does
<1>6. CASE portainerReads(c)
  BY <1>6, HitsOther DEF ByName, portainerReads, Does, PortainerReadCalls
<1>7. CASE containerLogs(c)
  BY <1>7, HitsOther DEF ByName, containerLogs, Does
<1>8. CASE portainerSnapshot(c)
  BY <1>8, HitsOther DEF ByName, portainerSnapshot, Does
<1>9. CASE Breaks(c, PortainerTools)
  BY <1>9, HitsReply DEF Breaks
<1>10. CASE Begin(c, PortainerCalls)
  BY <1>10, HitsBegin
<1> QED
  BY <1>1, <1>2, <1>3, <1>4, <1>5, <1>6, <1>7, <1>8, <1>9, <1>10 DEF PortainerStep

\* Proxmox: the guest of that name on that node.
LEMMA ProxmoxHits ==
  ASSUME FrameOK, NEW c \in Calls, ProxmoxStep(c)
  PROVE  Hits(c)
<1>1. CASE proxmoxNotReady(c)
  BY <1>1, HitsReply DEF proxmoxNotReady
<1>2. CASE guestPower(c)
  <2>1. ASSUME NEW new, SameGuest(got[c], args[c]), Change(c, "have", new, {"power"}, None, "put")
        PROVE  Hits(c)
    <3>1. args[c].tool = "guest_power"
      BY <1>2 DEF guestPower, Does
    <3> QED
      BY <2>1, <3>1 DEF Hits, SameGuest
  <2> QED
    BY <1>2, <2>1, HitsLearn, HitsReply DEF guestPower
<1>3. CASE proxmoxTimesOut(c)
  BY <1>3, HitsReply DEF proxmoxTimesOut
<1>4. CASE proxmoxReads(c)
  BY <1>4, HitsOther DEF ByName, proxmoxReads, Does, ProxmoxReadCalls
<1>5. CASE proxmoxSnapshot(c)
  BY <1>5, HitsOther DEF ByName, proxmoxSnapshot, Does
<1>6. CASE Breaks(c, ProxmoxTools)
  BY <1>6, HitsReply DEF Breaks
<1>7. CASE Begin(c, GuestCalls) \/ Begin(c, ProxmoxReadCalls)
  BY <1>7, HitsBegin
<1> QED
  BY <1>1, <1>2, <1>3, <1>4, <1>5, <1>6, <1>7 DEF ProxmoxStep

\* Home Assistant has no such tool.
LEMMA HomeAssistantHits ==
  ASSUME FrameOK, NEW c \in Calls, HomeAssistantStep(c)
  PROVE  Hits(c)
<1>1. CASE getRaw(c)
  BY <1>1, HitsOther DEF ByName, getRaw, Does
<1>2. CASE statesOrLogbook(c)
  BY <1>2, HitsOther DEF ByName, statesOrLogbook, Does
<1>3. CASE callService(c)
  BY <1>3, HitsOther DEF ByName, callService, Does
<1>4. CASE serviceAnswered(c)
  BY <1>4, HitsReply DEF serviceAnswered
<1>5. CASE homeAssistantTimesOut(c)
  BY <1>5, HitsReply DEF homeAssistantTimesOut
<1>6. CASE haSnapshot(c)
  BY <1>6, HitsOther DEF ByName, haSnapshot, Does
<1>7. CASE haSnapshotDone(c)
  BY <1>7, HitsOther DEF ByName, haSnapshotDone, Does
<1>8. CASE Breaks(c, HomeAssistantTools)
  BY <1>8, HitsReply DEF Breaks
<1>9. CASE Begin(c, HomeAssistantCalls)
  BY <1>9, HitsBegin
<1> QED
  BY <1>1, <1>2, <1>3, <1>4, <1>5, <1>6, <1>7, <1>8, <1>9 DEF HomeAssistantStep

\* Pelican's panel: the schedule of that name.
LEMMA PelicanPanelHits ==
  ASSUME FrameOK, NEW c \in Calls, PelicanPanelStep(c)
  PROVE  Hits(c)
<1>1. CASE panelNotReady(c)
  BY <1>1, HitsReply DEF panelNotReady
<1>2. CASE updateServerBuild(c)
  BY <1>2, HitsOther DEF ByName, updateServerBuild, Does, Ready
<1>3. CASE updateServerStartup(c)
  BY <1>3, HitsOther DEF ByName, updateServerStartup, Does, Ready
<1>4. CASE updateStartupVariables(c)
  BY <1>4, HitsOther DEF ByName, updateStartupVariables, Does, Ready
<1>5. CASE createSchedule(c)
  BY <1>5, HitsOther DEF ByName, createSchedule, Does, Ready
<1>6. CASE updateSchedule(c)
  BY <1>6, HitsOther DEF ByName, updateSchedule, Does, Ready
<1>7. CASE deleteSchedule(c)
  <2>1. ASSUME NEW new, SameSchedule(got[c], args[c].name),
               Change(c, "have", new, {"schedule"}, None, "put")
        PROVE  Hits(c)
    <3>1. args[c].tool = "delete_schedule"
      BY <1>7 DEF deleteSchedule, Ready, Does
    <3> QED
      BY <2>1, <3>1 DEF Hits, SameSchedule
  <2> QED
    BY <1>7, <2>1, HitsLearn, HitsReply DEF deleteSchedule
<1>8. CASE createAllocations(c)
  BY <1>8, HitsOther DEF ByName, createAllocations, Does, Ready
<1>9. CASE assignAllocation(c)
  BY <1>9, HitsOther DEF ByName, assignAllocation, Does, Ready
<1>10. CASE createServer(c)
  BY <1>10, HitsOther DEF ByName, createServer, Does, Ready
<1>11. CASE importEgg(c)
  BY <1>11, HitsOther DEF ByName, importEgg, Does, Ready
<1>12. CASE fileOperation(c)
  BY <1>12, HitsOther DEF ByName, fileOperation, Does, FileOps, Ready
<1>13. CASE pullFile(c)
  BY <1>13, HitsOther DEF ByName, pullFile, Does, Ready
<1>14. CASE waitForFile(c)
  BY <1>14, HitsOther DEF ByName, waitForFile, Does, Ready
<1>15. CASE readFile(c)
  BY <1>15, HitsOther DEF ByName, readFile, Does, Ready
<1>16. CASE list(c)
  BY <1>16, HitsOther DEF ByName, list, Does, PanelReadCalls, Ready
<1>17. CASE pelicanSnapshot(c)
  BY <1>17, HitsOther DEF ByName, pelicanSnapshot, Does, Ready
<1>18. CASE Breaks(c, PanelTools)
  BY <1>18, HitsReply DEF Breaks
<1>19. CASE Begin(c, PanelCalls)
  BY <1>19, HitsBegin
<1> QED
  BY <1>1, <1>2, <1>3, <1>4, <1>5, <1>6, <1>7, <1>8, <1>9, <1>10, <1>11, <1>12, <1>13, <1>14,
     <1>15, <1>16, <1>17, <1>18, <1>19
     DEF PelicanPanelStep

\* The host has no such tool.
LEMMA PelicanHostHits ==
  ASSUME FrameOK, NEW c \in Calls, PelicanHostStep(c)
  PROVE  Hits(c)
<1>1. CASE panelHost(c)
  BY <1>1, HitsReply DEF panelHost
<1>2. CASE panelUpgrade(c)
  BY <1>2, HitsOther DEF ByName, panelUpgrade, Does
<1>3. CASE panelPrepareRuntime(c)
  BY <1>3, HitsOther DEF ByName, panelPrepareRuntime, Does
<1>4. CASE panelPatchRuntime(c)
  BY <1>4, HitsOther DEF ByName, panelPatchRuntime, Does
<1>5. CASE wingsUpdate(c)
  BY <1>5, HitsOther DEF ByName, wingsUpdate, Does
<1>6. CASE helperAnswers(c)
  BY <1>6, HitsReply DEF helperAnswers
<1>7. CASE panelVersion(c)
  BY <1>7, HitsOther DEF ByName, panelVersion, Does
<1>8. CASE Breaks(c, HostTools)
  BY <1>8, HitsReply DEF Breaks
<1>9. CASE Begin(c, HostCalls)
  BY <1>9, HitsBegin
<1> QED
  BY <1>1, <1>2, <1>3, <1>4, <1>5, <1>6, <1>7, <1>8, <1>9 DEF PelicanHostStep

\* Uptime Kuma has no such tool.
LEMMA UptimeKumaHits ==
  ASSUME FrameOK, NEW c \in Calls, UptimeKumaStep(c)
  PROVE  Hits(c)
<1>1. CASE pauseMonitor(c)
  BY <1>1, HitsOther DEF ByName, pauseMonitor, Does
<1>2. CASE resumeMonitor(c)
  BY <1>2, HitsOther DEF ByName, resumeMonitor, Does
<1>3. CASE maintenance(c)
  BY <1>3, HitsOther DEF ByName, maintenance, Does
<1>4. CASE endMaintenance(c)
  BY <1>4, HitsOther DEF ByName, endMaintenance, Does
<1>5. CASE kumaReads(c)
  BY <1>5, HitsOther DEF ByName, kumaReads, Does, KumaReadCalls
<1>6. CASE whiteGlovePause(c)
  BY <1>6, HitsOther DEF ByName, whiteGlovePause, Does
<1>7. CASE powerAction(c)
  BY <1>7, HitsOther DEF ByName, powerAction, Does
<1>8. CASE waitForPowerState(c)
  BY <1>8, HitsOther DEF ByName, waitForPowerState, Does
<1>9. CASE safeResume(c)
  BY <1>9, HitsOther DEF ByName, safeResume, Does
<1>10. CASE SessionFails(c)
  BY <1>10, HitsReply DEF SessionFails
<1>11. CASE Begin(c, UptimeKumaCalls)
  BY <1>11, HitsBegin
<1> QED
  BY <1>1, <1>2, <1>3, <1>4, <1>5, <1>6, <1>7, <1>8, <1>9, <1>10, <1>11 DEF UptimeKumaStep

\* Nor has SSH.
LEMMA SshHits ==
  ASSUME FrameOK, NEW c \in Calls, SshStep(c)
  PROVE  Hits(c)
<1>1. CASE execSsh(c)
  BY <1>1, HitsOther DEF ByName, execSsh, Does, SshTools, SshCalls
<1>2. CASE sshSnapshot(c)
  BY <1>2, HitsOther DEF ByName, sshSnapshot, Does
<1>3. CASE Breaks(c, SshTools)
  BY <1>3, HitsReply DEF Breaks
<1>4. CASE Begin(c, SshCalls)
  BY <1>4, HitsBegin
<1> QED
  BY <1>1, <1>2, <1>3, <1>4 DEF SshStep

\* A delete or a power action hits what the caller described, or what was changed since.
THEOREM OnlyTheNamedIsHit == ConnectorsSpec => OnlyWhatWasNamed
<1>1. ASSUME BaseInv, StacksInv, [ConnectorsNext]_callVars, NEW c \in Calls
      PROVE  Hits(c)
  <2>1. ASSUME CallStep(c) PROVE Hits(c)
    BY <1>1, <2>1, UniFiHits, PortainerHits, ProxmoxHits, HomeAssistantHits, UptimeKumaHits,
       PelicanPanelHits, PelicanHostHits, SshHits DEF BaseInv, CallStep
  <2>2. ASSUME at'[c] = at[c] PROVE Hits(c)
    BY <2>2 DEF Hits
  <2>3. ASSUME NEW d \in Calls \ {c}, CallStep(d) PROVE at'[c] = at[c]
    BY <1>1, <2>3, StepProper DEF Proper, Only
  <2>4. Others \/ UNCHANGED callVars => at' = at
    BY <1>1, OthersFrame DEF BaseInv, callVars
  <2> QED
    BY <1>1, <2>1, <2>2, <2>3, <2>4 DEF ConnectorsNext, AllAnswered
<1>2. BaseInv /\ StacksInv /\ [ConnectorsNext]_callVars =>
        [\A c \in Calls : Hits(c)]_callVars
  BY <1>1, SMTT(20)
<1>3. [\A c \in Calls : Hits(c)]_callVars =>
        [ \A c \in Calls :
            at[c] \in {"have", "file"} /\ at'[c] = "put" =>
              LET a == args[c] IN
              /\ a.tool = "delete_port_forward" =>
                   \A r \in Stored(remote.rules) \ Stored(remote'.rules) :
                     \/ remote.rules[r] # got[c][r]
                     \/ /\ remote.rules[r].wan = a.expect.wan
                        /\ remote.rules[r].fwd = a.expect.fwd
                        /\ a.ref \in {r, remote.rules[r].name}
              /\ a.tool = "remove_stack" =>
                   remote.stacks[a.id].name = a.name
              /\ a.tool = "guest_power" =>
                   \/ remote.guests[a.vmid] # got[c]
                   \/ /\ remote.guests[a.vmid].name = a.name
                      /\ remote.guests[a.vmid].node = a.node
              /\ a.tool = "delete_schedule" =>
                   \/ remote.schedules[a.id] # got[c]
                   \/ remote.schedules[a.id].name = a.name ]_callVars
  BY DEF Hits
<1> QED
  BY <1>2, <1>3, StacksInvariant, PTL DEF ConnectorsSpec, OnlyWhatWasNamed

-----------------------------------------------------------------------------
(* A caller who is told "ok" can rely on it.                                  *)

\* A step of Home Assistant keeps it.
LEMMA ServiceStep ==
  ASSUME FrameOK, NEW c \in Calls, HomeAssistantStep(c), ServiceCalled(c)
  PROVE  ServiceCalled(c)'
<1>1. ASSUME NEW here, NEW value, NEW there, there # "served", Learn(c, here, value, there)
      PROVE  ServiceCalled(c)'
  BY <1>1, LearnStep DEF ServiceCalled
<1>2. ASSUME NEW here, NEW said, Reply(c, here, said)
      PROVE  ServiceCalled(c)'
  BY <1>2, ReplyStep DEF ServiceCalled
<1>3. ASSUME NEW here, NEW new, NEW effect, NEW there,
             there # "served" \/ effect # {},
             Change(c, here, new, effect, None, there)
      PROVE  ServiceCalled(c)'
  BY <1>3, ChangeStep DEF ServiceCalled
<1>4. ASSUME Move(c, "begin", "elsewhere")
      PROVE  ServiceCalled(c)'
  BY <1>4, MoveStep DEF ServiceCalled
<1>5. CASE getRaw(c) \/ statesOrLogbook(c)
  BY <1>1, <1>2, <1>3, <1>5 DEF getRaw, statesOrLogbook
<1>6. CASE callService(c) \/ serviceAnswered(c)
  BY <1>2, <1>3, <1>4, <1>6 DEF callService, serviceAnswered
<1>7. CASE homeAssistantTimesOut(c) \/ haSnapshotDone(c) \/ Breaks(c, HomeAssistantTools)
  BY <1>2, <1>7 DEF homeAssistantTimesOut, haSnapshotDone, Breaks
<1>8. CASE haSnapshot(c)
  BY <1>1, <1>8 DEF haSnapshot
<1>9. CASE Begin(c, HomeAssistantCalls)
  BY <1>9, BeginStep DEF ServiceCalled
<1> QED
  BY <1>5, <1>6, <1>7, <1>8, <1>9 DEF HomeAssistantStep

\* A step of the panel's handlers keeps it.
LEMMA VariablesStep ==
  ASSUME FrameOK, NEW c \in Calls, PelicanPanelStep(c), VariablesSet(c)
  PROVE  VariablesSet(c)'
<1>1. CASE updateStartupVariables(c)
  <2>1. ASSUME Learn(c, "begin", {}, "next")
        PROVE  VariablesSet(c)'
    BY <1>1, <2>1, LearnStep, ZenonT(40) DEF VariablesSet, updateStartupVariables, Ready, Does
  <2>2. ASSUME NEW v \in DOMAIN args[c].set, at[c] = "next",
               got' = Now(got, c, got[c] \cup {v}),
               touched' = Now(touched, c, touched[c] \cup {v}),
               UNCHANGED <<args, at>>
        PROVE  VariablesSet(c)'
    <3>1. got'[c] = got[c] \cup {v} /\ touched'[c] = touched[c] \cup {v}
      BY <2>2, NowEntry DEF FrameOK
    <3> QED
      BY <2>2, <3>1 DEF VariablesSet
  <2>3. ASSUME NEW here, NEW said, Reply(c, here, said)
        PROVE  VariablesSet(c)'
    BY <2>3, ReplyStep DEF VariablesSet
  <2> QED
    BY <1>1, <2>1, <2>2, <2>3 DEF updateStartupVariables
<1>2. CASE panelNotReady(c) \/ Breaks(c, PanelTools)
  BY <1>2, ReplyStep DEF panelNotReady, Breaks, VariablesSet
<1>3. CASE Begin(c, PanelCalls)
  BY <1>3, BeginStep DEF VariablesSet
<1>4. ASSUME at[c] # "idle", args[c].tool # "update_startup_variables"
      PROVE  VariablesSet(c)'
  <2>1. Proper(c, PanelCalls)
    BY PelicanPanelFrame
  <2> QED
    BY <1>4, <2>1 DEF Proper, VariablesSet
<1>5. CASE updateServerBuild(c) \/ updateServerStartup(c) \/ createSchedule(c)
           \/ updateSchedule(c) \/ deleteSchedule(c)
  BY <1>4, <1>5 DEF updateServerBuild, updateServerStartup, createSchedule, updateSchedule,
                    deleteSchedule, Ready, Does, Running
<1>6. CASE createAllocations(c) \/ assignAllocation(c) \/ createServer(c) \/ importEgg(c)
  BY <1>4, <1>6 DEF createAllocations, assignAllocation, createServer, importEgg, Ready, Does,
                    Running
<1>7. CASE fileOperation(c) \/ pullFile(c) \/ waitForFile(c) \/ readFile(c)
  BY <1>4, <1>7 DEF fileOperation, FileOps, pullFile, waitForFile, readFile, Ready, Does,
                    Running
<1>8. CASE list(c) \/ pelicanSnapshot(c)
  BY <1>4, <1>8 DEF list, PanelReadCalls, pelicanSnapshot, Ready, Does, Running
<1> QED
  BY <1>1, <1>2, <1>3, <1>5, <1>6, <1>7, <1>8 DEF PelicanPanelStep

\* With one call at a time, whoever takes a step is the one under way.
LEMMA OnlyOne ==
  ASSUME FrameOK, NEW c \in Calls, NEW accepted, Proper(c, accepted),
         at[c] = "idle" => Alone(c),
         \A x, y \in Calls : at[x] # "idle" /\ at[y] # "idle" => x = y
  PROVE  /\ \A x, y \in Calls : at'[x] # "idle" /\ at'[y] # "idle" => x = y
         /\ \A d \in Calls \ {c} : at'[d] = "idle"
<1>1. \A d \in Calls \ {c} : at[d] = "idle"
  BY DEF Alone
<1> QED
  BY <1>1 DEF Proper, Only

\* A step of the panel's handlers keeps it.
LEMMA FilesStep ==
  ASSUME FrameOK, remote.system = "pelican", remote.topic = "files", FilesInv,
         NEW c \in Calls, PelicanPanelStep(c), at[c] # "idle" => args[c] \in FileCalls
  PROVE  FilesOK' /\ Download(c)'
<1> FilesOK /\ Download(c)
  BY DEF FilesInv
<1>1. ASSUME DOMAIN remote' = DOMAIN remote, remote'.file = remote.file,
             remote'.upstream = remote.upstream, at'[c] # "poll"
      PROVE  FilesOK' /\ Download(c)'
  BY <1>1 DEF FilesOK, Download
<1>2. ASSUME NEW here, NEW said, Reply(c, here, said)
      PROVE  FilesOK' /\ Download(c)'
  BY <1>1, <1>2, ReplyStep
<1>3. CASE pullFile(c)
  <2> DEFINE size == args[c].pull.size
  <2>1. args[c].tool = "pull_file" /\ (at[c] # "idle" => size \in Nat)
    BY <1>3, PanelAssumption DEF pullFile, Ready, Does, FileCalls, FileOps
  <2>2. ASSUME size \in Nat, NEW n \in 0..size, NEW settled \in BOOLEAN, settled => n = size,
               remote' = [remote EXCEPT !.file = [size |-> n], !.upstream = size],
               got' = Now(got, c, [settled |-> settled, last |-> None, stable |-> 0])
        PROVE  FilesOK' /\ Download(c)'
    <3>1. got'[c] = [settled |-> settled, last |-> None, stable |-> 0]
      BY <2>2, NowEntry DEF FrameOK
    <3>2. remote'.file = [size |-> n] /\ remote'.upstream = size /\ DOMAIN remote' = DOMAIN remote
      BY <2>2 DEF FilesOK
    <3> QED
      BY <2>2, <3>1, <3>2 DEF FilesOK, Download
  <2> HIDE DEF size
  <2>3. ASSUME at[c] = "begin",
               remote' = [remote EXCEPT !.file = [size |-> size], !.upstream = size],
               got' = Now(got, c, [settled |-> TRUE, last |-> None, stable |-> 0])
        PROVE  FilesOK' /\ Download(c)'
    <3>1. size \in Nat /\ size \in 0..size
      BY <2>1, <2>3
    <3> QED
      BY <2>2, <2>3, <3>1
  <2>4. ASSUME at[c] = "begin",
               remote' = [remote EXCEPT !.file = [size |-> 0], !.upstream = size],
               got' = Now(got, c, [settled |-> FALSE, last |-> None, stable |-> 0])
        PROVE  FilesOK' /\ Download(c)'
    <3>1. size \in Nat /\ 0 \in 0..size
      BY <2>1, <2>4
    <3> QED
      BY <2>2, <2>4, <3>1
  <2> QED
    BY <1>2, <1>3, <2>3, <2>4 DEF pullFile, size
<1>4. CASE waitForFile(c)
  <2>1. ASSUME NEW x, NEW y,
               Learn(c, "poll", [got[c] EXCEPT !.last = x, !.stable = y], "poll")
        PROVE  FilesOK' /\ Download(c)'
    <3>1. /\ UNCHANGED <<remote, args>> /\ at[c] = "poll"
          /\ got'[c] = [got[c] EXCEPT !.last = x, !.stable = y]
      BY <2>1, LearnStep
    <3>2. /\ DOMAIN got'[c] = DOMAIN got[c]
          /\ args[c].tool = "pull_file" => got'[c].settled = got[c].settled
      BY <3>1 DEF Download
    <3> QED
      BY <3>1, <3>2 DEF FilesOK, Download
  <2> QED
    BY <1>2, <1>4, <2>1 DEF waitForFile
<1>5. CASE fileOperation(c)
  BY <1>1, <1>2, <1>5, ChangeStep DEF fileOperation
<1>6. CASE panelNotReady(c) \/ Breaks(c, PanelTools)
  BY <1>2, <1>6 DEF panelNotReady, Breaks
<1>7. CASE Begin(c, PanelCalls)
  BY <1>1, <1>7, BeginStep
<1>8. ~updateServerBuild(c) /\ ~updateServerStartup(c) /\ ~createSchedule(c)
      /\ ~updateSchedule(c) /\ ~deleteSchedule(c)
  BY DEF updateServerBuild, updateServerStartup, createSchedule, updateSchedule,
         deleteSchedule, Ready, Does, Running, FileCalls, FileOps
<1>9. ~createAllocations(c) /\ ~assignAllocation(c) /\ ~createServer(c) /\ ~importEgg(c)
      /\ ~updateStartupVariables(c)
  BY DEF createAllocations, assignAllocation, createServer, importEgg, updateStartupVariables,
         Ready, Does, Running, FileCalls, FileOps
<1>10. ~readFile(c) /\ ~list(c) /\ ~pelicanSnapshot(c)
  BY DEF readFile, list, pelicanSnapshot, PanelReadCalls, Ready, Does, Running, FileCalls,
         FileOps
<1> QED
  BY <1>3, <1>4, <1>5, <1>6, <1>7, <1>8, <1>9, <1>10 DEF PelicanPanelStep

\* A step of the host's handlers keeps it, and no other call's process.
LEMMA UpgradeStep ==
  ASSUME FrameOK, RunsOK, NEW c \in Calls, Upgrade(c), PelicanHostStep(c)
  PROVE  /\ RunsOK' /\ Upgrade(c)'
         /\ \A d \in Calls \ {c} : remote'.run[d] = remote.run[d]
<1> DEFINE Goal == /\ RunsOK' /\ Upgrade(c)'
                   /\ \A d \in Calls \ {c} : remote'.run[d] = remote.run[d]
<1> SUFFICES Goal
  OBVIOUS
<1>1. ASSUME NEW job, NEW why, NEW here, helperCommand(c, here, job, why),
             args[c].tool = "panel_upgrade" => job = "panel-upgrade"
      PROVE  Goal
  <2>1. /\ remote' = [remote EXCEPT !.run[c] = [job |-> job, n |-> 0, state |-> "runs"]]
        /\ args' = args
    BY <1>1, ChangeStep DEF helperCommand
  <2> QED
    BY <1>1, <2>1 DEF RunsOK, Upgrade
<1>2. ASSUME UNCHANGED remote, at'[c] # "helper"
      PROVE  Goal
  BY <1>2 DEF RunsOK, Upgrade
<1>3. ASSUME NEW here, NEW said, Reply(c, here, said)
      PROVE  Goal
  BY <1>2, <1>3, ReplyStep
<1>4. ASSUME NEW here, NEW value, NEW there, there # "helper", Learn(c, here, value, there)
      PROVE  Goal
  BY <1>2, <1>4, LearnStep
<1>5. ASSUME NEW here, NEW there, there # "helper", Move(c, here, there)
      PROVE  Goal
  BY <1>2, <1>5, MoveStep
<1> HIDE DEF Goal
<1>6. CASE panelUpgrade(c)
  BY <1>1, <1>3, <1>4, <1>5, <1>6 DEF panelUpgrade
<1>7. CASE panelPrepareRuntime(c)
  BY <1>1, <1>3, <1>4, <1>5, <1>7 DEF panelPrepareRuntime, Does
<1>8. CASE panelPatchRuntime(c)
  BY <1>1, <1>3, <1>4, <1>8 DEF panelPatchRuntime, Does
<1>9. CASE wingsUpdate(c)
  BY <1>1, <1>3, <1>5, <1>9 DEF wingsUpdate, Does
<1>10. CASE panelHost(c) \/ helperAnswers(c) \/ Breaks(c, HostTools)
  BY <1>3, <1>10 DEF panelHost, helperAnswers, Breaks
<1>11. CASE panelVersion(c)
  BY <1>3, <1>4, <1>11 DEF panelVersion
<1>12. CASE Begin(c, HostCalls)
  BY <1>2, <1>12, BeginStep
<1> QED
  BY <1>6, <1>7, <1>8, <1>9, <1>10, <1>11, <1>12 DEF PelicanHostStep

\* So does a step of the helper.
LEMMA HelperStep ==
  ASSUME RunsOK, NEW c \in Calls, helperRuns(c), NEW d \in Calls, Upgrade(d)
  PROVE  RunsOK' /\ Upgrade(d)'
<1>1. ASSUME NEW new, NEW run, helperTurns(c, new, run), "run" \in DOMAIN new,
             new.run = remote.run
      PROVE  /\ RunsOK' /\ UNCHANGED <<args, at>> /\ remote'.run[c] = run
             /\ \A x \in Calls \ {c} : remote'.run[x] = remote.run[x]
  BY <1>1 DEF helperTurns, RunsOK
<1>2. CASE cmdPanelUpgrade(c)
  <2> DEFINE run == remote.run[c]
             last == Len(PANEL_UPGRADE_STEP_NAMES)
             more == [run EXCEPT !.n = @ + 1, !.state = IF run.n + 1 = last THEN "done" ELSE "runs"]
  <2>1. "run" \in DOMAIN step(run.n + 1) /\ step(run.n + 1).run = remote.run
    BY DEF step, RunsOK
  <2>2. ASSUME NEW new, "run" \in DOMAIN new, new.run = remote.run, helperTurns(c, new, more)
        PROVE  RunsOK' /\ Upgrade(d)'
    <3>2. CASE d # c
      BY <1>1, <2>2, <3>2 DEF Upgrade
    <3>3. CASE d = c
      <4>1. /\ RunsOK' /\ UNCHANGED <<args, at>> /\ remote'.run[c] = more
        BY <1>1, <2>2
      <4>2. ASSUME args[c].tool = "panel_upgrade", at[c] = "helper"
            PROVE  /\ DOMAIN more = {"job", "n", "state"} /\ more.job = "panel-upgrade"
                   /\ more.state = "done" => more.n = last
        <5>1. DOMAIN run = {"job", "n", "state"} /\ run.job = "panel-upgrade"
          BY <3>3, <4>2 DEF Upgrade
        <5> QED
          BY <5>1
      <4> HIDE DEF more
      <4> QED
        BY <3>3, <4>1, <4>2 DEF Upgrade
    <3> QED
      BY <3>2, <3>3
  <2>3. ASSUME NEW s \in {"refused", "failed"}, helperTurns(c, remote, [run EXCEPT !.state = s])
        PROVE  RunsOK' /\ Upgrade(d)'
    <3>1. "run" \in DOMAIN remote /\ remote.run = remote.run
      BY DEF RunsOK
    <3> QED
      BY <1>1, <2>3, <3>1 DEF Upgrade
  <2> HIDE DEF more
  <2> QED
    BY <1>2, <2>1, <2>2, <2>3 DEF cmdPanelUpgrade, more
<1>3. ASSUME NEW new, NEW run, helperTurns(c, new, run), "run" \in DOMAIN new,
             new.run = remote.run, remote.run[c].job # "panel-upgrade"
      PROVE  RunsOK' /\ Upgrade(d)'
  <2>1. CASE d = c
    <3>1. args[d].tool = "panel_upgrade" => at[d] # "helper"
      BY <1>3, <2>1 DEF Upgrade
    <3> QED
      BY <1>1, <1>3, <3>1 DEF Upgrade
  <2>2. CASE d # c
    BY <1>1, <1>3, <2>2 DEF Upgrade
  <2> QED
    BY <2>1, <2>2
<1>4. CASE cmdPhpPrepare(c)
  <2>1. ASSUME NEW new, NEW run, "run" \in DOMAIN new, new.run = remote.run,
               helperTurns(c, new, run)
        PROVE  RunsOK' /\ Upgrade(d)'
    BY <1>3, <1>4, <2>1 DEF cmdPhpPrepare
  <2>2. "run" \in DOMAIN remote
    BY DEF RunsOK
  <2>3. \A m : "run" \in DOMAIN SocketSwitched(m) /\ SocketSwitched(m).run = remote.run
    BY <2>2 DEF SocketSwitched
  <2>4. "run" \in DOMAIN SocketRestored /\ SocketRestored.run = remote.run
    BY <2>2 DEF SocketRestored
  <2>5. \A v : LET new == [remote EXCEPT !.php = v]
              IN "run" \in DOMAIN new /\ new.run = remote.run
    BY <2>2
  <2>6. \E new, run : helperTurns(c, new, run) /\ "run" \in DOMAIN new /\ new.run = remote.run
    <3> DEFINE v == <<8, args[c].minor, 2>>
    <3>1. ASSUME NEW new, "run" \in DOMAIN new, new.run = remote.run,
                 \E run : helperTurns(c, new, run)
          PROVE  \E m, run : helperTurns(c, m, run) /\ "run" \in DOMAIN m /\ m.run = remote.run
      BY <3>1
    <3>2. \/ \E run : helperTurns(c, remote, run)
          \/ \E run : helperTurns(c, [remote EXCEPT !.php = v], run)
          \/ \E m, run : helperTurns(c, SocketSwitched(m), run)
          \/ \E run : helperTurns(c, SocketRestored, run)
      BY <1>4 DEF cmdPhpPrepare
    <3> HIDE DEF v
    <3> QED
      BY <2>2, <2>3, <2>4, <2>5, <3>1, <3>2
  <2> QED
    BY <2>1, <2>6
<1>5. CASE cmdWingsUpdate(c)
  <2>1. ASSUME NEW x, NEW y, NEW run, NEW new \in {remote, [remote EXCEPT !.wings = x, !.prev = y]},
               helperTurns(c, new, run)
        PROVE  RunsOK' /\ Upgrade(d)'
    <3>1. "run" \in DOMAIN new /\ new.run = remote.run
      BY <2>1 DEF RunsOK
    <3>2. remote.run[c].job # "panel-upgrade"
      BY <1>5 DEF cmdWingsUpdate
    <3> QED
      BY <1>3, <2>1, <3>1, <3>2
  <2> QED
    BY <1>5, <2>1 DEF cmdWingsUpdate
<1> QED
  BY <1>2, <1>4, <1>5 DEF helperRuns

\* What two sequences one after the other are.
LEMMA Joined ==
  ASSUME NEW S, NEW a \in Seq(S), NEW b \in Seq(S)
  PROVE  /\ a \o b \in Seq(S) /\ Len(a \o b) = Len(a) + Len(b)
         /\ Len(a) \in Nat /\ Len(b) \in Nat
         /\ \A i \in 1..Len(a) + Len(b) :
              (a \o b)[i] = IF i <= Len(a) THEN a[i] ELSE b[i - Len(a)]
         /\ a = <<>> => a \o b = b
         /\ b = <<>> => a \o b = a
  OBVIOUS

\* What a signal has a server do is in pace.
LEMMA WillPassPaced ==
  ASSUME NEW a, NEW signal
  PROVE  LET w == WillPass(a, signal)
         IN /\ w \in Seq(PowerStates) /\ (w # <<>> => Follows(a, w[1]))
            /\ \A i \in 1..Len(w) - 1 : Follows(w[i], w[i + 1])
<1> DEFINE w == WillPass(a, signal)
           x == <<"stopping", "offline">>
           y == <<"starting", "running">>
           Goal == /\ w \in Seq(PowerStates) /\ (w # <<>> => Follows(a, w[1]))
                   /\ \A i \in 1..Len(w) - 1 : Follows(w[i], w[i + 1])
<1>1. /\ "stopping" \in PowerStates /\ "offline" \in PowerStates
      /\ "starting" \in PowerStates /\ "running" \in PowerStates
  BY DEF PowerStates
<1>2. /\ <<>> \in Seq(PowerStates) /\ x \in Seq(PowerStates) /\ y \in Seq(PowerStates)
  BY <1>1
<1> SUFFICES Goal
  OBVIOUS
<1>3. w = IF a = "offline" THEN IF signal = "stop" THEN <<>> ELSE y
          ELSE IF signal = "stop" THEN x ELSE x \o y
  <2>1. w = (IF a = "offline" THEN <<>> ELSE x) \o (IF signal = "stop" THEN <<>> ELSE y)
    BY Zenon DEF WillPass
  <2> HIDE DEF w, x, y
  <2>2. <<>> \o <<>> = <<>> /\ <<>> \o y = y /\ x \o <<>> = x
    BY <1>2, Joined
  <2> QED
    BY <2>1, <2>2
<1> HIDE DEF w
<1>4. CASE w = <<>>
  BY <1>2, <1>4
<1>5. CASE w = x /\ a # "offline"
  BY <1>2, <1>5 DEF Follows
<1>6. CASE w = y /\ a = "offline"
  BY <1>2, <1>6 DEF Follows
<1>7. CASE w = x \o y /\ a # "offline"
  <2>1. /\ w \in Seq(PowerStates) /\ Len(w) = 4 /\ w[1] = "stopping" /\ w[2] = "offline"
        /\ w[3] = "starting" /\ w[4] = "running"
    <3>1. /\ Len(x) = 2 /\ Len(y) = 2 /\ x[1] = "stopping" /\ x[2] = "offline"
          /\ y[1] = "starting" /\ y[2] = "running"
      OBVIOUS
    <3> HIDE DEF x, y
    <3>2. /\ w \in Seq(PowerStates) /\ Len(w) = 4
          /\ \A i \in 1..4 : w[i] = IF i <= 2 THEN x[i] ELSE y[i - 2]
      <4>1. x \in Seq(PowerStates) /\ y \in Seq(PowerStates)
        BY <1>2
      <4>2. /\ x \o y \in Seq(PowerStates) /\ Len(x \o y) = Len(x) + Len(y)
            /\ \A i \in 1..Len(x) + Len(y) :
                 (x \o y)[i] = IF i <= Len(x) THEN x[i] ELSE y[i - Len(x)]
        BY <4>1, Joined, Zenon
      <4>3. w = x \o y
        BY <1>7
      <4>4. Len(x) + Len(y) = 4
        BY <3>1
      <4> QED
        BY <3>1, <4>2, <4>3, <4>4
    <3> QED
      BY <3>1, <3>2
  <2>2. ASSUME NEW i \in 1..Len(w) - 1 PROVE Follows(w[i], w[i + 1])
    <3>1. i = 1 \/ i = 2 \/ i = 3
      BY <2>1
    <3> QED
      BY <2>1, <3>1 DEF Follows
  <2> QED
    BY <1>7, <2>1, <2>2 DEF Follows
<1> QED
  BY <1>3, <1>4, <1>5, <1>6, <1>7

\* So is what is ahead of one that was in pace.
LEMMA AheadPaced ==
  ASSUME NEW s, Paced(s), NEW signal, NEW t, t.todo \in AfterSignal(s, signal),
         t.state = s.state
  PROVE  Paced(t)
<1> DEFINE last == IF s.todo = <<>> THEN s.state ELSE s.todo[Len(s.todo)]
           w == WillPass(last, signal)
           x == s.todo \o w
<1>1. t.todo \in Seq(PowerStates)
  BY AheadIs DEF Paced
<1>2. t.todo \in {s.todo, WillPass(s.state, signal), x}
  BY ZenonT(20) DEF AfterSignal
<1>3. CASE t.todo = s.todo
  BY <1>3 DEF Paced
<1>4. CASE t.todo = WillPass(s.state, signal)
  <2> DEFINE v == WillPass(s.state, signal)
  <2>1. /\ v \in Seq(PowerStates) /\ (v # <<>> => Follows(s.state, v[1]))
        /\ \A i \in 1..Len(v) - 1 : Follows(v[i], v[i + 1])
    BY WillPassPaced
  <2>2. t.todo = v
    BY <1>4
  <2> HIDE DEF v
  <2> SUFFICES /\ v \in Seq(PowerStates) /\ (v # <<>> => Follows(s.state, v[1]))
               /\ \A i \in 1..Len(v) - 1 : Follows(v[i], v[i + 1])
    BY <2>2, Zenon DEF Paced
  <2> QED
    BY <2>1
<1>5. CASE t.todo = x
  <2>1. /\ w \in Seq(PowerStates) /\ (w # <<>> => Follows(last, w[1]))
        /\ \A i \in 1..Len(w) - 1 : Follows(w[i], w[i + 1])
    BY WillPassPaced
  <2> DEFINE n == Len(s.todo)
             m == Len(w)
  <2>2. /\ s.todo \in Seq(PowerStates) /\ n \in Nat /\ m \in Nat /\ Len(x) = n + m
        /\ \A i \in 1..n + m : x[i] = IF i <= n THEN s.todo[i] ELSE w[i - n]
    <3>1. s.todo \in Seq(PowerStates)
      BY DEF Paced
    <3> HIDE DEF w
    <3> QED
      BY <2>1, <3>1, Joined
  <2>3. /\ n = 0 => last = s.state /\ x = w
        /\ n > 0 => last = s.todo[n]
    <3>1. n = 0 => s.todo = <<>>
      BY <2>2
    <3>2. n > 0 => s.todo # <<>>
      BY <2>2
    <3>3. <<>> \o w = w
      BY <2>1
    <3> QED
      BY <3>1, <3>2, <3>3
  <2>4. CASE n = 0
    BY <1>1, <1>5, <2>1, <2>3, <2>4 DEF Paced
  <2>5. CASE n > 0
    <3> HIDE DEF w, x, n, m, last
    <3>1. ASSUME NEW i \in 1..n + m - 1 PROVE Follows(x[i], x[i + 1])
      <4>1. CASE i < n
        <5>1. i \in 1..n - 1
          BY <2>2, <4>1
        <5>2. Follows(s.todo[i], s.todo[i + 1])
          BY <5>1 DEF Paced, n
        <5>3. x[i] = s.todo[i] /\ x[i + 1] = s.todo[i + 1]
          BY <2>2, <4>1
        <5> QED
          BY <5>2, <5>3
      <4>2. CASE i = n
        <5>1. x[i] = last /\ x[i + 1] = w[1] /\ w # <<>>
          <6>1. m > 0
            BY <2>2, <4>2
          <6>2. w # <<>>
            BY <2>1, <6>1 DEF m
          <6> QED
            BY <2>2, <2>3, <2>5, <4>2, <6>1, <6>2
        <5> QED
          BY <2>1, <5>1
      <4>3. CASE i > n
        <5> DEFINE j == i - n
        <5>1. j \in 1..m - 1 /\ x[i] = w[j] /\ x[i + 1] = w[j + 1]
          BY <2>2, <4>3
        <5> HIDE DEF j
        <5> QED
          BY <2>1, <5>1 DEF m
      <4> QED
        BY <2>2, <4>1, <4>2, <4>3
    <3>2. x[1] = s.todo[1] /\ s.todo # <<>>
      BY <2>2, <2>5 DEF n
    <3> QED
      BY <1>1, <1>5, <2>2, <3>1, <3>2 DEF Paced
  <2> QED
    BY <2>2, <2>4, <2>5
<1> QED
  BY <1>2, <1>3, <1>4, <1>5

\* A server that passes into its next state stays in pace, and keeps what a stop or
\* a restart may hold against it.
LEMMA TurnHolds ==
  ASSUME NEW s, Paced(s), s.born \in Nat, s.todo # <<>>, NEW t, t.state = Head(s.todo),
         t.todo = Tail(s.todo), t.born = s.born + (IF Head(s.todo) = "starting" THEN 1 ELSE 0),
         NEW mine, mine.born \in Nat
  PROVE  /\ Paced(t)
         /\ StopHolds(mine, s) => StopHolds(mine, t)
         /\ RestartHolds(mine, s) => RestartHolds(mine, t)
<1> DEFINE n == Len(s.todo)
<1>1. /\ s.todo \in Seq(PowerStates) /\ n \in Nat /\ n > 0 /\ t.state = s.todo[1]
      /\ t.todo \in Seq(PowerStates) /\ Len(t.todo) = n - 1
      /\ \A i \in 1..n - 1 : t.todo[i] = s.todo[i + 1]
  BY DEF Paced
<1>2. Follows(s.state, t.state)
  BY <1>1 DEF Paced
<1>3. /\ t.born \in Nat /\ s.born <= t.born
      /\ t.state = "starting" => s.born < t.born
  BY <1>1
<1>4. Paced(t)
  <2>1. t.todo # <<>> => Follows(t.state, t.todo[1])
    <3>1. t.todo # <<>> => n > 1
      BY <1>1
    <3>2. n > 1 => Follows(s.todo[1], s.todo[1 + 1]) /\ t.todo[1] = s.todo[1 + 1]
      BY <1>1 DEF Paced
    <3> QED
      BY <1>1, <3>1, <3>2
  <2>2. ASSUME NEW i \in 1..Len(t.todo) - 1 PROVE Follows(t.todo[i], t.todo[i + 1])
    <3>1. Follows(s.todo[i + 1], s.todo[(i + 1) + 1])
      BY <1>1 DEF Paced
    <3> QED
      BY <1>1, <3>1
  <2> QED
    BY <1>1, <2>1, <2>2 DEF Paced
<1>5. StopHolds(mine, s) => StopHolds(mine, t)
  <2> SUFFICES ASSUME \A i \in 1..n : s.todo[i] # "starting", mine.reached => s.state = "offline"
               PROVE  /\ \A i \in 1..Len(t.todo) : t.todo[i] # "starting"
                      /\ mine.reached => t.state = "offline"
    BY DEF StopHolds
  <2>1. t.state # "starting"
    BY <1>1
  <2> QED
    BY <1>1, <1>2, <2>1 DEF Follows
<1>6. RestartHolds(mine, s) => RestartHolds(mine, t)
  BY <1>2, <1>3 DEF RestartHolds, Follows
<1> QED
  BY <1>4, <1>5, <1>6

\* The server passes into the next of the states ahead of it.
LEMMA ServerTurned ==
  ASSUME ServerOK, serverTurns
  PROVE  LET s == remote.server
             t == remote'.server
         IN /\ UNCHANGED <<args, at, got>> /\ s.todo # <<>>
            /\ t.state = Head(s.todo) /\ t.todo = Tail(s.todo)
            /\ t.born = s.born + (IF Head(s.todo) = "starting" THEN 1 ELSE 0)
            /\ ServerOK'
<1> DEFINE s == remote.server
           t == remote'.server
           more == IF Head(s.todo) = "starting" THEN 1 ELSE 0
           new == [s EXCEPT !.state = Head(s.todo), !.todo = Tail(s.todo), !.born = @ + more]
<1>1. /\ DOMAIN s = {"state", "todo", "born"} /\ s.born \in Nat /\ more \in Nat
      /\ "server" \in DOMAIN remote
  BY DEF ServerOK
<1>2. /\ UNCHANGED <<args, at, got>> /\ s.todo # <<>>
      /\ remote' = [remote EXCEPT !.server = new]
  BY DEF serverTurns
<1> HIDE DEF s, more
<1>3. /\ DOMAIN new = {"state", "todo", "born"} /\ new.state = Head(s.todo)
      /\ new.todo = Tail(s.todo) /\ new.born = s.born + more
  BY <1>1
<1> HIDE DEF new
<1>4. t = new /\ "server" \in DOMAIN remote'
  BY <1>1, <1>2
<1>5. /\ t.state = Head(s.todo) /\ t.todo = Tail(s.todo) /\ t.born = s.born + more
  BY <1>3, <1>4
<1>6. Paced(t)
  <2>1. Paced(s) /\ [born |-> 0].born \in Nat
    BY DEF ServerOK, s
  <2> QED
    BY <1>1, <1>2, <1>5, <2>1, TurnHolds DEF more
<1>7. ServerOK'
  BY <1>1, <1>3, <1>4, <1>5, <1>6 DEF ServerOK
<1> QED
  BY <1>2, <1>5, <1>7 DEF more, s

\* Its turn takes nothing from what a call relies on.
LEMMA TurnStep ==
  ASSUME ServerOK, serverTurns, NEW c \in Calls, PowerOK(c)
  PROVE  ServerOK' /\ PowerOK(c)'
<1> DEFINE s == remote.server
           t == remote'.server
<1>1. /\ UNCHANGED <<args, at, got>> /\ s.todo # <<>>
      /\ t.state = Head(s.todo) /\ t.todo = Tail(s.todo)
      /\ t.born = s.born + (IF Head(s.todo) = "starting" THEN 1 ELSE 0)
      /\ ServerOK'
  BY ServerTurned
<1>2. Paced(s) /\ s.born \in Nat
  BY DEF ServerOK
<1> HIDE DEF s, t
<1>3. ASSUME got[c].born \in Nat
      PROVE  /\ StopHolds(got[c], s) => StopHolds(got[c], t)
             /\ RestartHolds(got[c], s) => RestartHolds(got[c], t)
  BY <1>1, <1>2, <1>3, TurnHolds
<1> QED
  BY <1>1, <1>3 DEF PowerOK, s, t

\* A session that keeps what it knows of the process keeps what it may rely on.
LEMMA HoldsKept ==
  ASSUME NEW mine, NEW new, NEW s, new.born = mine.born, new.saw = mine.saw,
         new.was = mine.was, new.restarting = mine.restarting, new.reached = mine.reached
  PROVE  /\ StopHolds(mine, s) => StopHolds(new, s)
         /\ RestartHolds(mine, s) => RestartHolds(new, s)
  BY DEF StopHolds, RestartHolds

\* A monitor is no server.
LEMMA SetMonitorServer ==
  ASSUME NEW m, NEW v
  PROVE  /\ DOMAIN SetMonitor(m, v) = DOMAIN remote
         /\ SetMonitor(m, v).server = remote.server
         /\ SetMonitor(m, v).topic = remote.topic
  BY DEF SetMonitor

\* A step of Uptime Kuma's handlers keeps it.
LEMMA PowerStep ==
  ASSUME FrameOK, ServerOK, NEW c \in Calls, UptimeKumaStep(c), PowerOK(c),
         at[c] # "idle" /\ args[c].tool = "white_glove" => args[c] \in WhiteGloveCalls
  PROVE  ServerOK' /\ PowerOK(c)'
<1> DEFINE Goal == ServerOK' /\ PowerOK(c)'
<1> SUFFICES Goal
  OBVIOUS
<1>1. ASSUME NEW here, NEW said, Reply(c, here, said)
      PROVE  Goal
  BY <1>1, ReplyStep DEF ServerOK, PowerOK
<1>2. ASSUME NEW here, NEW value, NEW there, there \notin {"waiting", "acted", "resuming"},
             Learn(c, here, value, there)
      PROVE  Goal
  BY <1>2, LearnStep DEF ServerOK, PowerOK
<1>3. ASSUME NEW here, NEW new, NEW mine, NEW there,
             there \notin {"waiting", "acted", "resuming"} \/ args[c].tool # "white_glove",
             "server" \in DOMAIN new, new.server = remote.server,
             Step(c, here, new, mine, there)
      PROVE  Goal
  BY <1>3, SessionStep DEF ServerOK, PowerOK
<1>4. ASSUME NEW here, NEW value, NEW there, args[c].tool # "white_glove",
             Learn(c, here, value, there)
      PROVE  Goal
  BY <1>4, LearnStep DEF ServerOK, PowerOK
<1>5. ASSUME NEW here, NEW there,
             there \notin {"waiting", "acted", "resuming"} \/ args[c].tool # "white_glove",
             pause(c, here, there)
      PROVE  Goal
  <2>1. "server" \in DOMAIN remote
    BY DEF ServerOK
  <2> QED
    BY <1>3, <1>5, <2>1, SetMonitorServer DEF pause
<1>6. ASSUME NEW here, NEW there,
             there \notin {"waiting", "acted", "resuming"} \/ args[c].tool # "white_glove",
             resume(c, here, there)
      PROVE  Goal
  <2>1. "server" \in DOMAIN remote
    BY DEF ServerOK
  <2> QED
    BY <1>3, <1>6, <2>1, SetMonitorServer DEF resume
<1>7. ASSUME NEW here, here \in {"waiting", "acted", "resuming"}, at[c] = here,
             at'[c] \in {"acted", "resuming"}, args[c].tool = "white_glove",
             args' = args, "server" \in DOMAIN remote', remote'.server = remote.server,
             DOMAIN got'[c] = DOMAIN got[c], got'[c].born = got[c].born,
             got'[c].saw = got[c].saw, got'[c].reached = got[c].reached,
             got'[c].was = got[c].was, got'[c].restarting = got[c].restarting
      PROVE  Goal
  <2>1. /\ StopHolds(got[c], remote.server) => StopHolds(got'[c], remote.server)
        /\ RestartHolds(got[c], remote.server) => RestartHolds(got'[c], remote.server)
    BY <1>7, HoldsKept
  <2> QED
    BY <1>7, <2>1 DEF ServerOK, PowerOK
<1>8. CASE safeResume(c)
  <2> args[c].tool = "white_glove"
    BY <1>8 DEF safeResume, Does
  <2>1. ASSUME at[c] \in {"acted", "resuming"} PROVE DOMAIN got[c] = PowerFields
    BY <2>1 DEF PowerOK
  <2>2. CASE at[c] = "acted" /\ resumeExactly(c, "acted", got[c].paused, "resuming")
    <3>1. /\ Learn(c, "acted", [got[c] EXCEPT !.todo = got[c].paused \cap PausedNow], "resuming")
      BY <2>2 DEF resumeExactly
    <3>2. /\ UNCHANGED <<remote, args>> /\ at'[c] = "resuming"
          /\ got'[c] = [got[c] EXCEPT !.todo = got[c].paused \cap PausedNow]
      BY <3>1, LearnStep
    <3>3. "server" \in DOMAIN remote'
      BY <3>2 DEF ServerOK
    <3> QED
      BY <1>7, <2>1, <2>2, <3>2, <3>3 DEF PowerFields
  <2>3. CASE Learn(c, "acted", [got[c] EXCEPT !.still = got[c].paused], "resuming")
    <3>2. /\ UNCHANGED <<remote, args>> /\ at[c] = "acted" /\ at'[c] = "resuming"
          /\ got'[c] = [got[c] EXCEPT !.still = got[c].paused]
      BY <2>3, LearnStep
    <3>3. "server" \in DOMAIN remote'
      BY <3>2 DEF ServerOK
    <3> QED
      BY <1>7, <2>1, <3>2, <3>3 DEF PowerFields
  <2>4. CASE resume(c, "resuming", "resuming")
    <3> DEFINE m == First(got[c].todo)
               rest == [got[c] EXCEPT !.todo = @ \ {m}]
               keeps(mine) == /\ DOMAIN mine = DOMAIN got[c] /\ mine.born = got[c].born
                              /\ mine.saw = got[c].saw /\ mine.reached = got[c].reached
                              /\ mine.was = got[c].was
                              /\ mine.restarting = got[c].restarting
    <3>1. ASSUME NEW new, NEW mine, new = remote \/ new = SetMonitor(m, "active"),
                 at[c] = "resuming" => keeps(mine),
                 Step(c, "resuming", new, mine, "resuming")
          PROVE  Goal
      <4>1. /\ remote' = new /\ args' = args /\ at[c] = "resuming" /\ at'[c] = "resuming"
            /\ got'[c] = mine
        BY <3>1, SessionStep
      <4>2. "server" \in DOMAIN remote' /\ remote'.server = remote.server
        BY <3>1, <4>1, SetMonitorServer DEF ServerOK
      <4> HIDE DEF Goal, m
      <4> QED
        BY <1>7, <3>1, <4>1, <4>2
    <3>2. ASSUME at[c] = "resuming"
          PROVE  /\ keeps([rest EXCEPT !.paused = @ \ {m}])
                 /\ keeps([rest EXCEPT !.still = @ \cup {m}])
      <4>1. DOMAIN got[c] = PowerFields
        BY <2>1, <3>2
      <4> HIDE DEF m
      <4> QED
        BY <4>1 DEF PowerFields
    <3>3. \/ Step(c, "resuming", SetMonitor(m, "active"), [rest EXCEPT !.paused = @ \ {m}],
                  "resuming")
          \/ Step(c, "resuming", remote, [rest EXCEPT !.still = @ \cup {m}], "resuming")
          \/ Step(c, "resuming", SetMonitor(m, "active"), [rest EXCEPT !.still = @ \cup {m}],
                  "resuming")
      BY <2>4 DEF resume
    <3> HIDE DEF Goal, m, rest, keeps
    <3> QED
      BY <3>1, <3>2, <3>3
  <2> HIDE DEF Goal
  <2> QED
    BY <1>1, <1>8, <2>2, <2>3, <2>4 DEF safeResume
<1>9. CASE powerAction(c)
  <2> DEFINE s == remote.server
             sent_(todo) == [remote EXCEPT !.server.todo = todo]
             mine(r) == [todo |-> {}, paused |-> got[c].paused, failed |-> {}, still |-> {},
                         lost |-> got[c].lost, polls |-> 0, saw |-> FALSE, born |-> s.born,
                         was |-> s.state, reached |-> FALSE, restarting |-> r]
             starts(todo) == \E i \in DOMAIN todo : todo[i] = "starting"
  <2>1. PICK todo \in AfterSignal(s, args[c].signal), there \in {"waiting", "acted"} :
          Step(c, "pausing", sent_(todo), mine(starts(todo)), there)
    BY <1>9 DEF powerAction
  <2>2. PICK r \in BOOLEAN : r = starts(todo)
    OBVIOUS
  <2>3. Step(c, "pausing", sent_(todo), mine(r), there)
    BY <2>1, <2>2
  <2>4. /\ DOMAIN mine(r) = PowerFields /\ mine(r).born = s.born /\ mine(r).saw = FALSE
        /\ mine(r).reached = FALSE /\ mine(r).was = s.state /\ mine(r).restarting = r
    BY DEF PowerFields
  <2>5. /\ DOMAIN sent_(todo) = DOMAIN remote
        /\ sent_(todo).server = [s EXCEPT !.todo = todo]
    BY DEF ServerOK
  <2>6. /\ remote' = sent_(todo) /\ args' = args /\ at'[c] = there /\ got'[c] = mine(r)
    BY <2>3, SessionStep
  <2> HIDE DEF sent_, mine
  <2>7. /\ remote'.server.todo = todo /\ remote'.server.state = s.state
        /\ remote'.server.born = s.born /\ DOMAIN remote'.server = {"state", "todo", "born"}
        /\ "server" \in DOMAIN remote' /\ s.born \in Nat
    BY <2>5, <2>6 DEF ServerOK
  <2>8. Paced(s) /\ s.todo \in Seq(PowerStates)
    BY DEF ServerOK, Paced
  <2>9. Paced(remote'.server)
    BY <2>7, <2>8, AheadPaced
  <2>10. StopHolds(got'[c], remote'.server)
    <3>1. todo \in Seq(PowerStates)
      BY <2>8, AheadIs
    <3>2. ~r => \A i \in 1..Len(todo) : todo[i] # "starting"
      BY <2>2, <3>1
    <3> QED
      BY <2>4, <2>6, <2>7, <3>2 DEF StopHolds
  <2>11. RestartHolds(got'[c], remote'.server)
    BY <2>4, <2>6, <2>7 DEF RestartHolds
  <2>12. ServerOK'
    BY <2>7, <2>9 DEF ServerOK
  <2>13. PowerOK(c)'
    BY <2>4, <2>6, <2>7, <2>10, <2>11 DEF PowerOK
  <2> QED
    BY <2>12, <2>13
<1>10. CASE waitForPowerState(c)
  <2> DEFINE s == remote.server
             mine == got[c]
             saw == mine.saw \/ s.state # "running"
  <2>1. /\ DOMAIN mine = PowerFields /\ mine.born \in Nat
        /\ args[c].tool = "white_glove" /\ at[c] = "waiting"
        /\ args[c].signal \in {"stop", "restart"}
        /\ args[c].signal = "stop" => StopHolds(mine, s)
        /\ args[c].signal = "restart" => RestartHolds(mine, s)
        /\ ServerOK /\ s.born \in Nat
    BY <1>10 DEF waitForPowerState, Does, PowerOK, WhiteGloveCalls, ServerOK
  <2>2. ASSUME NEW value, NEW there, Learn(c, "waiting", value, there),
               DOMAIN value = PowerFields, value.born = mine.born, value.saw = saw,
               value.was = mine.was, value.restarting = mine.restarting,
               value.reached => mine.reached
                                \/ Reached(args[c].signal, s.state, saw, s.born > mine.born),
               there \in {"waiting", "acted"}
        PROVE  Goal
    <3>1. UNCHANGED <<remote, args>> /\ got'[c] = value /\ at'[c] = there
      BY <2>2, LearnStep
    <3>2. args[c].signal = "stop" => StopHolds(value, s)
      BY <2>1, <2>2 DEF StopHolds, Reached, expectedStateFor
    <3>3. args[c].signal = "restart" => RestartHolds(value, s)
      <4>1. saw => mine.saw \/ s.state # "running"
        OBVIOUS
      <4>2. value.saw => mine.saw \/ s.state # "running"
        BY <2>2, <4>1, Zenon
      <4> SUFFICES ASSUME args[c].signal = "restart", mine.was # "starting"
                   PROVE  RestartHolds(value, s)
        BY <2>2 DEF RestartHolds
      <4>3. /\ mine.born <= s.born
            /\ mine.born = s.born => s.state # "starting" /\ (mine.saw => s.state # "running")
            /\ mine.reached => mine.born < s.born
        BY <2>1 DEF RestartHolds
      <4>4. value.reached =>
              mine.reached \/ (s.state = "running" /\ (saw \/ s.born > mine.born))
        BY <2>2 DEF Reached, expectedStateFor
      <4> HIDE DEF saw
      <4>5. value.reached => mine.born < s.born
        BY <2>1, <4>1, <4>3, <4>4
      <4> QED
        BY <2>2, <4>2, <4>3, <4>5 DEF RestartHolds
    <3>4. PowerOK(c)'
      BY <2>1, <2>2, <3>1, <3>2, <3>3 DEF PowerOK
    <3>5. ServerOK'
      BY <2>1, <3>1 DEF ServerOK
    <3> QED
      BY <3>4, <3>5
  <2>4. CASE Move(c, "waiting", "acted")
    <3>1. UNCHANGED <<remote, args, got>> /\ at'[c] = "acted"
      BY <2>4, MoveStep
    <3>2. "server" \in DOMAIN remote'
      BY <3>1 DEF ServerOK
    <3> QED
      BY <1>7, <2>1, <3>1, <3>2
  <2>5. ASSUME Reached(args[c].signal, s.state, saw, s.born > mine.born),
               Learn(c, "waiting", [mine EXCEPT !.reached = TRUE, !.saw = saw], "acted")
        PROVE  Goal
    <3> DEFINE value == [mine EXCEPT !.reached = TRUE, !.saw = saw]
    <3>1. /\ DOMAIN value = PowerFields /\ value.born = mine.born /\ value.saw = saw
          /\ value.was = mine.was /\ value.restarting = mine.restarting
      BY <2>1 DEF PowerFields
    <3> HIDE DEF value, Goal, saw, s
    <3> QED
      BY <2>2, <2>5, <3>1 DEF value
  <2>6. ASSUME Learn(c, "waiting", [mine EXCEPT !.polls = @ + 1, !.saw = saw], "waiting")
        PROVE  Goal
    <3> DEFINE value == [mine EXCEPT !.polls = @ + 1, !.saw = saw]
    <3>1. /\ DOMAIN value = PowerFields /\ value.born = mine.born /\ value.saw = saw
          /\ value.was = mine.was /\ value.restarting = mine.restarting
          /\ value.reached = mine.reached
      BY <2>1 DEF PowerFields
    <3> HIDE DEF value, Goal, saw, s
    <3> QED
      BY <2>2, <2>6, <3>1 DEF value
  <2> HIDE DEF Goal
  <2> QED
    BY <1>10, <2>4, <2>5, <2>6 DEF waitForPowerState
<1> HIDE DEF Goal
<1>11. CASE pauseMonitor(c) \/ resumeMonitor(c)
  <2>1. args[c].tool # "white_glove"
    BY <1>11 DEF pauseMonitor, resumeMonitor, Does
  <2> QED
    BY <1>1, <1>4, <1>5, <1>6, <1>11, <2>1 DEF pauseMonitor, resumeMonitor, openSession
<1>12. CASE maintenance(c)
  <2>1. args[c].tool # "white_glove"
    BY <1>12 DEF maintenance, Does
  <2>2. \A x : "server" \in DOMAIN add(c, x) /\ add(c, x).server = remote.server
    BY DEF add, ServerOK
  <2> QED
    BY <1>1, <1>3, <1>4, <1>5, <1>6, <1>12, <2>1, <2>2 DEF maintenance, openSession
<1>13. CASE endMaintenance(c)
  <2>1. args[c].tool # "white_glove"
    BY <1>13 DEF endMaintenance, Does
  <2>2. \A x : "server" \in DOMAIN end(x) /\ end(x).server = remote.server
    BY DEF end, ServerOK
  <2> QED
    BY <1>1, <1>3, <1>4, <1>6, <1>13, <2>1, <2>2 DEF endMaintenance, openSession, resumeExactly
<1>14. CASE kumaReads(c)
  BY <1>1, <1>2, <1>14 DEF kumaReads
<1>15. CASE whiteGlovePause(c)
  BY <1>1, <1>2, <1>5, <1>6, <1>15 DEF whiteGlovePause, openSession
<1>16. CASE SessionFails(c)
  BY <1>1, <1>16 DEF SessionFails
<1>17. CASE Begin(c, UptimeKumaCalls)
  BY <1>17, BeginStep DEF ServerOK, PowerOK, Goal
<1> QED
  BY <1>8, <1>9, <1>10, <1>11, <1>12, <1>13, <1>14, <1>15, <1>16, <1>17 DEF UptimeKumaStep

\* What the agent and the people at the panel do meanwhile.
LEMMA FilesOthers ==
  ASSUME BaseInv, FilesInv, remote.system = "pelican",
         panelEdit \/ (remote.topic = "files" /\ agentDownloads)
  PROVE  FilesInv'
<1> SUFFICES ASSUME remote'.topic = "files" PROVE FilesInv'
  BY DEF FilesInv
<1>1. /\ SameKind /\ UNCHANGED <<args, at, got, sent, answer, touched>>
  <2>1. Others
    BY DEF Others
  <2> QED
    BY <2>1, OthersFrame DEF BaseInv
<1>2. remote.topic = "files"
  BY <1>1 DEF SameKind, BaseInv
<1>3. agentDownloads
  BY <1>2 DEF panelEdit
<1>4. FilesOK /\ \A c \in Calls : Download(c)
  BY <1>2 DEF FilesInv
<1>5. /\ DOMAIN remote' = DOMAIN remote /\ remote'.upstream = remote.upstream
      /\ remote'.file = [remote.file EXCEPT !.size = @ + 1]
      /\ remote.file.size < remote.upstream
  BY <1>3, <1>4 DEF agentDownloads, FilesOK
<1>6. FilesOK'
  BY <1>4, <1>5 DEF FilesOK
<1>7. \A c \in Calls : Download(c)'
  BY <1>1, <1>4, <1>5 DEF Download, FilesOK
<1> QED
  BY <1>1, <1>2, <1>6, <1>7 DEF FilesInv

\* A step of a call keeps it.
LEMMA RealCallStep ==
  ASSUME BaseInv, RealInv, NEW c \in Calls, CallStep(c)
  PROVE  RealInv'
<1> FrameOK
  BY DEF BaseInv
<1>1. Proper(c, Accepted)
  BY StepProper
<1>2. /\ remote'.system = remote.system
      /\ remote.system \notin {"host", "ssh"} => remote'.topic = remote.topic
  BY <1>1 DEF Proper, SameKind, BaseInv
<1>3. ASSUME remote.system = "home-assistant", NEW d \in Calls PROVE ServiceCalled(d)'
  <2>1. HomeAssistantStep(c)
    BY <1>3 DEF CallStep
  <2>2. CASE d = c
    BY <1>3, <2>1, <2>2, ServiceStep DEF RealInv
  <2>3. CASE d # c
    BY <1>1, <1>3, <2>3 DEF Proper, Only, RealInv, ServiceCalled
  <2> QED
    BY <2>2, <2>3
<1>4. ASSUME remote.system = "pelican", NEW d \in Calls PROVE VariablesSet(d)'
  <2>1. PelicanPanelStep(c)
    BY <1>4 DEF CallStep
  <2>2. CASE d = c
    BY <1>4, <2>1, <2>2, VariablesStep DEF RealInv
  <2>3. CASE d # c
    BY <1>1, <1>4, <2>3 DEF Proper, Only, RealInv, VariablesSet
  <2> QED
    BY <2>2, <2>3
<1>5. ASSUME remote'.system = "pelican", remote'.topic = "files"
      PROVE  FilesInv'
  <2>1. PelicanPanelStep(c) /\ remote.system = "pelican" /\ remote.topic = "files"
    BY <1>2, <1>5 DEF CallStep
  <2>2. at[c] # "idle" => args[c] \in FileCalls
    BY <2>1 DEF BaseInv, Accepted, PanelCalls
  <2>3. FilesOK' /\ Download(c)'
    BY <2>1, <2>2, FilesStep DEF RealInv
  <2>4. at[c] = "idle" => Alone(c)
    <3> SUFFICES ASSUME at[c] = "idle" PROVE Alone(c)
      OBVIOUS
    <3> USE <2>1
    <3>1. ~panelNotReady(c) /\ ~Breaks(c, PanelTools) /\ ~fileOperation(c) /\ ~pullFile(c)
          /\ ~waitForFile(c) /\ ~readFile(c) /\ ~list(c) /\ ~pelicanSnapshot(c)
      BY DEF panelNotReady, Breaks, fileOperation, pullFile, waitForFile, readFile, list,
             pelicanSnapshot, Ready, Does, Running
    <3>2. ~updateServerBuild(c) /\ ~updateServerStartup(c) /\ ~createSchedule(c)
          /\ ~updateSchedule(c) /\ ~deleteSchedule(c) /\ ~createAllocations(c)
          /\ ~assignAllocation(c) /\ ~createServer(c) /\ ~importEgg(c)
          /\ ~updateStartupVariables(c)
      BY DEF updateServerBuild, updateServerStartup, createSchedule, updateSchedule,
             deleteSchedule, createAllocations, assignAllocation, createServer, importEgg,
             updateStartupVariables, Ready, Does, Running
    <3> QED
      BY <3>1, <3>2 DEF PelicanPanelStep
  <2>5. \A x, y \in Calls : at[x] # "idle" /\ at[y] # "idle" => x = y
    BY <2>1 DEF RealInv, FilesInv
  <2>6. /\ \A x, y \in Calls : at'[x] # "idle" /\ at'[y] # "idle" => x = y
        /\ \A d \in Calls \ {c} : at'[d] = "idle"
    BY <1>1, <2>4, <2>5, OnlyOne
  <2>7. \A d \in Calls : Download(d)'
    BY <2>3, <2>6 DEF Download
  <2> QED
    BY <2>3, <2>6, <2>7 DEF FilesInv
<1>6. ASSUME remote'.system = "host" PROVE HostInv'
  <2>1. PelicanHostStep(c) /\ RunsOK /\ \A d \in Calls : Upgrade(d)
    BY <1>2, <1>6 DEF CallStep, RealInv, HostInv
  <2>2. RunsOK' /\ Upgrade(c)' /\ \A d \in Calls \ {c} : remote'.run[d] = remote.run[d]
    BY <2>1, UpgradeStep
  <2>3. ASSUME NEW d \in Calls \ {c} PROVE Upgrade(d)'
    BY <1>1, <2>1, <2>2, <2>3 DEF Upgrade, Proper, Only
  <2> QED
    BY <2>2, <2>3 DEF HostInv
<1>7. ASSUME remote'.system = "uptime-kuma", remote'.topic # "windows" PROVE PowerInv'
  <2>1. /\ UptimeKumaStep(c) /\ remote.system = "uptime-kuma" /\ remote.topic # "windows"
    BY <1>2, <1>7 DEF CallStep
  <2>2. ServerOK /\ Active /\ \A d \in Calls : PowerOK(d)
    BY <2>1 DEF RealInv, PowerInv, ServerOK
  <2>3. at[c] # "idle" /\ args[c].tool = "white_glove" => args[c] \in WhiteGloveCalls
    <3> SUFFICES ASSUME at[c] # "idle", args[c].tool = "white_glove"
                 PROVE  args[c] \in WhiteGloveCalls
      OBVIOUS
    <3>1. args[c] \in UptimeKumaCalls
      BY <2>1 DEF BaseInv, Accepted
    <3>2. args[c] \in WhiteGloveCalls \cup KumaReadCalls
      BY <2>1, <3>1 DEF UptimeKumaCalls
    <3> QED
      BY <3>2 DEF KumaReadCalls
  <2>4. ServerOK' /\ PowerOK(c)'
    BY <2>1, <2>2, <2>3, PowerStep
  <2>5. at[c] = "idle" => Alone(c)
    <3> SUFFICES ASSUME at[c] = "idle" PROVE Alone(c)
      OBVIOUS
    <3>1. ~pauseMonitor(c) /\ ~resumeMonitor(c) /\ ~maintenance(c) /\ ~endMaintenance(c)
          /\ ~kumaReads(c) /\ ~whiteGlovePause(c) /\ ~powerAction(c) /\ ~waitForPowerState(c)
          /\ ~safeResume(c) /\ ~SessionFails(c)
      BY DEF pauseMonitor, resumeMonitor, maintenance, endMaintenance, kumaReads,
             whiteGlovePause, powerAction, waitForPowerState, safeResume, SessionFails,
             Does, Running
    <3> QED
      BY <2>1, <3>1 DEF UptimeKumaStep
  <2>6. /\ Active' /\ \A d \in Calls \ {c} : at'[d] = "idle"
    BY <1>1, <2>2, <2>5, OnlyOne DEF Active
  <2>7. \A d \in Calls : PowerOK(d)'
    BY <2>4, <2>6 DEF PowerOK
  <2> QED
    BY <2>4, <2>6, <2>7 DEF PowerInv, ServerOK
<1>8. FilesInv' /\ HostInv' /\ PowerInv'
  BY <1>5, <1>6, <1>7 DEF FilesInv, HostInv, PowerInv
<1> QED
  BY <1>2, <1>3, <1>4, <1>8 DEF RealInv

\* So does what the other systems and people do.
LEMMA RealOthers ==
  ASSUME BaseInv, RealInv, Others
  PROVE  RealInv'
<1>1. /\ SameKind /\ UNCHANGED <<args, at, got, sent, answer, touched>>
  BY OthersFrame DEF BaseInv
<1>2. /\ remote'.system = remote.system
      /\ remote.system \notin {"host", "ssh"} => remote'.topic = remote.topic
  BY <1>1 DEF SameKind, BaseInv
<1>3. remote.system = "home-assistant" => \A c \in Calls : ServiceCalled(c)'
  BY <1>1 DEF RealInv, ServiceCalled
<1>4. remote.system = "pelican" => \A c \in Calls : VariablesSet(c)'
  BY <1>1 DEF RealInv, VariablesSet
<1>5. FilesInv'
  <2>1. CASE remote.system = "pelican"
    <3>1. panelEdit \/ (remote.topic = "files" /\ agentDownloads)
      BY <2>1 DEF Others
    <3> QED
      BY <2>1, <3>1, FilesOthers DEF RealInv
  <2>2. CASE remote.system # "pelican"
    BY <1>2, <2>2 DEF FilesInv
  <2> QED
    BY <2>1, <2>2
<1>6. HostInv'
  <2>1. CASE remote.system = "host"
    <3>1. PICK c \in Calls : helperRuns(c)
      BY <2>1 DEF Others
    <3>2. RunsOK /\ \A d \in Calls : Upgrade(d)
      BY <2>1 DEF RealInv, HostInv
    <3>3. \A d \in Calls : RunsOK' /\ Upgrade(d)'
      BY <3>1, <3>2, HelperStep
    <3> QED
      BY <3>1, <3>3 DEF HostInv
  <2>2. CASE remote.system # "host"
    BY <1>2, <2>2 DEF HostInv
  <2> QED
    BY <2>1, <2>2
<1>7. PowerInv'
  <2>1. CASE remote.system = "uptime-kuma" /\ remote.topic # "windows"
    <3>1. kumaEdit \/ serverTurns
      BY <2>1 DEF Others
    <3>2. ServerOK /\ Active /\ \A d \in Calls : PowerOK(d)
      BY <2>1 DEF RealInv, PowerInv, ServerOK
    <3>3. ServerOK' /\ \A d \in Calls : PowerOK(d)'
      <4>1. CASE serverTurns
        <5>1. ASSUME NEW d \in Calls PROVE ServerOK' /\ PowerOK(d)'
          BY <3>2, <4>1, TurnStep
        <5>2. ServerOK'
          BY <3>2, <4>1, ServerTurned
        <5> QED
          BY <5>1, <5>2
      <4>2. CASE kumaEdit
        <5>1. DOMAIN remote' = DOMAIN remote /\ remote'.server = remote.server
          BY <3>2, <4>2 DEF kumaEdit, Edit, ServerOK
        <5>2. ServerOK'
          BY <3>2, <5>1 DEF ServerOK
        <5>3. ASSUME NEW d \in Calls PROVE PowerOK(d)'
          BY <1>1, <3>2, <5>1 DEF PowerOK
        <5> QED
          BY <5>2, <5>3
      <4> QED
        BY <3>1, <4>1, <4>2
    <3>4. Active'
      BY <1>1, <3>2 DEF Active
    <3> QED
      BY <3>3, <3>4 DEF PowerInv, ServerOK
  <2>2. CASE ~(remote.system = "uptime-kuma" /\ remote.topic # "windows")
    BY <1>2, <2>2 DEF PowerInv
  <2> QED
    BY <2>1, <2>2
<1> QED
  BY <1>2, <1>3, <1>4, <1>5, <1>6, <1>7 DEF RealInv

\* And a step in which nothing changes.
LEMMA RealUnchanged ==
  ASSUME RealInv, UNCHANGED callVars
  PROVE  RealInv'
<1>1. UNCHANGED <<remote, args, at, got, answer, touched>>
  BY DEF callVars
<1>2. \A c \in Calls : ServiceCalled(c)' = ServiceCalled(c) /\ VariablesSet(c)' = VariablesSet(c)
  BY <1>1 DEF ServiceCalled, VariablesSet
<1>3. FilesInv'
  BY <1>1 DEF RealInv, FilesInv, FilesOK, Download
<1>4. HostInv'
  BY <1>1 DEF RealInv, HostInv, RunsOK, Upgrade
<1>5. \A c \in Calls : PowerOK(c)' = PowerOK(c)
  BY <1>1 DEF PowerOK
<1>6. PowerInv'
  BY <1>1, <1>5 DEF RealInv, PowerInv, Active
<1> QED
  BY <1>1, <1>2, <1>3, <1>4, <1>6 DEF RealInv

\* It holds at first, whichever system there is.
LEMMA RealStart ==
  ASSUME ConnectorsInit
  PROVE  RealInv
<1>1. \A c \in Calls : at[c] = "idle" /\ touched[c] = {}
  BY DEF ConnectorsInit, CallInit
<1>2. \A c \in Calls : /\ ServiceCalled(c) /\ VariablesSet(c) /\ Upgrade(c)
                     /\ PowerOK(c) /\ Download(c)
  BY <1>1 DEF ServiceCalled, VariablesSet, Upgrade, PowerOK, Download
<1>3. Active
  BY <1>1 DEF Active
<1> SUFFICES FilesInv /\ HostInv /\ PowerInv
  BY <1>2 DEF RealInv
<1>4. ASSUME remote.system \notin {"pelican", "host", "uptime-kuma"}
      PROVE  FilesInv /\ HostInv /\ PowerInv
  BY <1>4 DEF FilesInv, HostInv, PowerInv
<1>5. CASE UniFiInit
  BY <1>4, <1>5, UniFiAssumption DEF UniFiInit
<1>6. CASE PortainerInit
  BY <1>4, <1>6 DEF PortainerInit
<1>7. CASE ProxmoxInit
  BY <1>4, <1>7 DEF ProxmoxInit
<1>8. CASE HomeAssistantInit
  BY <1>4, <1>8 DEF HomeAssistantInit
<1>9. CASE SshInit
  BY <1>4, <1>9 DEF SshInit
<1>10. CASE PelicanPanelInit
  BY <1>1, <1>2, <1>10, PanelAssumption
     DEF PelicanPanelInit, FilesInv, FilesOK, HostInv, PowerInv
<1>11. CASE PelicanHostInit
  BY <1>2, <1>11, HostAssumption DEF PelicanHostInit, FilesInv, HostInv, RunsOK, PowerInv
<1>12. CASE UptimeKumaInit
  <2>1. /\ remote.system = "uptime-kuma" /\ "server" \in DOMAIN remote
        /\ remote.server \in ServersAtFirst
    BY <1>12 DEF UptimeKumaInit
  <2>2. /\ remote.server.born \in Nat /\ DOMAIN remote.server = {"state", "todo", "born"}
        /\ Paced(remote.server)
    <3> DEFINE s == remote.server
    <3>1. s \in [state : PowerStates, todo : Seq(PowerStates), born : Nat]
      BY <2>1, AtFirst
    <3>2. /\ s.todo \in {<<>>, <<"running">>, <<"offline">>,
                         <<"offline", "starting", "running">>}
          /\ s.todo # <<>> /\ s.todo[1] = "running" => s.state = "starting"
          /\ s.todo # <<>> => s.state # "offline"
      BY <2>1, AtFirst
    <3> HIDE DEF s
    <3>3. Paced(s)
      BY <3>1, <3>2 DEF Paced, Follows
    <3> QED
      BY <3>1, <3>3 DEF s
  <2> QED
    BY <1>2, <1>3, <2>1, <2>2 DEF FilesInv, HostInv, PowerInv
<1> QED
  BY <1>5, <1>6, <1>7, <1>8, <1>9, <1>10, <1>11, <1>12 DEF ConnectorsInit

\* What an answer of success will rely on, for any number of calls.
THEOREM RealInvariant == ConnectorsSpec => [](BaseInv /\ RealInv)
<1>1. BaseInv /\ RealInv /\ [ConnectorsNext]_callVars => RealInv'
  BY RealCallStep, RealOthers, RealUnchanged DEF ConnectorsNext, AllAnswered
<1> QED
  BY <1>1, BaseInvariant, RealStart, PTL DEF ConnectorsSpec

-----------------------------------------------------------------------------

\* The others tell nothing.
LEMMA RealNothingClaimed ==
  ASSUME NEW c \in Calls, args[c].tool \notin Claiming
  PROVE  Real(c)
  BY DEF Claiming, Real

\* The step that says "ok" finds it true, connector by connector: UniFi.
LEMMA UniFiReal ==
  ASSUME FrameOK, NEW c \in Calls, UniFiStep(c), answer[c] # "ok", answer'[c] = "ok",
         at[c] # "idle", args[c] \in UniFiCalls
  PROVE  Real(c)
<1> SUFFICES ASSUME args[c].tool \in {"set_gateway_feature", "set_remote_logging"}
             PROVE  Held(remote[args[c].group], args[c].set)
  BY DEF UniFiCalls, UniFiSettingCalls, UniFiForwardCalls, UniFiReadCalls, Real, Held
<1>1. ASSUME NEW here, NEW said, said # "ok", Reply(c, here, said) PROVE FALSE
  BY <1>1, ReplyStep
<1>2. ASSUME NEW here, NEW value, NEW there, Learn(c, here, value, there) PROVE FALSE
  BY <1>2, LearnStep
<1>3. ASSUME NEW here, NEW new, NEW effect, NEW body, NEW there,
             Change(c, here, new, effect, body, there)
      PROVE  FALSE
  BY <1>3, ChangeStep
<1>4. CASE RewriteGroup(c)
  BY <1>1, <1>2, <1>3, <1>4 DEF RewriteGroup
<1>5. CASE setGatewayFeature(c) \/ setRemoteLogging(c)
  BY <1>1, <1>4, <1>5 DEF setGatewayFeature, setRemoteLogging
<1>6. CASE unifiNotReady(c) \/ Breaks(c, UniFiTools)
  BY <1>1, <1>6 DEF unifiNotReady, Breaks
<1>7. CASE Begin(c, UniFiCalls)
  BY <1>7, BeginStep
<1>8. ~setNetworkIpv6(c) /\ ~createPortForward(c) /\ ~updatePortForward(c)
      /\ ~deletePortForward(c) /\ ~forceProvision(c) /\ ~unifiReads(c) /\ ~unifiSnapshot(c)
  BY DEF setNetworkIpv6, createPortForward, updatePortForward, deletePortForward,
         forceProvision, unifiReads, unifiSnapshot, Does
<1> QED
  BY <1>5, <1>6, <1>7, <1>8 DEF UniFiStep

\* Home Assistant.
LEMMA HomeAssistantReal ==
  ASSUME FrameOK, NEW c \in Calls, HomeAssistantStep(c), answer[c] # "ok", answer'[c] = "ok",
         at[c] # "idle", args[c] \in HomeAssistantCalls, ServiceCalled(c)
  PROVE  Real(c)
<1> SUFFICES ASSUME args[c].tool = "ha_call_service" PROVE touched[c] # {}
  BY DEF HomeAssistantCalls, HAGetCalls, HAServiceCalls, HAReadCalls, Real
<1>1. ASSUME NEW here, NEW said, said # "ok", Reply(c, here, said) PROVE FALSE
  BY <1>1, ReplyStep
<1>2. ASSUME NEW said, Reply(c, "served", said) PROVE touched[c] # {}
  BY <1>2, ReplyStep DEF ServiceCalled
<1>3. ASSUME NEW here, NEW new, NEW effect, NEW body, NEW there,
             Change(c, here, new, effect, body, there)
      PROVE  FALSE
  BY <1>3, ChangeStep
<1>4. ASSUME NEW here, NEW there, Move(c, here, there) PROVE FALSE
  BY <1>4, MoveStep
<1>5. CASE callService(c)
  BY <1>1, <1>3, <1>4, <1>5 DEF callService
<1>6. CASE serviceAnswered(c)
  BY <1>1, <1>2, <1>6 DEF serviceAnswered, CleanAnswer
<1>7. CASE homeAssistantTimesOut(c) \/ Breaks(c, HomeAssistantTools)
  BY <1>1, <1>7 DEF homeAssistantTimesOut, Breaks
<1>8. CASE Begin(c, HomeAssistantCalls)
  BY <1>8, BeginStep
<1>9. ~getRaw(c) /\ ~statesOrLogbook(c) /\ ~haSnapshot(c) /\ ~haSnapshotDone(c)
  BY DEF getRaw, statesOrLogbook, haSnapshot, haSnapshotDone, Does
<1> QED
  BY <1>5, <1>6, <1>7, <1>8, <1>9 DEF HomeAssistantStep

\* Uptime Kuma.
LEMMA UptimeKumaReal ==
  ASSUME BaseInv, KumaTypeOK, NEW c \in Calls, remote.system = "uptime-kuma", UptimeKumaStep(c),
         answer[c] # "ok", answer'[c] = "ok", at[c] # "idle", args[c] \in UptimeKumaCalls,
         remote.topic # "windows" => PowerOK(c)
  PROVE  Real(c)
<1>1. CASE args[c].tool # "white_glove"
  BY <1>1, RealNothingClaimed DEF UptimeKumaCalls, KumaCalls, KumaReadCalls, WhiteGloveCalls,
                                  Claiming
<1>2. CASE args[c].tool = "white_glove"
  <2>1. /\ args[c].signal \in {"stop", "restart"} /\ PowerOK(c)
    BY <1>2 DEF UptimeKumaCalls, KumaCalls, KumaReadCalls, WhiteGloveCalls
  <2>2. ASSUME got[c].reached, at[c] = "resuming" PROVE Real(c)
    <3>1. /\ got[c].born \in Nat /\ remote.server.born \in Nat
          /\ args[c].signal = "stop" => StopHolds(got[c], remote.server)
          /\ args[c].signal # "stop" => RestartHolds(got[c], remote.server)
      BY <1>2, <2>1, <2>2 DEF PowerOK, KumaTypeOK
    <3> QED
      BY <1>2, <2>1, <2>2, <3>1 DEF StopHolds, RestartHolds, Real
  <2> FrameOK
    BY DEF BaseInv
  <2>3. ASSUME NEW here, NEW said, said # "ok", Reply(c, here, said) PROVE FALSE
    BY <2>3, ReplyStep
  <2>4. ASSUME NEW here, NEW value, NEW there, Learn(c, here, value, there) PROVE FALSE
    BY <2>4, LearnStep
  <2>5. ASSUME NEW here, NEW new, NEW mine, NEW there, Step(c, here, new, mine, there)
        PROVE  FALSE
    BY <2>5, SessionStep
  <2>6. ASSUME NEW here, NEW there, Move(c, here, there) PROVE FALSE
    BY <2>6, MoveStep
  <2>7. CASE safeResume(c)
    <3>1. ASSUME Reply(c, "resuming", IF got[c].still # {} THEN "partial"
                                      ELSE IF got[c].reached THEN "ok" ELSE "error")
          PROVE  Real(c)
      <4>1. got[c].reached /\ at[c] = "resuming"
        BY <3>1, ReplyStep
      <4> QED
        BY <2>2, <4>1
    <3> QED
      BY <2>4, <2>5, <2>7, <3>1 DEF safeResume, resumeExactly, resume
  <2>8. CASE whiteGlovePause(c) \/ SessionFails(c)
    BY <2>3, <2>4, <2>5, <2>8 DEF whiteGlovePause, SessionFails, openSession, pause, resume
  <2>9. CASE powerAction(c) \/ waitForPowerState(c)
    BY <2>4, <2>5, <2>6, <2>9 DEF powerAction, waitForPowerState
  <2>10. CASE Begin(c, UptimeKumaCalls)
    BY <2>10, BeginStep
  <2>11. ~pauseMonitor(c) /\ ~resumeMonitor(c) /\ ~maintenance(c) /\ ~endMaintenance(c)
         /\ ~kumaReads(c)
    BY <1>2 DEF pauseMonitor, resumeMonitor, maintenance, endMaintenance, kumaReads,
                KumaReadCalls, Does
  <2> QED
    BY <2>7, <2>8, <2>9, <2>10, <2>11 DEF UptimeKumaStep
<1> QED
  BY <1>1, <1>2

\* Pelican's panel.
LEMMA PelicanPanelReal ==
  ASSUME BaseInv, RealInv, remote.system = "pelican", NEW c \in Calls, PelicanPanelStep(c),
         answer[c] # "ok", answer'[c] = "ok", at[c] # "idle", args[c] \in PanelCalls
  PROVE  Real(c)
<1> FrameOK
  BY DEF BaseInv
<1>1. ASSUME NEW here, NEW said, said # "ok", Reply(c, here, said) PROVE FALSE
  BY <1>1, ReplyStep
<1>2. ASSUME NEW here, NEW value, NEW there, Learn(c, here, value, there) PROVE FALSE
  BY <1>2, LearnStep
<1>3. CASE Breaks(c, PanelTools) \/ panelNotReady(c)
  BY <1>1, <1>3 DEF panelNotReady, Breaks
<1>4. CASE Begin(c, PanelCalls)
  BY <1>4, BeginStep
<1>5. CASE args[c].tool = "pull_file"
  <2>1. remote.topic = "files" /\ args[c] \in FileCalls
    BY <1>5 DEF PanelCalls, BuildCalls, StartupCalls, ScheduleCalls, ProvisionCalls, EggCalls,
               PanelReadCalls
  <2>2. FilesOK /\ Download(c)
    BY <2>1 DEF RealInv, FilesInv
  <2>3. CASE waitForFile(c)
    <3> DEFINE size == remote.file.size
               expected == args[c].pull.expected
    <3>1. at[c] = "poll" /\ Landed(got[c], size, expected)
      BY <1>1, <1>2, <2>3 DEF waitForFile
    <3>2. CASE expected # None
      <4>1. size = expected
        BY <3>1, <3>2 DEF Landed
      <4>2. size = remote.upstream \/ size < remote.upstream
        BY <2>2 DEF FilesOK
      <4> QED
        BY <1>5, <3>2, <4>1, <4>2 DEF Real
    <3>3. CASE expected = None
      <4>1. got[c].settled => size = remote.upstream
        BY <1>5, <2>2, <3>1 DEF Download
      <4> QED
        BY <1>5, <3>3, <4>1 DEF Real
    <3> QED
      BY <3>2, <3>3
  <2>4. CASE pullFile(c)
    BY <1>1, <2>4 DEF pullFile
  <2>5. ~updateServerBuild(c) /\ ~updateServerStartup(c) /\ ~createSchedule(c)
        /\ ~updateSchedule(c) /\ ~deleteSchedule(c) /\ ~createAllocations(c)
        /\ ~assignAllocation(c) /\ ~createServer(c) /\ ~importEgg(c)
        /\ ~updateStartupVariables(c)
    BY <1>5 DEF updateServerBuild, updateServerStartup, createSchedule, updateSchedule,
                deleteSchedule, createAllocations, assignAllocation, createServer, importEgg,
                updateStartupVariables, Ready, Does
  <2>6. ~fileOperation(c) /\ ~readFile(c) /\ ~list(c) /\ ~pelicanSnapshot(c)
    BY <1>5 DEF fileOperation, FileOps, readFile, list, PanelReadCalls, pelicanSnapshot, Ready,
                Does
  <2> QED
    BY <1>3, <1>4, <2>3, <2>4, <2>5, <2>6 DEF PelicanPanelStep
<1>6. CASE args[c].tool = "update_startup_variables"
  <2>1. CASE updateStartupVariables(c)
    <3>1. VariablesSet(c)
      BY DEF RealInv
    <3>2. at[c] = "next" /\ DOMAIN args[c].set \ got[c] = {}
      BY <1>1, <1>2, <2>1 DEF updateStartupVariables
    <3>3. DOMAIN args[c].set = touched[c]
      BY <1>6, <3>1, <3>2 DEF VariablesSet
    <3> QED
      BY <1>6, <3>3 DEF Real
  <2>2. ~updateServerBuild(c) /\ ~updateServerStartup(c) /\ ~createSchedule(c)
        /\ ~updateSchedule(c) /\ ~deleteSchedule(c) /\ ~createAllocations(c)
        /\ ~assignAllocation(c) /\ ~createServer(c) /\ ~importEgg(c)
    BY <1>6 DEF updateServerBuild, updateServerStartup, createSchedule, updateSchedule,
                deleteSchedule, createAllocations, assignAllocation, createServer, importEgg,
                Ready, Does
  <2>3. ~fileOperation(c) /\ ~pullFile(c) /\ ~waitForFile(c) /\ ~readFile(c) /\ ~list(c)
        /\ ~pelicanSnapshot(c)
    BY <1>6 DEF fileOperation, FileOps, pullFile, waitForFile, readFile, list, PanelReadCalls,
                pelicanSnapshot, Ready, Does
  <2> QED
    BY <1>3, <1>4, <2>1, <2>2, <2>3 DEF PelicanPanelStep
<1>7. CASE args[c].tool \notin {"pull_file", "update_startup_variables"}
  BY <1>7, RealNothingClaimed
     DEF PanelCalls, BuildCalls, StartupCalls, ScheduleCalls, ProvisionCalls, EggCalls,
         FileCalls, FileOps, PanelReadCalls, Claiming
<1> QED
  BY <1>5, <1>6, <1>7

\* The panel's host.
LEMMA PelicanHostReal ==
  ASSUME BaseInv, RealInv, remote.system = "host", NEW c \in Calls, PelicanHostStep(c),
         answer[c] # "ok", answer'[c] = "ok", at[c] # "idle", args[c] \in HostCalls
  PROVE  Real(c)
<1> FrameOK
  BY DEF BaseInv
<1>1. CASE args[c].tool # "panel_upgrade"
  BY <1>1, RealNothingClaimed DEF HostCalls, Claiming
<1>2. CASE args[c].tool = "panel_upgrade"
  <2>1. ASSUME NEW here, NEW said, said # "ok", Reply(c, here, said) PROVE FALSE
    BY <2>1, ReplyStep
  <2>2. ASSUME NEW here, NEW value, NEW there, Learn(c, here, value, there) PROVE FALSE
    BY <2>2, LearnStep
  <2>3. ASSUME NEW here, NEW there, Move(c, here, there) PROVE FALSE
    BY <2>3, MoveStep
  <2>4. ASSUME NEW here, NEW job, NEW why, helperCommand(c, here, job, why) PROVE FALSE
    BY <2>4, ChangeStep DEF helperCommand
  <2>5. CASE panelUpgrade(c)
    <3>1. Upgrade(c)
      BY DEF RealInv, HostInv
    <3>2. at[c] = "helper" /\ Reply(c, "helper", parseUpgradeResult(remote.run[c]))
      BY <2>1, <2>2, <2>3, <2>4, <2>5 DEF panelUpgrade
    <3>3. parseUpgradeResult(remote.run[c]) = "ok"
      BY <3>2, ReplyStep
    <3>4. remote.run[c].state = "done"
      BY <3>3 DEF parseUpgradeResult
    <3> QED
      BY <1>2, <3>1, <3>2, <3>4 DEF Upgrade, Real
  <2>6. CASE panelHost(c) \/ Breaks(c, HostTools)
    BY <2>1, <2>6 DEF panelHost, Breaks
  <2>7. CASE Begin(c, HostCalls)
    BY <2>7, BeginStep
  <2>8. ~panelPrepareRuntime(c) /\ ~panelPatchRuntime(c) /\ ~wingsUpdate(c)
        /\ ~helperAnswers(c) /\ ~panelVersion(c)
    BY <1>2 DEF panelPrepareRuntime, panelPatchRuntime, wingsUpdate, helperAnswers,
                panelVersion, Does
  <2> QED
    BY <2>5, <2>6, <2>7, <2>8 DEF PelicanHostStep
<1> QED
  BY <1>1, <1>2

\* A caller who is told "ok" can rely on it, for any number of calls.
THEOREM SuccessCanBeReliedOn == ConnectorsSpec => SuccessIsReal
<1>1. ASSUME BaseInv, KumaHolds, RealInv, [ConnectorsNext]_callVars, NEW c \in Calls,
             answer[c] # "ok", answer'[c] = "ok"
      PROVE  Real(c)
  <2>1. ASSUME CallStep(c) PROVE Real(c)
    <3>1. at[c] # "idle" /\ args[c] \in Accepted
      <4>1. Proper(c, Accepted)
        BY <1>1, <2>1, StepProper
      <4> QED
        BY <1>1, <4>1 DEF Proper, BaseInv
    <3>2. FrameOK
      BY <1>1 DEF BaseInv
    <3>3. CASE remote.system = "unifi"
      BY <1>1, <2>1, <3>1, <3>2, <3>3, UniFiReal DEF CallStep, Accepted
    <3>4. CASE remote.system = "portainer"
      BY <3>1, <3>4, RealNothingClaimed
         DEF Accepted, PortainerCalls, StackCalls, ContainerCalls, PortainerReadCalls, LogCalls,
             Claiming
    <3>5. CASE remote.system = "proxmox"
      BY <3>1, <3>5, RealNothingClaimed DEF Accepted, GuestCalls, ProxmoxReadCalls, Claiming
    <3>6. CASE remote.system = "home-assistant"
      BY <1>1, <2>1, <3>1, <3>2, <3>6, HomeAssistantReal DEF CallStep, Accepted, RealInv
    <3>7. CASE remote.system = "uptime-kuma"
      BY <1>1, <2>1, <3>1, <3>7, UptimeKumaReal
         DEF CallStep, Accepted, RealInv, PowerInv, KumaHolds, KumaInv
    <3>8. CASE remote.system = "pelican"
      BY <1>1, <2>1, <3>1, <3>8, PelicanPanelReal DEF CallStep, Accepted
    <3>9. CASE remote.system = "host"
      BY <1>1, <2>1, <3>1, <3>9, PelicanHostReal DEF CallStep, Accepted
    <3>10. CASE remote.system = "ssh"
      BY <3>1, <3>10, RealNothingClaimed DEF Accepted, SshCalls, Claiming
    <3> QED
      BY <2>1, <3>3, <3>4, <3>5, <3>6, <3>7, <3>8, <3>9, <3>10 DEF CallStep
  <2>2. ASSUME NEW d \in Calls \ {c}, CallStep(d) PROVE answer'[c] = answer[c]
    BY <1>1, <2>2, StepProper DEF Proper, Only
  <2>3. Others \/ UNCHANGED callVars => answer' = answer
    BY <1>1, OthersFrame DEF BaseInv, callVars
  <2> QED
    BY <1>1, <2>1, <2>2, <2>3 DEF ConnectorsNext, AllAnswered
<1>2. BaseInv /\ KumaHolds /\ RealInv /\ [ConnectorsNext]_callVars =>
        [\A c \in Calls : answer[c] # "ok" /\ answer'[c] = "ok" => Real(c)]_callVars
  BY <1>1
<1>3. [\A c \in Calls : answer[c] # "ok" /\ answer'[c] = "ok" => Real(c)]_callVars =>
        [ \A c \in Calls :
            answer[c] # "ok" /\ answer'[c] = "ok" =>
              LET a == args[c] IN
              /\ a.tool \in {"set_gateway_feature", "set_remote_logging"} =>
                   \A f \in DOMAIN a.set : remote[a.group][f] = a.set[f]
              /\ a.tool = "ha_call_service" => touched[c] # {}
              /\ a.tool = "white_glove" =>
                   /\ a.signal = "restart" =>
                        remote.server.born > got[c].born \/ got[c].was = "starting"
                   /\ a.signal = "stop" =>
                        remote.server.state = "offline" \/ got[c].restarting
              /\ a.tool = "pull_file" =>
                   \/ remote.file.size = remote.upstream
                   \/ a.pull.expected = None /\ ~got[c].settled
                   \/ a.pull.expected # None /\ a.pull.expected < remote.upstream
              /\ a.tool = "update_startup_variables" => DOMAIN a.set = touched[c]
              /\ a.tool = "panel_upgrade" =>
                   remote.run[c].n = Len(PANEL_UPGRADE_STEP_NAMES) ]_callVars
  BY DEF Real
<1> QED
  BY <1>2, <1>3, KumaInvariant, RealInvariant, PTL DEF ConnectorsSpec, SuccessIsReal

-----------------------------------------------------------------------------
(* What phpSatisfies says yes to, the requirement admits.                    *)

\* Two versions are compared by the first part in which they differ.
LEMMA ComparedByParts ==
  ASSUME NEW a \in Triples, NEW b \in Triples
  PROVE  cmpTriple(a, b) = IF Less(a, b) THEN -1 ELSE IF Less(b, a) THEN 1 ELSE 0
<1> DEFINE d == { i \in 1..3 : a[i] # b[i] }
           i == CHOOSE j \in d : \A k \in d : j <= k
<1>1. a[1] \in Nat /\ a[2] \in Nat /\ a[3] \in Nat /\ b[1] \in Nat /\ b[2] \in Nat /\ b[3] \in Nat
  BY DEF Triples
<1>2. CASE d = {}
  <2>1. 1 \in 1..3 /\ 2 \in 1..3 /\ 3 \in 1..3
    OBVIOUS
  <2>2. a[1] = b[1] /\ a[2] = b[2] /\ a[3] = b[3]
    BY <1>2, <2>1
  <2>3. cmpTriple(a, b) = 0
    BY <1>2 DEF cmpTriple
  <2> QED
    BY <1>1, <2>2, <2>3 DEF Less
<1>3. CASE d # {}
  <2>1. cmpTriple(a, b) = IF a[i] < b[i] THEN -1 ELSE 1
    BY <1>3 DEF cmpTriple
  <2>2. \E j \in d : \A k \in d : j <= k
    <3>1. CASE 1 \in d
      BY <3>1
    <3>2. CASE 1 \notin d /\ 2 \in d
      BY <3>2
    <3>3. CASE 1 \notin d /\ 2 \notin d
      <4>1. d = {3}
        BY <1>3, <3>3
      <4> QED
        BY <4>1
    <3> QED
      BY <3>1, <3>2, <3>3
  <2>3. i \in d /\ \A k \in d : i <= k
    BY <2>2
  <2>4. i \in 1..3 /\ a[i] # b[i] /\ \A k \in 1..3 : k < i => a[k] = b[k]
    BY <2>3
  <2> HIDE DEF i, d
  <2>5. CASE i = 1
    BY <1>1, <2>1, <2>4, <2>5 DEF Less
  <2>6. CASE i = 2
    <3>1. a[1] = b[1]
      BY <2>4, <2>6
    <3> QED
      BY <1>1, <2>1, <2>4, <2>6, <3>1 DEF Less
  <2>7. CASE i = 3
    <3>1. a[1] = b[1] /\ a[2] = b[2]
      BY <2>4, <2>7
    <3> QED
      BY <1>1, <2>1, <2>4, <2>7, <3>1 DEF Less
  <2> QED
    BY <2>4, <2>5, <2>6, <2>7
<1> QED
  BY <1>2, <1>3

\* A version that is compared with a bound is not before it, or not after it.
LEMMA AtLeast ==
  ASSUME NEW v \in Triples, NEW x \in Triples, NEW b \in BOOLEAN,
         cmpTriple(v, x) >= IF b THEN 0 ELSE 1
  PROVE  ~Less(v, x) /\ (~b => Less(x, v))
<1>1. cmpTriple(v, x) = IF Less(v, x) THEN -1 ELSE IF Less(x, v) THEN 1 ELSE 0
  BY ComparedByParts
<1> HIDE DEF cmpTriple
<1> QED
  BY <1>1

\* And the other way round, for the upper bound.
LEMMA AtMost ==
  ASSUME NEW v \in Triples, NEW x \in Triples, NEW b \in BOOLEAN,
         cmpTriple(v, x) <= IF b THEN 0 ELSE -1
  PROVE  ~Less(x, v) /\ (~b => Less(v, x))
<1>1. cmpTriple(v, x) = IF Less(v, x) THEN -1 ELSE IF Less(x, v) THEN 1 ELSE 0
  BY ComparedByParts
<1>2. ~(Less(v, x) /\ Less(x, v))
  BY DEF Less, Triples
<1> QED
  BY <1>1, <1>2

\* The range of a token is the one its operator names.
LEMMA RangeIs ==
  ASSUME NEW t, Len(t.v) \in 1..3, NEW v, v = parseVersionParts(t.v),
         NEW n, n = Len(t.v), NEW r, r = parseConstraintToken(t)
  PROVE  IsRange(t.op, v, n, r)
<1>1. t.op = "^" => r = Within(v, IF v[1] > 0 THEN 1 ELSE 2)
  BY DEF parseConstraintToken
<1>2. t.op = "~" => r = Within(v, IF n = 3 THEN 2 ELSE 1)
  BY DEF parseConstraintToken
<1>3. t.op = "*" /\ n < 3 => r = Within(v, n)
  BY DEF parseConstraintToken
<1>14. t.op = "bare" /\ n < 3 => r = Within(v, n)
  BY DEF parseConstraintToken
<1>4. t.op = "*" /\ n = 3 => r = None
  BY DEF parseConstraintToken
<1>5. t.op = ">=" => r = [lo |-> Bound(v, TRUE), hi |-> None]
  BY DEF parseConstraintToken
<1>6. t.op = ">" => r = [lo |-> Bound(v, FALSE), hi |-> None]
  BY DEF parseConstraintToken
<1>7. t.op = "<" => r = [lo |-> None, hi |-> Bound(v, FALSE)]
  BY DEF parseConstraintToken
<1>8. t.op = "upto" /\ n < 3 => r = [lo |-> None, hi |-> Bound(bump(v, n), FALSE)]
  BY DEF parseConstraintToken
<1>9. t.op = "<=" => r = [lo |-> None, hi |-> Bound(v, TRUE)]
  BY DEF parseConstraintToken
<1>10. t.op = "upto" /\ n = 3 => r = [lo |-> None, hi |-> Bound(v, TRUE)]
  BY DEF parseConstraintToken
<1>11. t.op = "=" => r = [lo |-> Bound(v, TRUE), hi |-> Bound(v, TRUE)]
  BY DEF parseConstraintToken
<1>12. t.op = "bare" /\ n = 3 => r = [lo |-> Bound(v, TRUE), hi |-> Bound(v, TRUE)]
  BY DEF parseConstraintToken
<1>13. t.op \notin {"^", "~", "*", "bare", ">=", ">", "<", "<=", "upto", "=", "any"} => r = None
  <2> SUFFICES ASSUME t.op \notin {"^", "~", "*", "bare", ">=", ">", "<", "<=", "upto", "=", "any"}
               PROVE  r = None
    OBVIOUS
  <2> QED
    BY DEF parseConstraintToken
<1> QED
  BY <1>1, <1>2, <1>3, <1>4, <1>5, <1>6, <1>7, <1>8, <1>9, <1>10, <1>11, <1>12, <1>13, <1>14
     DEF IsRange

\* A version within the range of a token is one that the token admits.
LEMMA TokenAdmits ==
  ASSUME NEW t, IsToken(t), NEW w \in Versions, parseConstraintToken(t) # None,
         inRange(w, parseConstraintToken(t))
  PROVE  AdmitsToken(t, w)
<1> DEFINE n == Len(t.v)
           v == parseVersionParts(t.v)
           r == parseConstraintToken(t)
           same(k) == \A i \in 1..k : w[i] = Part(t.v, i)
           number(x) == Part(x, 1) * 10000 + Part(x, 2) * 100 + Part(x, 3)
<1> HIDE DEF v, same, number
<1>1. v \in (0..99) \X (0..99) \X (0..99) /\ v = <<Part(t.v, 1), Part(t.v, 2), Part(t.v, 3)>>
  <2>1. ASSUME NEW i \in 1..3 PROVE Part(t.v, i) \in 0..99
    <3>1. CASE i <= n
      <4>1. i \in 1..Len(t.v)
        BY <3>1 DEF IsToken
      <4> QED
        BY <4>1, <3>1 DEF IsToken, Part
    <3>2. CASE ~(i <= n)
      BY <3>2 DEF Part
    <3> QED
      BY <3>1, <3>2
  <2> QED
    BY <2>1 DEF parseVersionParts, v
<1>2. w \in Triples /\ w = <<8, w[2], w[3]>> /\ w[2] \in 0..99 /\ w[3] \in 0..99 /\ Len(w) = 3
  BY DEF Versions, PhpMinors, PhpPatches, Triples
<1>3. number(w) = 80000 + w[2] * 100 + w[3]
  BY <1>2 DEF Part, number
<1>4. number(t.v) = v[1] * 10000 + v[2] * 100 + v[3]
  BY <1>1 DEF number
<1>5. \A b \in {TRUE, FALSE} : \A x \in Triples : Bound(x, b) # None
  <2>1. \A b \in {TRUE, FALSE} : \A x \in Triples :
          Bound(x, b) \in [v : Nat \X Nat \X Nat, inclusive : BOOLEAN]
    BY DEF Bound, Triples
  <2> QED
    BY <2>1, RuntimeAssumption
<1>6. v \in Triples /\ \A p \in 1..3 : bump(v, p) \in Triples
  BY <1>1 DEF Triples, bump
<1>7. n \in 1..3
  BY DEF IsToken
\* What a range that has these bounds says of the version.
<1>8. ASSUME NEW b \in BOOLEAN, r.lo = Bound(v, b)
      PROVE  ~Less(w, v) /\ (~b => Less(v, w))
  <2>1. r.lo # None /\ r.lo.v = v /\ r.lo.inclusive = b
    BY <1>5, <1>6, <1>8 DEF Bound
  <2>2. cmpTriple(w, v) >= IF b THEN 0 ELSE 1
    BY <2>1 DEF inRange
  <2> QED
    BY <1>2, <1>6, <2>2, AtLeast
<1>9. ASSUME NEW x \in Triples, NEW b \in BOOLEAN, r.hi = Bound(x, b)
      PROVE  ~Less(x, w) /\ (~b => Less(w, x))
  <2>1. r.hi # None /\ r.hi.v = x /\ r.hi.inclusive = b
    BY <1>5, <1>9 DEF Bound
  <2>2. cmpTriple(w, x) <= IF b THEN 0 ELSE -1
    BY <2>1 DEF inRange
  <2> QED
    BY <1>2, <2>2, AtMost
<1>19. w[1] = 8 /\ v[1] \in 0..99 /\ v[2] \in 0..99 /\ v[3] \in 0..99
  BY <1>1, <1>2
<1>10. /\ number(w) \in Nat /\ number(t.v) \in Nat
       /\ Less(w, v) <=> number(w) < number(t.v)
       /\ Less(v, w) <=> number(t.v) < number(w)
  <2> DEFINE e == w[1]  a == w[2]  b == w[3]  x == v[1]  y == v[2]  z == v[3]
  <2>1. a \in 0..99 /\ b \in 0..99 /\ x \in 0..99 /\ y \in 0..99 /\ z \in 0..99 /\ e \in 0..99
    BY <1>2, <1>19
  <2>2. number(w) = e * 10000 + a * 100 + b /\ number(t.v) = x * 10000 + y * 100 + z
    BY <1>3, <1>4, <1>19
  <2>3. /\ Less(w, v) <=> e < x \/ (e = x /\ a < y) \/ (e = x /\ a = y /\ b < z)
        /\ Less(v, w) <=> x < e \/ (x = e /\ y < a) \/ (x = e /\ y = a /\ z < b)
    BY <1>19 DEF Less
  <2> HIDE DEF e, a, b, x, y, z
  <2>4. e * 10000 + a * 100 + b < x * 10000 + y * 100 + z
          <=> e < x \/ (e = x /\ a < y) \/ (e = x /\ a = y /\ b < z)
    BY <2>1, SMT
  <2>5. x * 10000 + y * 100 + z < e * 10000 + a * 100 + b
          <=> x < e \/ (x = e /\ y < a) \/ (x = e /\ y = a /\ z < b)
    BY <2>1, SMT
  <2>6. e * 10000 + a * 100 + b \in Nat /\ x * 10000 + y * 100 + z \in Nat
    BY <2>1
  <2> QED
    BY <2>2, <2>3, <2>4, <2>5, <2>6
\* As many parts are the same as the range from the version to its successor keeps.
<1>14. ASSUME ~Less(w, v), Less(w, bump(v, 1)) PROVE w[1] = v[1]
  BY <1>2, <1>19, <1>14 DEF Less, bump
<1>15. ASSUME ~Less(w, v), Less(w, bump(v, 2)) PROVE w[1] = v[1] /\ w[2] = v[2]
  BY <1>2, <1>19, <1>15 DEF Less, bump
<1>16. ASSUME ~Less(w, v), ~Less(v, w) PROVE w[1] = v[1] /\ w[2] = v[2] /\ w[3] = v[3]
  BY <1>2, <1>19, <1>16, SMTT(20) DEF Less
<1>17. /\ w[1] = v[1] => same(1)
       /\ w[1] = v[1] /\ w[2] = v[2] => same(2)
       /\ w[1] = v[1] /\ w[2] = v[2] /\ w[3] = v[3] => same(3)
  BY <1>1 DEF same
<1>18. ASSUME NEW p \in 1..3, r = Within(v, p)
       PROVE  ~Less(w, v) /\ Less(w, bump(v, p))
  <2>1. r.lo = Bound(v, TRUE) /\ r.hi = Bound(bump(v, p), FALSE)
    BY <1>18 DEF Within
  <2> QED
    BY <1>6, <1>8, <1>9, <2>1
<1>19a. n = Len(t.v)
  OBVIOUS
<1>20. IsRange(t.op, v, n, r)
  BY <1>7, RangeIs DEF v
<1>21. r # None
  OBVIOUS
<1> HIDE DEF r, n
<1> DEFINE Goal == AdmitsToken(t, w)
<1> SUFFICES Goal
  OBVIOUS
<1>30. CASE t.op = "^"
  <2>1. r = Within(v, IF v[1] > 0 THEN 1 ELSE 2)
    BY <1>30, <1>20 DEF IsRange
  <2>2. ~Less(w, v) /\ w[1] = v[1]
    BY <1>14, <1>15, <1>18, <2>1
  <2>3. same(1) /\ number(w) >= number(t.v)
    BY <1>10, <1>17, <2>2
  <2> QED
    BY <1>30, <2>3 DEF AdmitsToken, same, number, n
<1>31. CASE t.op = "~"
  <2>1. r = Within(v, IF n = 3 THEN 2 ELSE 1)
    BY <1>31, <1>20 DEF IsRange
  <2>2. ~Less(w, v) /\ w[1] = v[1] /\ (n = 3 => w[2] = v[2])
    BY <1>14, <1>15, <1>18, <2>1
  <2>3. same(IF n = 3 THEN 2 ELSE 1) /\ number(w) >= number(t.v)
    BY <1>10, <1>17, <2>2
  <2> QED
    BY <1>31, <2>3 DEF AdmitsToken, same, number, n
<1>32. CASE t.op = "*" \/ (t.op = "bare" /\ n < 3)
  <2>1. n < 3 /\ r = Within(v, n)
    BY <1>7, <1>32, <1>20, <1>21 DEF IsRange
  <2>2. (n = 1 /\ w[1] = v[1]) \/ (n = 2 /\ w[1] = v[1] /\ w[2] = v[2])
    BY <1>7, <1>14, <1>15, <1>18, <2>1
  <2>3. same(n)
    BY <1>17, <2>2
  <2> QED
    BY <1>7, <1>32, <2>3 DEF AdmitsToken, same, n
<1>33. CASE t.op = ">="
  <2>0. r = [lo |-> Bound(v, TRUE), hi |-> None]
    BY <1>7, <1>33, <1>20 DEF IsRange
  <2>1. r.lo = Bound(v, TRUE)
    BY <2>0
  <2>2. ~Less(w, v)
    BY <1>8, <2>1
  <2>3. number(w) >= number(t.v)
    BY <1>10, <2>2
  <2> QED
    BY <1>33, <2>3 DEF AdmitsToken, number
<1>34. CASE t.op = ">"
  <2>0. r = [lo |-> Bound(v, FALSE), hi |-> None]
    BY <1>7, <1>34, <1>20 DEF IsRange
  <2>1. r.lo = Bound(v, FALSE)
    BY <2>0
  <2>2. number(w) > number(t.v)
    BY <1>8, <1>10, <2>1
  <2> QED
    BY <1>34, <2>2 DEF AdmitsToken, number
<1>35. CASE t.op = "<"
  <2>0. r = [lo |-> None, hi |-> Bound(v, FALSE)]
    BY <1>7, <1>35, <1>20 DEF IsRange
  <2>1. r.hi = Bound(v, FALSE)
    BY <2>0
  <2>2. number(w) < number(t.v)
    BY <1>6, <1>9, <1>10, <2>1
  <2> QED
    BY <1>35, <2>2 DEF AdmitsToken, number
<1>36. CASE t.op = "<="
  <2>0. r = [lo |-> None, hi |-> Bound(v, TRUE)]
    BY <1>7, <1>36, <1>20 DEF IsRange
  <2>1. r.hi = Bound(v, TRUE)
    BY <2>0
  <2>2. ~Less(v, w)
    BY <1>6, <1>9, <2>1
  <2>3. number(w) <= number(t.v)
    BY <1>10, <2>2
  <2> QED
    BY <1>36, <2>3 DEF AdmitsToken, number
<1>37. CASE t.op = "upto" /\ n < 3
  <2>0. r = [lo |-> None, hi |-> Bound(bump(v, n), FALSE)]
    BY <1>7, <1>37, <1>20 DEF IsRange
  <2>1. r.hi = Bound(bump(v, n), FALSE) /\ bump(v, n) \in Triples
    BY <1>6, <1>7, <2>0
  <2>2. Less(w, bump(v, n)) /\ (n = 1 \/ n = 2)
    <3>1. Less(w, bump(v, n))
      BY <1>9, <2>1
    <3> QED
      BY <1>7, <1>37, <3>1
  <2>3. \/ Less(w, v)
        \/ n = 1 /\ w[1] = v[1]
        \/ n = 2 /\ w[1] = v[1] /\ w[2] = v[2]
    BY <1>14, <1>15, <2>2
  <2>4. same(n) \/ number(w) < number(t.v)
    BY <1>10, <1>17, <2>3
  <2> QED
    BY <1>37, <2>4 DEF AdmitsToken, same, number, n
<1>38. CASE t.op = "upto" /\ n = 3
  <2>0. r = [lo |-> None, hi |-> Bound(v, TRUE)]
    BY <1>7, <1>38, <1>20 DEF IsRange
  <2>1. r.hi = Bound(v, TRUE)
    BY <2>0
  <2>2. Less(w, v) \/ same(3)
    BY <1>6, <1>9, <1>16, <1>17, <2>1
  <2>3. same(n) \/ number(w) < number(t.v)
    BY <1>10, <1>38, <2>2
  <2> QED
    BY <1>38, <2>3 DEF AdmitsToken, same, number, n
<1>39. CASE t.op = "=" \/ (t.op = "bare" /\ n = 3)
  <2>0. r = [lo |-> Bound(v, TRUE), hi |-> Bound(v, TRUE)]
    BY <1>7, <1>39, <1>20 DEF IsRange
  <2>1. r.lo = Bound(v, TRUE) /\ r.hi = Bound(v, TRUE)
    BY <2>0
  <2>2. same(3)
    BY <1>6, <1>8, <1>9, <1>16, <1>17, <2>1
  <2>3. t.op = "=" => AdmitsToken(t, w)
    BY <2>2 DEF AdmitsToken, same
  <2>4. ASSUME t.op = "bare" PROVE AdmitsToken(t, w)
    <3>1. n = 3
      BY <1>39, <2>4
    <3>2. same(n)
      BY <2>2, <3>1
    <3> QED
      BY <2>4, <3>2 DEF AdmitsToken, same, n
  <2> QED
    BY <1>39, <2>3, <2>4
<1>40. CASE t.op = "any"
  BY <1>40 DEF AdmitsToken
<1>41. CASE t.op \notin {"^", "~", "*", "bare", ">=", ">", "<", "<=", "upto", "=", "any"}
  BY <1>20, <1>21, <1>41 DEF IsRange
<1> QED
  BY <1>7, <1>30, <1>31, <1>32, <1>33, <1>34, <1>35, <1>36, <1>37, <1>38, <1>39, <1>40, <1>41

\* What phpSatisfies says yes to, the requirement admits.
LEMMA SatisfiedIsAdmitted ==
  ASSUME NEW q, IsRequirement(q), NEW w \in Versions, phpSatisfies(q, w) = "yes"
  PROVE  Admits(q, w)
<1>1. /\ \A alt \in q : \A t \in alt : parseConstraintToken(t) # None
      /\ \E alt \in q : \A t \in alt : inRange(w, parseConstraintToken(t))
  BY DEF phpSatisfies
<1>2. PICK alt \in q : \A t \in alt : inRange(w, parseConstraintToken(t))
  BY <1>1
<1>3. \A t \in alt : AdmitsToken(t, w)
  BY <1>1, <1>2, TokenAdmits DEF IsRequirement
<1> QED
  BY <1>3 DEF Admits

\* A call that takes no step keeps its process.
LEMMA JobKept ==
  ASSUME Kept, NEW c \in Calls, Job(c), args'[c] = args[c], remote'.run[c] = remote.run[c],
         at'[c] = at[c] \/ at'[c] \in {"helper", "done"}
  PROVE  Job(c)'
<1> QED
  BY DEF Job, Kept

\* What it relies on is still so: no step makes it wrong.
LEMMA FoundKept ==
  ASSUME Kept, NEW c \in Calls, Found(c), args'[c] = args[c], got'[c] = got[c],
         Started(c)' = Started(c), at'[c] = at[c] \/ at'[c] = "done"
  PROVE  Found(c)'
<1>1. /\ \A m : Came(m) => Came(m)'
      /\ \A v : Runs(v) => Runs(v)'
      /\ \A v : Fits(v) => Fits(v)'
      /\ Prepared => Prepared'
      /\ remote'.requires = remote.requires
  BY DEF Kept
<1>2. /\ at'[c] = "status" => at[c] = "status"
      /\ at'[c] = "current" => at[c] = "current"
      /\ Given(c)' => Given(c)
  BY DEF Given
<1>3. UpgradeFound(c)'
  BY <1>1, <1>2 DEF Found, UpgradeFound
<1>4. SwitchFound(c)'
  BY <1>1, <1>2 DEF Found, SwitchFound
<1>5. PatchFound(c)'
  BY <1>1, <1>2 DEF Found, PatchFound
<1> QED
  BY <1>3, <1>4, <1>5 DEF Found

\* Steps that change neither a version nor a requirement, and lose no run.
LEMMA CalmStep ==
  ASSUME HostTypeOK, HostFits,
         DOMAIN remote' = DOMAIN remote, DOMAIN remote'.run = Calls,
         \A x \in {"installed", "php", "socket", "bak", "requires"} : remote'[x] = remote[x],
         \A d \in Calls : HasSetPhp(d) => HasSetPhp(d)' /\ args'[d] = args[d],
         \A d \in Calls : Extracted(d) => Extracted(d)'
  PROVE  Kept /\ HostTypeOK' /\ HostFits'
<1>1. /\ remote'.installed = remote.installed /\ remote'.php = remote.php
      /\ remote'.socket = remote.socket /\ remote'.bak = remote.bak
      /\ remote'.requires = remote.requires
  OBVIOUS
<1>2. \A m : Came(m) => Came(m)'
  BY <1>1 DEF Came
<1>3. \A v : Runs(v)' = Runs(v)
  BY <1>1 DEF Runs
<1>4. PatchedBack => PatchedBack'
  BY <1>1 DEF PatchedBack
<1>5. \A v : Fits(v) => Fits(v)'
  BY <1>1 DEF Fits
<1>6. Loose => Loose'
  BY <1>1 DEF Loose
<1>7. SwitchedForAnother => SwitchedForAnother'
  BY <1>1 DEF SwitchedForAnother
<1>8. Kept
  BY <1>1, <1>2, <1>3, <1>4, <1>5, <1>6 DEF Kept, Prepared
<1>9. HostTypeOK'
  BY <1>1 DEF HostTypeOK
<1>10. HostFits'
  BY <1>1, <1>2, <1>4, <1>7 DEF HostFits
<1> QED
  BY <1>8, <1>9, <1>10

\* A handler's step: its own knowledge holds, and that of the others is kept.
LEMMA HandlerFinds ==
  ASSUME FrameOK, HostTypeOK, HostFits, NEW c \in Calls, Job(c), Found(c),
         at[c] # "idle" => args[c] \in HostCalls, PelicanHostStep(c)
  PROVE  /\ Kept /\ HostTypeOK' /\ HostFits' /\ Job(c)' /\ Found(c)'
         /\ \A d \in Calls \ {c} : remote'.run[d] = remote.run[d]
<1> DEFINE Goal == /\ Kept /\ HostTypeOK' /\ HostFits' /\ Job(c)' /\ Found(c)'
                   /\ \A d \in Calls \ {c} : remote'.run[d] = remote.run[d]
<1> SUFFICES Goal
  OBVIOUS
<1>1. ASSUME remote' = remote, \A d \in Calls : HasSetPhp(d) => args'[d] = args[d]
      PROVE  Kept /\ HostTypeOK' /\ HostFits'
  BY <1>1, CalmStep DEF HasSetPhp, Extracted, HostTypeOK
<1>2. ASSUME NEW here, NEW said, Reply(c, here, said)
      PROVE  Goal
  <2>1. UNCHANGED <<remote, args, got>> /\ at'[c] = "done"
    BY <1>2, ReplyStep
  <2>2. Kept /\ HostTypeOK' /\ HostFits'
    BY <1>1, <2>1
  <2>3. Job(c)' /\ Found(c)'
    BY <2>1, <2>2, JobKept, FoundKept DEF Started
  <2> QED
    BY <2>1, <2>2, <2>3
<1>3. ASSUME at[c] \notin {"helper", "done"} 
      PROVE  remote.run[c].state = "idle" /\ remote.run[c].n = 0
  BY <1>3 DEF Job
\* The handler goes on: what it has learned is its own to show.
<1>4. ASSUME UNCHANGED <<remote, args>>, at[c] \notin {"helper", "done"},
             at'[c] \notin {"idle", "helper", "done"}, Found(c)'
      PROVE  Goal
  <2>1. Kept /\ HostTypeOK' /\ HostFits'
    BY <1>1, <1>4
  <2>2. Job(c)'
    BY <1>3, <1>4 DEF Job
  <2> QED
    BY <1>4, <2>1, <2>2
<1>5. ASSUME NEW job, NEW why, NEW here, helperCommand(c, here, job, why), here = "ready",
             \/ job = "panel-upgrade" /\ args[c].tool = "panel_upgrade"
             \/ job = "php-prepare" /\ args[c].tool = "panel_prepare_runtime"
             \/ job = "wings-update"
      PROVE  Goal
  <2>1. /\ remote' = [remote EXCEPT !.run[c] = [job |-> job, n |-> 0, state |-> "runs"]]
        /\ at[c] = "ready" /\ at'[c] = "helper" /\ UNCHANGED <<args, got>>
    BY <1>5, ChangeStep DEF helperCommand
  <2>2. remote.run[c].n = 0 /\ ~HasSetPhp(c)
    BY <1>3, <2>1 DEF HasSetPhp
  <2>3. /\ DOMAIN remote' = DOMAIN remote /\ DOMAIN remote'.run = Calls
        /\ remote'.run[c] = [job |-> job, n |-> 0, state |-> "runs"]
        /\ \A d \in Calls \ {c} : remote'.run[d] = remote.run[d]
        /\ \A x \in {"installed", "php", "socket", "bak", "requires"} : remote'[x] = remote[x]
    BY <2>1 DEF HostTypeOK
  <2>4. Kept /\ HostTypeOK' /\ HostFits'
    <3>1. remote'.run[c].n = 0 /\ \A d \in Calls : Extracted(d) => Extracted(d)'
      BY <2>2, <2>3 DEF Extracted
    <3> QED
      BY <2>1, <2>2, <2>3, <3>1, CalmStep DEF HasSetPhp
  <2>5. Job(c)'
    BY <1>5, <2>1, <2>3 DEF Job
  <2>6. Found(c)'
    <3>1. Given(c)
      BY <2>1 DEF Given
    <3>2. /\ \A m : Came(m) => Came(m)'
          /\ \A v : Runs(v) => Runs(v)'
          /\ \A v : Fits(v) => Fits(v)'
          /\ Prepared => Prepared'
      BY <2>4 DEF Kept
    <3> QED
      BY <2>1, <3>1, <3>2 DEF Found, UpgradeFound, SwitchFound, PatchFound
  <2> QED
    BY <2>3, <2>4, <2>5, <2>6
<1>6. ASSUME at[c] \notin {"helper", "done"} PROVE ~Started(c) /\ ~HasSetPhp(c)
  BY <1>3, <1>6 DEF Started, HasSetPhp
<1>7. ASSUME remote' = remote, at'[c] = "begin", at[c] = "idle"
      PROVE  Found(c)'
  BY <1>6, <1>7 DEF Found, UpgradeFound, SwitchFound, PatchFound, Given, Started
<1>8. ASSUME args[c].tool \notin {"panel_upgrade", "panel_prepare_runtime"}, args' = args
      PROVE  Found(c)'
  BY <1>8 DEF Found, UpgradeFound, SwitchFound, PatchFound
<1> HIDE DEF Goal
<1>9. CASE panelUpgrade(c)
  <2>1. args[c].tool = "panel_upgrade"
    BY <1>9 DEF panelUpgrade, Does
  <2>2. ASSUME UNCHANGED <<remote, args>>, UpgradeFound(c)' PROVE Found(c)'
    BY <2>1, <2>2 DEF Found, SwitchFound, PatchFound
  <2>3. ASSUME Move(c, "begin", "require") PROVE Goal
    <3>1. UNCHANGED <<remote, args>> /\ at[c] = "begin" /\ at'[c] = "require"
      BY <2>3, MoveStep
    <3>2. UpgradeFound(c)'
      BY <1>6, <3>1 DEF UpgradeFound, Given, Started
    <3> QED
      BY <1>4, <2>2, <3>1, <3>2
  <2>4. ASSUME Learn(c, "require", remote.requires[2], "status") PROVE Goal
    <3>1. /\ UNCHANGED <<remote, args>> /\ at[c] = "require" /\ at'[c] = "status"
          /\ got'[c] = remote.requires[2]
      BY <2>4, LearnStep
    <3>2. UpgradeFound(c)'
      BY <1>6, <3>1 DEF UpgradeFound, Given, Started
    <3> QED
      BY <1>4, <2>2, <3>1, <3>2
  <2>5. ASSUME NEW why, Learn(c, "status", why, "ready"),
               phpSatisfies(got[c], remote.php) # "no"
        PROVE  Goal
    <3>1. UNCHANGED <<remote, args>> /\ at[c] = "status" /\ at'[c] = "ready"
      BY <2>5, LearnStep
    <3>2. got[c] = remote.requires[2]
      BY <2>1, <3>1 DEF Found, UpgradeFound
    <3>3. phpSatisfies(remote.requires[2], remote.php) = "yes"
      BY <2>5, <3>2 DEF phpSatisfies
    <3>4. Prepared /\ (Prepared' <=> Prepared)
      BY <3>1, <3>3 DEF Prepared, PatchedBack, Loose, HasSetPhp
    <3>5. UpgradeFound(c)'
      BY <3>1, <3>4 DEF UpgradeFound
    <3> QED
      BY <1>4, <2>2, <3>1, <3>5
  <2> QED
    BY <1>2, <1>5, <1>9, <2>1, <2>3, <2>4, <2>5 DEF panelUpgrade
<1>10. CASE panelPrepareRuntime(c)
  <2> DEFINE v == <<8, args[c].minor, 0>>
             e == ReleaseOf(args[c])
  <2> HIDE DEF e
  <2>1. args[c].tool = "panel_prepare_runtime" /\ ~args[c].patch
    BY <1>10 DEF panelPrepareRuntime, Does
  <2>2. ASSUME UNCHANGED <<remote, args>>, SwitchFound(c)' PROVE Found(c)'
    BY <2>1, <2>2 DEF Found, UpgradeFound, PatchFound
  <2>3. ASSUME Learn(c, "begin", remote.requires[e], "status") PROVE Goal
    <3>1. /\ UNCHANGED <<remote, args>> /\ at[c] = "begin" /\ at'[c] = "status"
          /\ got'[c] = remote.requires[e]
      BY <2>3, LearnStep
    <3>2. SwitchFound(c)'
      BY <1>6, <3>1 DEF SwitchFound, Given, Started, e
    <3> QED
      BY <1>4, <2>2, <3>1, <3>2
  <2>4. ASSUME Move(c, "status", "current"), phpSatisfies(got[c], v) # "no" PROVE Goal
    <3>1. UNCHANGED <<remote, args>> /\ at[c] = "status" /\ at'[c] = "current"
      BY <2>4, MoveStep
    <3>2. got[c] = remote.requires[e]
      BY <2>1, <3>1 DEF Found, SwitchFound, e
    <3>3. phpSatisfies(remote.requires[e], v) = "yes"
      BY <2>4, <3>2 DEF phpSatisfies
    <3>4. SwitchFound(c)'
      BY <1>6, <3>1, <3>3 DEF SwitchFound, Given, Started, e
    <3> QED
      BY <1>4, <2>2, <3>1, <3>4
  <2>5. ASSUME NEW why, Learn(c, "current", why, "ready"),
               phpSatisfies(currentPhpRequirement, v) # "no"
        PROVE  Goal
    <3>1. UNCHANGED <<remote, args>> /\ at[c] = "current" /\ at'[c] = "ready"
      BY <2>5, LearnStep
    <3>2. phpSatisfies(remote.requires[e], v) = "yes"
      BY <2>1, <3>1 DEF Found, SwitchFound, e
    <3>3. phpSatisfies(remote.requires[remote.installed], v) = "yes"
      BY <2>5 DEF phpSatisfies, currentPhpRequirement
    <3> HIDE DEF v
    <3>4. Fits(v)
      BY <3>3 DEF Fits
    <3>5. args[c].release # 1 => Runs(v)
      <4>1. SUFFICES ASSUME args[c].release # 1 PROVE Runs(v)
        OBVIOUS
      <4>2. e = 2
        <5>1. args[c] \in HostCalls
          BY <3>1
        <5>2. args[c].release \in Releases \cup {None}
          BY <2>1, <5>1 DEF HostCalls
        <5> QED
          BY <4>1, <5>2 DEF e, ReleaseOf, Releases
      <4>3. \A r \in Releases : r >= remote.installed => r = 2 \/ r = remote.installed
        BY DEF HostTypeOK, Releases
      <4> QED
        BY <3>2, <3>3, <4>2, <4>3 DEF Runs
    <3>6. (Fits(v)' <=> Fits(v)) /\ (Runs(v)' <=> Runs(v)) /\ v' = v
      BY <3>1 DEF Fits, Extracted, Runs, v
    <3>7. SwitchFound(c)'
      BY <3>1, <3>4, <3>5, <3>6 DEF SwitchFound, v
    <3> QED
      BY <1>4, <2>2, <3>1, <3>7
  <2> QED
    BY <1>2, <1>5, <1>10, <2>1, <2>3, <2>4, <2>5 DEF panelPrepareRuntime, e
<1>11. CASE panelPatchRuntime(c)
  <2>1. args[c].tool = "panel_prepare_runtime" /\ args[c].patch
    BY <1>11 DEF panelPatchRuntime, Does
  <2>2. ASSUME Learn(c, "begin", None, "ready"), remote.socket = args[c].minor PROVE Goal
    <3>1. UNCHANGED <<remote, args>> /\ at[c] = "begin" /\ at'[c] = "ready"
      BY <2>2, LearnStep
    <3>2. Came(remote.socket) /\ (Came(remote.socket)' <=> Came(remote.socket))
      BY <3>1 DEF HostFits, Came, HasSetPhp
    <3>3. Came(args[c].minor)'
      BY <2>2, <3>1, <3>2
    <3>4. Found(c)'
      BY <2>1, <3>1, <3>3 DEF Found, UpgradeFound, SwitchFound, PatchFound
    <3> QED
      BY <1>4, <3>1, <3>4
  <2> QED
    BY <1>2, <1>5, <1>11, <2>1, <2>2 DEF panelPatchRuntime, servingPhpMinor
<1>12. CASE wingsUpdate(c)
  <2>1. args[c].tool = "wings_update"
    BY <1>12 DEF wingsUpdate, Does
  <2>2. ASSUME Move(c, "begin", "ready") PROVE Goal
    <3>1. UNCHANGED <<remote, args>> /\ at[c] = "begin" /\ at'[c] = "ready"
      BY <2>2, MoveStep
    <3> QED
      BY <1>4, <1>8, <2>1, <3>1
  <2> QED
    BY <1>2, <1>5, <1>12, <2>2 DEF wingsUpdate
<1>13. CASE panelVersion(c)
  <2>1. args[c].tool = "panel_version"
    BY <1>13 DEF panelVersion, Does
  <2>2. ASSUME NEW here \in {"begin", "have"}, NEW value, NEW there \in {"have", "report"},
               Learn(c, here, value, there)
        PROVE  Goal
    <3>1. UNCHANGED <<remote, args>> /\ at[c] = here /\ at'[c] = there
      BY <2>2, LearnStep
    <3> QED
      BY <1>4, <1>8, <2>1, <2>2, <3>1
  <2> QED
    BY <1>2, <1>13, <2>2 DEF panelVersion
<1>14. CASE panelHost(c) \/ helperAnswers(c) \/ Breaks(c, HostTools)
  BY <1>2, <1>14 DEF panelHost, helperAnswers, Breaks
<1>15. CASE Begin(c, HostCalls)
  <2>1. /\ remote' = remote /\ at[c] = "idle" /\ at'[c] = "begin"
        /\ \A d \in Calls \ {c} : args'[d] = args[d]
    BY <1>15, BeginStep DEF Only
  <2>2. Kept /\ HostTypeOK' /\ HostFits'
    BY <1>1, <1>6, <2>1
  <2>3. Job(c)'
    BY <1>3, <2>1 DEF Job
  <2> QED
    BY <1>7, <2>1, <2>2, <2>3 DEF Goal
<1> QED
  BY <1>9, <1>10, <1>11, <1>12, <1>13, <1>14, <1>15 DEF PelicanHostStep, Goal

\* A turn of the helper: whoever else is at work keeps what it has.
LEMMA HelperTurn ==
  ASSUME HostKnown, NEW c \in Calls, NEW new, NEW run, helperTurns(c, new, run), Going(c, run),
         DOMAIN new = DOMAIN remote, new.run = remote.run
  PROVE  /\ UNCHANGED <<args, at, got>> /\ DOMAIN remote' = DOMAIN remote
         /\ DOMAIN remote'.run = Calls /\ remote'.run[c] = run
         /\ \A d \in Calls \ {c} : remote'.run[d] = remote.run[d]
         /\ \A x \in DOMAIN remote \ {"run"} : remote'[x] = new[x]
         /\ \A d \in Calls : HasSetPhp(d) => HasSetPhp(d)'
         /\ \A d \in Calls : Extracted(d) => Extracted(d)'
         /\ \A d \in Calls : Started(d)' = Started(d)
<1>1. "run" \in DOMAIN remote /\ DOMAIN remote.run = Calls
  BY DEF HostKnown, HostTypeOK
<1>2. /\ UNCHANGED <<args, at, got>> /\ DOMAIN remote' = DOMAIN remote
      /\ DOMAIN remote'.run = Calls /\ remote'.run[c] = run
      /\ \A d \in Calls \ {c} : remote'.run[d] = remote.run[d]
      /\ \A x \in DOMAIN remote \ {"run"} : remote'[x] = new[x]
  BY <1>1 DEF helperTurns
<1>3. (HasSetPhp(c) => HasSetPhp(c)') /\ (Extracted(c) => Extracted(c)')
  <2>1. remote.run[c].n \in Nat
    BY DEF HostKnown, Job
  <2> QED
    BY <1>2, <2>1 DEF HasSetPhp, Extracted, Going
<1>4. Started(c)' = Started(c)
  BY <1>2 DEF Started, Going
<1> QED
  BY <1>2, <1>3, <1>4 DEF HasSetPhp, Extracted, Started

\* When the turn keeps what is known, every process and every finding stay right.
LEMMA HelperKeeps ==
  ASSUME HostKnown, NEW c \in Calls, NEW new, NEW run, helperTurns(c, new, run), Going(c, run),
         DOMAIN new = DOMAIN remote, new.run = remote.run, Kept,
         run.job = "panel-upgrade" /\ run.n >= 6 => remote'.installed = 2
  PROVE  \A d \in Calls : Job(d)' /\ Found(d)'
<1>1. /\ UNCHANGED <<args, at, got>> /\ remote'.run[c] = run
      /\ \A d \in Calls \ {c} : remote'.run[d] = remote.run[d]
      /\ \A d \in Calls : Started(d)' = Started(d)
  BY HelperTurn
<1>2. \A d \in Calls : Job(d) /\ Found(d)
  BY DEF HostKnown
<1>3. \A d \in Calls : Found(d)'
  BY <1>1, <1>2, FoundKept
<1>4. \A d \in Calls \ {c} : Job(d)'
  BY <1>1, <1>2, JobKept
<1>5. Job(c)'
  <2>1. /\ at[c] \in {"helper", "done"}
        /\ remote.run[c].job = "php-prepare" => args[c].tool = "panel_prepare_runtime"
        /\ remote.run[c].job = "panel-upgrade" => args[c].tool = "panel_upgrade"
    BY <1>2 DEF Job, Going
  <2> QED
    BY <1>1, <2>1 DEF Job, Going
<1> QED
  BY <1>3, <1>4, <1>5

\* A turn that touches no version: only the panel's door or its daemon.
LEMMA CalmTurn ==
  ASSUME HostKnown, NEW c \in Calls, NEW new, NEW run, helperTurns(c, new, run), Going(c, run),
         DOMAIN new = DOMAIN remote, new.run = remote.run,
         \A x \in {"installed", "php", "socket", "bak", "requires"} : new[x] = remote[x],
         run.job = "panel-upgrade" /\ run.n >= 6 => remote.installed = 2
  PROVE  HostTypeOK' /\ HostFits' /\ \A d \in Calls : Job(d)' /\ Found(d)'
<1>1. /\ UNCHANGED args /\ DOMAIN remote' = DOMAIN remote /\ DOMAIN remote'.run = Calls
      /\ \A x \in DOMAIN remote \ {"run"} : remote'[x] = new[x]
      /\ \A d \in Calls : HasSetPhp(d) => HasSetPhp(d)'
      /\ \A d \in Calls : Extracted(d) => Extracted(d)'
  BY HelperTurn
<1>2. \A x \in {"installed", "php", "socket", "bak", "requires"} : remote'[x] = remote[x]
  BY <1>1 DEF HostKnown, HostTypeOK
<1>3. Kept /\ HostTypeOK' /\ HostFits'
  BY <1>1, <1>2, CalmStep DEF HostKnown
<1>4. remote'.installed = remote.installed
  BY <1>2
<1> QED
  BY <1>3, <1>4, HelperKeeps

\* The files of the release are put in place.
LEMMA ExtractTurn ==
  ASSUME HostKnown, NEW c \in Calls, NEW run, helperTurns(c, [remote EXCEPT !.installed = 2], run),
         Going(c, run), run.job = "panel-upgrade", run.n >= 6
  PROVE  HostTypeOK' /\ HostFits' /\ \A d \in Calls : Job(d)' /\ Found(d)'
<1> DEFINE new == [remote EXCEPT !.installed = 2]
<1>1. DOMAIN new = DOMAIN remote /\ new.run = remote.run /\ helperTurns(c, new, run)
  OBVIOUS
<1> HIDE DEF new
<1>2. /\ UNCHANGED args /\ remote'.run[c] = run
      /\ DOMAIN remote' = DOMAIN remote /\ DOMAIN remote'.run = Calls
      /\ \A x \in DOMAIN remote \ {"run"} : remote'[x] = new[x]
      /\ \A d \in Calls : HasSetPhp(d) => HasSetPhp(d)'
      /\ \A d \in Calls : Extracted(d) => Extracted(d)'
  BY <1>1, HelperTurn
<1>3. /\ remote'.installed = 2 /\ remote'.php = remote.php
      /\ remote'.socket = remote.socket /\ remote'.bak = remote.bak
      /\ remote'.requires = remote.requires
  BY <1>2 DEF HostKnown, HostTypeOK, new
<1>4. \A m : Came(m) => Came(m)'
  BY <1>2, <1>3 DEF Came
<1>5. PatchedBack => PatchedBack'
  BY <1>2, <1>3 DEF PatchedBack
<1>6. \A v : Runs(v) => Runs(v)'
  BY <1>3 DEF Runs, HostKnown, HostTypeOK, Releases
<1>7. Kept
  <2>1. Extracted(c)'
    BY <1>2 DEF Extracted
  <2>2. \A v : Fits(v)'
    BY <2>1 DEF Fits
  <2>3. Loose => Loose'
    BY <1>2, <1>3 DEF Loose
  <2> QED
    BY <1>3, <1>4, <1>5, <1>6, <2>2, <2>3 DEF Kept, Prepared
<1>8. Prepared
  <2>1. /\ remote.run[c].state = "runs" /\ run.job = remote.run[c].job
    BY DEF Going
  <2>2. Job(c) /\ UpgradeFound(c)
    BY DEF HostKnown, Found
  <2>3. args[c].tool = "panel_upgrade" /\ Given(c)
    BY <2>1, <2>2 DEF Job, Given, Started
  <2> QED
    BY <2>2, <2>3 DEF UpgradeFound
<1>9. HostTypeOK' /\ HostFits'
  <2>1. HostTypeOK'
    BY <1>2, <1>3 DEF HostKnown, HostTypeOK, Releases
  <2>2. (Came(remote.socket) /\ (remote.bak = None \/ Came(remote.bak)))'
    BY <1>3, <1>4 DEF HostKnown, HostFits
  <2>3. Loose' => SwitchedForAnother'
    <3>1. SUFFICES ASSUME Loose' PROVE SwitchedForAnother'
      OBVIOUS
    <3>2. Extracted(c)'
      BY <1>2 DEF Extracted
    <3> QED
      BY <1>3, <3>1, <3>2 DEF Loose, SwitchedForAnother, Releases
  <2>4. Prepared'
    BY <1>7, <1>8 DEF Kept
  <2> QED
    BY <1>3, <2>1, <2>2, <2>3, <2>4 DEF HostFits, Prepared
<1> QED
  BY <1>1, <1>3, <1>7, <1>9, HelperKeeps

\* The default of the command line is set: this is where a check may turn out stale.
LEMMA PhpTurn ==
  ASSUME HostKnown, NEW c \in Calls, args[c].minor \in PhpMinors, args[c].patch \in BOOLEAN,
         NEW run, Going(c, run), run.job = "php-prepare", run.n = 2,
         helperTurns(c, [remote EXCEPT !.php = <<8, args[c].minor, 2>>], run)
  PROVE  HostTypeOK' /\ HostFits' /\ \A d \in Calls : Job(d)' /\ Found(d)'
<1> DEFINE Goal == HostTypeOK' /\ HostFits' /\ \A d \in Calls : Job(d)' /\ Found(d)'
<1> SUFFICES Goal
  OBVIOUS
<1> DEFINE minor == args[c].minor
           new == [remote EXCEPT !.php = <<8, minor, 2>>]
<1>1. DOMAIN new = DOMAIN remote /\ new.run = remote.run /\ helperTurns(c, new, run)
  OBVIOUS
<1> HIDE DEF new, minor
<1>2. /\ UNCHANGED args /\ DOMAIN remote' = DOMAIN remote /\ DOMAIN remote'.run = Calls
      /\ remote'.run[c] = run
      /\ \A x \in DOMAIN remote \ {"run"} : remote'[x] = new[x]
      /\ \A d \in Calls : HasSetPhp(d) => HasSetPhp(d)'
  BY <1>1, HelperTurn
<1>3. /\ remote'.php = <<8, minor, 2>> /\ remote'.installed = remote.installed
      /\ remote'.socket = remote.socket /\ remote'.bak = remote.bak
      /\ remote'.requires = remote.requires
      /\ remote.installed \in Releases /\ minor \in PhpMinors
  BY <1>2 DEF HostKnown, HostTypeOK, new, minor
<1>4. /\ args[c].tool = "panel_prepare_runtime" /\ Started(c) /\ HasSetPhp(c)'
      /\ SwitchFound(c) /\ PatchFound(c)
  <2>1. Job(c) /\ SwitchFound(c) /\ PatchFound(c)
    BY DEF HostKnown, Found
  <2> QED
    BY <1>2, <2>1 DEF Job, Started, Going, HasSetPhp
<1>5. HostTypeOK'
  <2>1. remote'.php \in Versions
    BY <1>3 DEF Versions, PhpPatches
  <2> QED
    BY <1>2, <1>3, <2>1 DEF HostKnown, HostTypeOK
<1>6. /\ \A v : Runs(v)' = Runs(v)
      /\ \A v : Fits(v) => Fits(v)'
  <2>1. \A d \in Calls : Extracted(d) => Extracted(d)'
    BY <1>1, HelperTurn
  <2> QED
    BY <1>3, <2>1 DEF Runs, Fits
\* A release that runs on a patch of the minor runs on its newest.
<1>7. ASSUME NEW r \in Releases, NEW p \in PhpPatches,
             phpSatisfies(remote.requires[r], <<8, minor, p>>) = "yes"
      PROVE  (phpSatisfies(remote.requires[r], remote.php) = "yes")'
  <2>1. Renewed(remote.requires[r])
    BY DEF HostKnown, HostTypeOK
  <2>2. phpSatisfies(remote.requires[r], <<8, minor, 2>>) = "yes"
    BY <1>3, <1>7, <2>1 DEF Renewed
  <2> QED
    BY <1>3, <2>2
<1> DEFINE Fine == /\ (phpSatisfies(remote.requires[remote.installed], remote.php) = "yes")'
                   /\ (phpSatisfies(remote.requires[2], remote.php) = "yes")'
\* A minor that was switched to is one that both releases to be run admit.
<1>8. ASSUME NEW d \in Calls, Runs(<<8, args[d].minor, 0>>), args[d].minor = minor
      PROVE  Fine
  <2>1. /\ 2 \in Releases /\ 2 >= remote.installed /\ remote.installed >= remote.installed
        /\ 0 \in PhpPatches
    BY <1>3 DEF Releases, PhpPatches
  <2>2. /\ phpSatisfies(remote.requires[2], <<8, minor, 0>>) = "yes"
        /\ phpSatisfies(remote.requires[remote.installed], <<8, minor, 0>>) = "yes"
    BY <1>3, <1>8, <2>1 DEF Runs
  <2> QED
    BY <1>3, <1>7, <2>1, <2>2
\* One that was switched to for the older release is one that the installed release
\* admits, unless an upgrade has come between.
<1>9. ASSUME NEW d \in Calls, HasSetPhp(d)', ~args[d].patch, args[d].minor = minor,
             args[d].release = 1, Fits(<<8, args[d].minor, 0>>)
      PROVE  /\ Loose'
             /\ \/ (phpSatisfies(remote.requires[remote.installed], remote.php) = "yes")'
                \/ SwitchedForAnother'
  <2>1. args' = args /\ remote'.php[2] = minor /\ 0 \in PhpPatches
    BY <1>2, <1>3 DEF PhpPatches
  <2>2. Loose'
    BY <1>9, <2>1 DEF Loose
  <2>3. CASE phpSatisfies(remote.requires[remote.installed], <<8, minor, 0>>) = "yes"
    BY <1>3, <1>7, <2>1, <2>2, <2>3
  <2>4. CASE \E e \in Calls : Extracted(e)
    <3>1. PICK e \in Calls : Extracted(e)
      BY <2>4
    <3>2. Extracted(e)'
      BY <1>1, <3>1, HelperTurn
    <3>3. remote.installed = 2
      <4>1. Job(e) /\ remote.run[e].n \in Nat
        BY DEF HostKnown, Job
      <4> QED
        BY <3>1, <4>1 DEF Job, Extracted
    <3> QED
      BY <1>3, <1>9, <2>1, <2>2, <3>2, <3>3 DEF SwitchedForAnother, Releases
  <2> QED
    BY <1>9, <2>3, <2>4 DEF Fits
\* What is known when everything came to the command line.
<1>10. ASSUME \A m : Came(m)',
              \/ Fine \/ PatchedBack'
              \/ /\ Loose'
                 /\ \/ (phpSatisfies(remote.requires[remote.installed], remote.php) = "yes")'
                    \/ SwitchedForAnother'
       PROVE  Goal
  <2>1. Kept
    BY <1>3, <1>6, <1>10 DEF Kept, Prepared
  <2>2. HostFits'
    BY <1>10 DEF HostFits
  <2> QED
    BY <1>1, <1>5, <2>1, <2>2, HelperKeeps
\* What a switch has found of its minor.
<1>11. ASSUME NEW d \in Calls, HasSetPhp(d)', ~args[d].patch, args[d].minor = minor,
              SwitchFound(d), Given(d), args[d].tool = "panel_prepare_runtime"
       PROVE  \/ Fine
              \/ /\ Loose'
                 /\ \/ (phpSatisfies(remote.requires[remote.installed], remote.php) = "yes")'
                    \/ SwitchedForAnother'
  <2>1. CASE args[d].release = 1
    <3>1. Fits(<<8, args[d].minor, 0>>)
      BY <1>11, <2>1 DEF SwitchFound
    <3> QED
      BY <1>9, <1>11, <2>1, <3>1
  <2>2. CASE args[d].release # 1
    <3>1. Runs(<<8, args[d].minor, 0>>)
      BY <1>11, <2>2 DEF SwitchFound
    <3> QED
      BY <1>8, <1>11, <3>1
  <2> QED
    BY <2>1, <2>2
<1>12. CASE ~args[c].patch
  <2>1. Given(c) /\ args[c].minor = minor
    BY <1>4 DEF Given, minor
  <2>2. \A m : Came(m)'
    BY <1>2, <1>4, <1>12 DEF Came
  <2> QED
    BY <1>4, <1>10, <1>11, <1>12, <2>1, <2>2
<1>13. CASE args[c].patch
  <2>1. Came(minor) /\ Came(remote.socket) /\ (remote.bak = None \/ Came(remote.bak))
    BY <1>4, <1>13 DEF PatchFound, Given, HostKnown, HostFits, minor
  \* The command line had the minor already: only its patch is new.
  <2>2. CASE remote.php[2] = minor
    <3>1. \A m : Came(m) => Came(m)'
      BY <1>2, <1>3, <2>2 DEF Came
    <3>2. /\ PatchedBack => PatchedBack'
          /\ Loose => Loose'
          /\ SwitchedForAnother => SwitchedForAnother'
      <4>1. \A d \in Calls : Extracted(d) => Extracted(d)'
        BY <1>1, HelperTurn
      <4>2. PatchedBack => PatchedBack'
        BY <1>2, <1>3, <2>2 DEF PatchedBack
      <4>3. Loose => Loose'
        BY <1>2, <1>3, <2>2 DEF Loose
      <4>4. SwitchedForAnother => SwitchedForAnother'
        BY <1>2, <1>3, <2>2, <4>1 DEF SwitchedForAnother
      <4> QED
        BY <4>2, <4>3, <4>4
    <3>3. PICK p \in PhpPatches : remote.php = <<8, minor, p>>
      BY <2>2 DEF HostKnown, HostTypeOK, Versions
    <3>4. \A r \in Releases : phpSatisfies(remote.requires[r], remote.php) = "yes" =>
                             (phpSatisfies(remote.requires[r], remote.php) = "yes")'
      BY <1>7, <3>3
    <3>5. Prepared => Prepared'
      BY <3>2, <3>4 DEF Prepared, Releases
    <3>6. Kept
      BY <1>3, <1>6, <3>1, <3>5 DEF Kept
    <3>7. HostFits'
      BY <1>3, <2>1, <3>1, <3>2, <3>4 DEF HostFits, HostKnown
    <3> QED
      BY <1>1, <1>5, <3>6, <3>7, HelperKeeps
  \* It had another one: some switch has set it meanwhile.
  <2>3. CASE remote.php[2] # minor
    <3>1. PICK d \in Calls : HasSetPhp(d) /\ ~args[d].patch
      BY <2>1, <2>3 DEF Came
    <3>2. HasSetPhp(d)' /\ args' = args /\ remote'.php[2] = minor
      BY <1>2, <1>3, <3>1
    <3>3. \A m : Came(m)'
      BY <3>1, <3>2 DEF Came
    <3>4. CASE args[d].minor = minor
      <4>1. Job(d) /\ SwitchFound(d)
        BY DEF HostKnown, Found
      <4>2. Given(d) /\ args[d].tool = "panel_prepare_runtime"
        BY <3>1, <4>1 DEF Job, HasSetPhp, Given, Started
      <4> QED
        BY <1>10, <1>11, <3>1, <3>2, <3>3, <3>4, <4>1, <4>2
    <3>5. CASE args[d].minor # minor
      <4>1. PatchedBack'
        BY <1>4, <1>13, <3>1, <3>2, <3>5 DEF PatchedBack, minor
      <4> QED
        BY <1>10, <3>3, <4>1
    <3> QED
      BY <3>4, <3>5
  <2> QED
    BY <2>2, <2>3
<1> QED
  BY <1>12, <1>13

\* The site gets the socket of a release that came to the command line, and so does
\* the copy of what it had.
LEMMA SocketTurn ==
  ASSUME HostKnown, NEW c \in Calls, NEW run, NEW m, NEW b, Came(m), b = None \/ Came(b),
         Going(c, run), run.job = "php-prepare",
         helperTurns(c, [remote EXCEPT !.socket = m, !.bak = b], run)
  PROVE  HostTypeOK' /\ HostFits' /\ \A d \in Calls : Job(d)' /\ Found(d)'
<1> DEFINE new == [remote EXCEPT !.socket = m, !.bak = b]
<1>1. DOMAIN new = DOMAIN remote /\ new.run = remote.run /\ helperTurns(c, new, run)
  OBVIOUS
<1> HIDE DEF new
<1>2. /\ UNCHANGED args /\ DOMAIN remote' = DOMAIN remote /\ DOMAIN remote'.run = Calls
      /\ \A x \in DOMAIN remote \ {"run"} : remote'[x] = new[x]
      /\ \A d \in Calls : HasSetPhp(d) => HasSetPhp(d)'
      /\ \A d \in Calls : Extracted(d) => Extracted(d)'
  BY <1>1, HelperTurn
<1>3. /\ remote'.installed = remote.installed /\ remote'.php = remote.php
      /\ remote'.socket = m /\ remote'.bak = b /\ remote'.requires = remote.requires
  BY <1>2 DEF HostKnown, HostTypeOK, new
<1>4. \A x : Came(x) => Came(x)'
  BY <1>2, <1>3 DEF Came
<1>5. /\ PatchedBack => PatchedBack'
      /\ Loose => Loose'
      /\ SwitchedForAnother => SwitchedForAnother'
  BY <1>2, <1>3 DEF PatchedBack, Loose, SwitchedForAnother
<1>6. Kept
  <2>1. \A v : Runs(v) => Runs(v)'
    BY <1>3 DEF Runs
  <2>2. \A v : Fits(v) => Fits(v)'
    BY <1>2, <1>3 DEF Fits
  <2> QED
    BY <1>3, <1>4, <1>5, <2>1, <2>2 DEF Kept, Prepared
<1>7. HostTypeOK'
  BY <1>2, <1>3 DEF HostKnown, HostTypeOK
<1>8. HostFits'
  BY <1>3, <1>4, <1>5 DEF HostKnown, HostFits
<1> QED
  BY <1>1, <1>6, <1>7, <1>8, HelperKeeps

\* Every turn of the helper keeps the invariant.
LEMMA HelperFits ==
  ASSUME HostKnown, NEW c \in Calls, helperRuns(c)
  PROVE  HostTypeOK' /\ HostFits' /\ \A d \in Calls : Job(d)' /\ Found(d)'
<1> DEFINE Goal == HostTypeOK' /\ HostFits' /\ \A d \in Calls : Job(d)' /\ Found(d)'
           old == remote.run[c]
<1> SUFFICES Goal
  OBVIOUS
<1> HIDE DEF Goal, old
<1>1. remote.run[c] = old
  BY DEF old
<1>2. {"job", "n", "state"} \subseteq DOMAIN old /\ Job(c) /\ Found(c) /\ old.n \in Nat
  BY <1>1 DEF HostKnown, Job
<1>3. {"installed", "php", "socket", "bak", "requires", "run"} \subseteq DOMAIN remote
  BY DEF HostKnown, HostTypeOK
<1>4. ASSUME old.state = "runs"
      PROVE  /\ \A s \in {"refused", "failed", "done"} : Going(c, [old EXCEPT !.state = s])
             /\ \A s \in {"runs", "done"} : Going(c, [old EXCEPT !.n = @ + 1, !.state = s])
             /\ Going(c, [old EXCEPT !.n = @ + 1])
  BY <1>1, <1>2, <1>4 DEF Going
\* Turns that touch no version.
<1>5. ASSUME NEW new, NEW run, helperTurns(c, new, run), Going(c, run),
             DOMAIN new = DOMAIN remote, new.run = remote.run,
             \A x \in {"installed", "php", "socket", "bak", "requires"} : new[x] = remote[x],
             run.job = "panel-upgrade" /\ run.n >= 6 => remote.installed = 2
      PROVE  Goal
  BY <1>1, <1>5, CalmTurn DEF Goal
<1>6. CASE cmdPanelUpgrade(c)
  <2>1. old.job = "panel-upgrade" /\ old.state = "runs"
    BY <1>1, <1>6 DEF cmdPanelUpgrade
  <2>2. ASSUME NEW s \in {"refused", "failed"}, helperTurns(c, remote, [old EXCEPT !.state = s])
        PROVE  Goal
    <3> DEFINE run == [old EXCEPT !.state = s]
    <3>1. Going(c, run) /\ run.job = "panel-upgrade" /\ run.n = old.n
      BY <1>2, <1>4, <2>1
    <3> HIDE DEF run
    <3>2. helperTurns(c, remote, run)
      BY <2>2 DEF run
    <3>3. run.n >= 6 => remote.installed = 2
      BY <1>1, <1>2, <2>1, <3>1 DEF Job
    <3> QED
      BY <1>5, <3>1, <3>2, <3>3
  <2>3. ASSUME NEW s \in {"runs", "done"},
               helperTurns(c, step(old.n + 1), [old EXCEPT !.n = @ + 1, !.state = s])
        PROVE  Goal
    <3> DEFINE run == [old EXCEPT !.n = @ + 1, !.state = s]
    <3>1. Going(c, run) /\ run.job = "panel-upgrade" /\ run.n = old.n + 1
      BY <1>2, <1>4, <2>1
    <3> HIDE DEF run
    <3>2. CASE StepAt(old.n + 1) = "extract"
      <4>1. step(old.n + 1) = [remote EXCEPT !.installed = 2]
        BY <3>2 DEF step
      <4>2. helperTurns(c, [remote EXCEPT !.installed = 2], run)
        BY <2>3, <4>1 DEF run
      <4>3. old.n + 1 \notin 1..5
        BY <3>2 DEF StepAt, PANEL_UPGRADE_STEP_NAMES
      <4>4. run.n >= 6
        BY <1>2, <3>1, <4>3
      <4> QED
        BY <3>1, <4>2, <4>4, ExtractTurn DEF Goal
    <3>3. CASE StepAt(old.n + 1) # "extract"
      <4> DEFINE new == step(old.n + 1)
      <4>1. new \in {remote, [remote EXCEPT !.down = TRUE], [remote EXCEPT !.down = FALSE]}
        BY <3>3 DEF step
      <4> HIDE DEF new
      <4>2. /\ DOMAIN new = DOMAIN remote /\ new.run = remote.run
            /\ \A x \in {"installed", "php", "socket", "bak", "requires"} : new[x] = remote[x]
        BY <1>3, <4>1
      <4>3. helperTurns(c, new, run)
        BY <2>3 DEF new, run
      <4>4. old.n + 1 # 6
        BY <3>3 DEF StepAt, PANEL_UPGRADE_STEP_NAMES
      <4>5. run.n >= 6 => remote.installed = 2
        BY <1>1, <1>2, <2>1, <3>1, <4>4 DEF Job
      <4> QED
        BY <1>5, <3>1, <4>2, <4>3, <4>5
    <3> QED
      BY <3>2, <3>3
  <2> QED
    BY <1>1, <1>6, <2>2, <2>3 DEF cmdPanelUpgrade
<1>7. CASE cmdPhpPrepare(c)
  <2> DEFINE minor == args[c].minor
             next == [old EXCEPT !.n = @ + 1]
             failed == [old EXCEPT !.state = "failed"]
  <2>1. old.job = "php-prepare" /\ old.state = "runs"
    BY <1>1, <1>7 DEF cmdPhpPrepare
  <2>2. args[c].tool = "panel_prepare_runtime" /\ args[c] \in HostCalls
    BY <1>1, <1>2, <2>1 DEF Job, HostKnown
  <2>3. minor \in PhpMinors /\ args[c].patch \in BOOLEAN
    BY <2>2 DEF HostCalls
  <2>4. /\ next.n = old.n + 1 /\ next.job = "php-prepare" /\ next.state = "runs"
        /\ DOMAIN next = DOMAIN old /\ Going(c, next)
        /\ Going(c, failed) /\ failed.job = "php-prepare"
    BY <1>2, <1>4, <2>1
  <2>5. HostFits /\ ("php-prepare" # "panel-upgrade")
    BY DEF HostKnown
  <2> HIDE DEF next, failed
  <2>6. ASSUME NEW run, helperTurns(c, remote, run), Going(c, run), run.job = "php-prepare"
        PROVE  Goal
    BY <1>5, <2>5, <2>6
  <2>7. CASE helperTurns(c, remote, next) \/ helperTurns(c, remote, failed)
    BY <2>4, <2>6, <2>7
  <2>8. CASE old.n = 1 /\ helperTurns(c, [remote EXCEPT !.php = <<8, minor, 2>>], next)
    BY <2>3, <2>4, <2>8, PhpTurn DEF Goal
  <2>9. CASE old.n = 2 /\ helperTurns(c, SocketSwitched(minor),
                             Patched([switched |-> remote.socket # minor], next))
    <3> DEFINE run == Patched([switched |-> remote.socket # minor], next)
    <3>1. \A x \in {"job", "n", "state"} : x \in DOMAIN run /\ run[x] = next[x]
      BY <1>2, <2>4 DEF Patched
    <3>2. Going(c, run) /\ run.job = "php-prepare"
      BY <2>4, <3>1 DEF Going
    <3> HIDE DEF run
    <3>3. helperTurns(c, SocketSwitched(minor), run)
      BY <2>9 DEF run
    <3>4. Came(minor)
      <4>1. HasSetPhp(c) /\ Given(c)
        BY <1>1, <2>1, <2>9 DEF HasSetPhp, Given, Started
      <4>2. CASE args[c].patch
        BY <1>2, <2>2, <4>1, <4>2 DEF Found, PatchFound
      <4>3. CASE ~args[c].patch
        BY <4>1, <4>3 DEF Came
      <4> QED
        BY <4>2, <4>3
    <3> HIDE DEF minor
    <3>5. CASE remote.socket = minor
      <4>1. helperTurns(c, remote, run)
        BY <3>3, <3>5 DEF SocketSwitched
      <4> QED
        BY <2>6, <3>2, <4>1
    <3>6. CASE remote.socket # minor
      <4> DEFINE b == remote.socket
      <4>1. Came(b)
        BY <2>5 DEF HostFits
      <4>2. helperTurns(c, [remote EXCEPT !.socket = minor, !.bak = b], run)
        <5>1. SocketSwitched(minor) = [remote EXCEPT !.bak = b, !.socket = minor]
          BY <3>6 DEF SocketSwitched
        <5>2. [remote EXCEPT !.bak = b, !.socket = minor]
                = [remote EXCEPT !.socket = minor, !.bak = b]
          OBVIOUS
        <5> QED
          BY <3>3, <5>1, <5>2
      <4> HIDE DEF b
      <4> QED
        BY <3>2, <3>4, <4>1, <4>2, SocketTurn DEF Goal
    <3> QED
      BY <3>5, <3>6
  <2>10. CASE helperTurns(c, IF old.switched THEN SocketRestored ELSE remote, failed)
    <3>1. CASE helperTurns(c, remote, failed)
      BY <2>7, <3>1
    <3>2. CASE helperTurns(c, SocketRestored, failed)
      <4>1. CASE remote.bak = None
        BY <2>7, <3>2, <4>1 DEF SocketRestored
      <4>2. CASE remote.bak # None
        <5> DEFINE m == remote.bak
        <5>1. Came(m) /\ (None = None \/ Came(None))
          BY <2>5, <4>2 DEF HostFits
        <5>2. helperTurns(c, [remote EXCEPT !.socket = m, !.bak = None], failed)
          BY <3>2, <4>2 DEF SocketRestored
        <5> HIDE DEF m
        <5> QED
          BY <2>4, <5>1, <5>2, SocketTurn DEF Goal
      <4> QED
        BY <4>1, <4>2
    <3> QED
      BY <2>10, <3>1, <3>2
  <2>11. CASE helperTurns(c, remote, [next EXCEPT !.state = "done"])
    <3> DEFINE run == [next EXCEPT !.state = "done"]
    <3>1. Going(c, run) /\ run.job = "php-prepare"
      BY <1>2, <2>4 DEF Going
    <3> HIDE DEF run
    <3>2. helperTurns(c, remote, run)
      BY <2>11 DEF run
    <3> QED
      BY <2>6, <3>1, <3>2
  <2> QED
    BY <1>1, <1>7, <2>7, <2>8, <2>9, <2>10, <2>11 DEF cmdPhpPrepare, next, failed
<1>8. CASE cmdWingsUpdate(c)
  <2>1. old.job = "wings-update" /\ old.state = "runs"
    BY <1>1, <1>8 DEF cmdWingsUpdate
  <2>2. ASSUME NEW w, NEW p, NEW run, Going(c, run),
               \/ helperTurns(c, remote, run)
               \/ helperTurns(c, [remote EXCEPT !.wings = w, !.prev = p], run)
        PROVE  Goal
    <3> DEFINE new == [remote EXCEPT !.wings = w, !.prev = p]
    <3>1. /\ DOMAIN new = DOMAIN remote /\ new.run = remote.run
          /\ \A x \in {"installed", "php", "socket", "bak", "requires"} : new[x] = remote[x]
      BY <1>3
    <3>2. run.job # "panel-upgrade"
      BY <1>1, <2>1, <2>2 DEF Going
    <3> HIDE DEF new
    <3>3. CASE helperTurns(c, remote, run)
      BY <1>5, <2>2, <3>2, <3>3
    <3>4. CASE helperTurns(c, [remote EXCEPT !.wings = w, !.prev = p], run)
      <4>1. helperTurns(c, new, run)
        BY <3>4 DEF new
      <4> QED
        BY <1>5, <2>2, <3>1, <3>2, <4>1
    <3> QED
      BY <2>2, <3>3, <3>4
  <2> DEFINE next == [old EXCEPT !.n = @ + 1]
             done == [old EXCEPT !.state = "done"]
             failed == [old EXCEPT !.state = "failed"]
  <2>3. Going(c, next) /\ Going(c, done) /\ Going(c, failed)
    BY <1>4, <2>1
  <2> QED
    BY <1>1, <1>8, <2>2, <2>3 DEF cmdWingsUpdate
<1> QED
  BY <1>6, <1>7, <1>8 DEF helperRuns, Goal

\* What the invariant speaks of is the same when nothing changes.
LEMMA RuntimeUnchanged ==
  ASSUME RuntimeInv, UNCHANGED callVars
  PROVE  RuntimeInv'
<1>1. UNCHANGED <<remote, args, at, got>>
  BY DEF callVars
<1>2. SUFFICES ASSUME remote.system = "host"
               PROVE  HostTypeOK' /\ HostFits' /\ \A c \in Calls : Job(c)' /\ Found(c)'
  BY <1>1 DEF RuntimeInv
<1>3. HostTypeOK /\ HostFits /\ \A c \in Calls : Job(c) /\ Found(c)
  BY <1>2 DEF RuntimeInv
<1>4. Kept /\ HostTypeOK' /\ HostFits'
  BY <1>1, <1>3, CalmStep DEF HasSetPhp, Extracted, HostTypeOK
<1>5. ASSUME NEW c \in Calls PROVE Job(c)' /\ Found(c)'
  BY <1>1, <1>3, <1>4, JobKept, FoundKept DEF Started
<1> QED
  BY <1>4, <1>5

\* A step of a call keeps what it and the others found out about the host.
LEMMA RuntimeCallStep ==
  ASSUME BaseInv, RuntimeInv, NEW c \in Calls, CallStep(c)
  PROVE  RuntimeInv'
<1>1. Proper(c, Accepted)
  BY StepProper
<1>2. remote'.system = remote.system
  BY <1>1 DEF BaseInv, Proper, SameKind
<1>3. SUFFICES ASSUME remote.system = "host"
               PROVE  HostTypeOK' /\ HostFits' /\ \A d \in Calls : Job(d)' /\ Found(d)'
  BY <1>2 DEF RuntimeInv
<1>4. /\ FrameOK /\ HostTypeOK /\ HostFits /\ PelicanHostStep(c)
      /\ \A d \in Calls : Job(d) /\ Found(d)
      /\ at[c] # "idle" => args[c] \in HostCalls
  BY <1>3 DEF BaseInv, RuntimeInv, CallStep, Accepted
<1>5. /\ Kept /\ HostTypeOK' /\ HostFits' /\ Job(c)' /\ Found(c)'
      /\ \A d \in Calls \ {c} : remote'.run[d] = remote.run[d]
  BY <1>4, HandlerFinds
<1>6. ASSUME NEW d \in Calls \ {c} PROVE Job(d)' /\ Found(d)'
  <2>1. /\ args'[d] = args[d] /\ at'[d] = at[d] /\ got'[d] = got[d]
        /\ remote'.run[d] = remote.run[d] /\ Started(d)' = Started(d)
    BY <1>1, <1>5 DEF Proper, Only, Started
  <2> QED
    BY <1>4, <1>5, <2>1, JobKept, FoundKept
<1> QED
  BY <1>5, <1>6

\* Of the others only the helpers' processes touch the host.
LEMMA RuntimeOthers ==
  ASSUME BaseInv, RuntimeInv, Others
  PROVE  RuntimeInv'
<1>1. remote'.system = remote.system
  BY OthersFrame DEF BaseInv, SameKind
<1>2. SUFFICES ASSUME remote.system = "host"
               PROVE  HostTypeOK' /\ HostFits' /\ \A d \in Calls : Job(d)' /\ Found(d)'
  BY <1>1 DEF RuntimeInv
<1>3. PICK c \in Calls : helperRuns(c)
  BY <1>2 DEF Others
<1>4. HostKnown
  BY <1>2 DEF HostKnown, RuntimeInv, BaseInv, Accepted
<1> QED
  BY <1>3, <1>4, HelperFits

\* At first nobody has looked at the host, and the panel runs on its PHP.
LEMMA RuntimeStart == ConnectorsInit => RuntimeInv
<1> SUFFICES ASSUME ConnectorsInit PROVE RuntimeInv
  OBVIOUS
<1>1. CASE PelicanHostInit
  <2>1. \A c \in Calls : at[c] = "idle"
    BY DEF ConnectorsInit, CallInit
  <2>2. /\ remote \in InitialHosts /\ {"system", "run"} \subseteq DOMAIN remote
        /\ remote.run = [c \in Calls |-> Idle]
    BY <1>1, HostAssumption DEF PelicanHostInit
  <2>3. /\ {"installed", "php", "socket", "bak", "requires"} \subseteq DOMAIN remote
        /\ remote.installed \in Releases /\ remote.bak = None
        /\ remote.php \in Versions /\ remote.socket = remote.php[2]
        /\ phpSatisfies(remote.requires[remote.installed], remote.php) = "yes"
    BY <2>2, RuntimeAssumption DEF Versions
  <2>4. ASSUME NEW r \in Releases
        PROVE  IsRequirement(remote.requires[r]) /\ Renewed(remote.requires[r])
    <3>1. \A alt \in remote.requires[r] : \A t \in alt :
            /\ {"op", "v"} \subseteq DOMAIN t
            /\ Len(t.v) \in 1..3 /\ \A i \in 1..Len(t.v) : t.v[i] \in 0..99
      BY <2>2, RuntimeAssumption
    <3>2. \A m \in PhpMinors, p \in PhpPatches :
            phpSatisfies(remote.requires[r], <<8, m, p>>) = "yes" =>
              phpSatisfies(remote.requires[r], <<8, m, 2>>) = "yes"
      BY <2>2, RuntimeAssumption
    <3> QED
      BY <3>1, <3>2 DEF IsRequirement, IsToken, Renewed
  <2>5. HostTypeOK
    BY <2>2, <2>3, <2>4 DEF HostTypeOK
  <2>6. HostFits
    BY <2>3 DEF HostFits, Came
  <2>7. ASSUME NEW c \in Calls PROVE Job(c) /\ Found(c)
    <3>1. remote.run[c] = [job |-> None, n |-> 0, state |-> "idle"]
      BY <2>2 DEF Idle
    <3>2. Job(c)
      BY <3>1 DEF Job
    <3>3. Found(c)
      BY <2>1, <3>1 DEF Found, UpgradeFound, SwitchFound, PatchFound, Given, Started
    <3> QED
      BY <3>2, <3>3
  <2> QED
    BY <2>5, <2>6, <2>7 DEF RuntimeInv
<1>2. CASE UniFiInit
  BY <1>2, UniFiAssumption DEF UniFiInit, RuntimeInv
<1>3. CASE PelicanPanelInit
  BY <1>3, PanelAssumption DEF PelicanPanelInit, RuntimeInv
<1>4. CASE PortainerInit
  BY <1>4 DEF PortainerInit, RuntimeInv
<1>5. CASE ProxmoxInit
  BY <1>5 DEF ProxmoxInit, RuntimeInv
<1>6. CASE HomeAssistantInit
  BY <1>6 DEF HomeAssistantInit, RuntimeInv
<1>7. CASE UptimeKumaInit
  BY <1>7 DEF UptimeKumaInit, RuntimeInv
<1>8. CASE SshInit
  BY <1>8 DEF SshInit, RuntimeInv
<1> QED
  BY <1>1, <1>2, <1>3, <1>4, <1>5, <1>6, <1>7, <1>8 DEF ConnectorsInit

\* The host's PHP is known to fit, by whoever looked, in every reachable state.
THEOREM RuntimeInvariant == ConnectorsSpec => [](BaseInv /\ RuntimeInv)
<1>1. BaseInv /\ RuntimeInv /\ [ConnectorsNext]_callVars => RuntimeInv'
  BY RuntimeCallStep, RuntimeOthers, RuntimeUnchanged DEF ConnectorsNext, AllAnswered
<1> QED
  BY <1>1, BaseInvariant, RuntimeStart, PTL DEF ConnectorsSpec

\* The installed release is always one that the command line's PHP can run, for
\* any number of upgrades and changes of the runtime at the same time, except after
\* a switch for another release than an upgrade has brought, and after a patch update
\* that put back what a switch had left.
THEOREM RuntimeAlwaysFits == ConnectorsSpec => []RuntimeFits
<1>1. RuntimeInv => RuntimeFits
  <2> SUFFICES ASSUME RuntimeInv, remote.system = "host", ~PatchedBack, ~SwitchedForAnother
               PROVE  Admits(remote.requires[remote.installed], remote.php)
    BY DEF RuntimeFits
  <2>1. /\ remote.php \in Versions /\ IsRequirement(remote.requires[remote.installed])
        /\ phpSatisfies(remote.requires[remote.installed], remote.php) = "yes"
    BY DEF RuntimeInv, HostTypeOK, HostFits
  <2> QED
    BY <2>1, SatisfiedIsAdmitted
<1> QED
  BY <1>1, RuntimeInvariant, PTL

-----------------------------------------------------------------------------
(* What is shown of a log, a file or an answer, of any length.                *)

\* A set of numbers that is not empty has a least one: induction over data, in the
\* form that names a set instead of a predicate.
LEMMA LeastNumber ==
  ASSUME NEW S, S \subseteq Nat, S # {}
  PROVE  \E m \in S : \A n \in S : m <= n
<1> DEFINE R == OpToRel(<, Nat)
<1>1. IsWellFoundedOn(R, Nat)
  BY NatLessThanWellFounded
<1>2. \A x, y \in Nat : x < y => <<x, y>> \in R
  BY DEF OpToRel
<1> HIDE DEF R
<1>3. PICK x \in S : \A y \in S : <<y, x>> \notin R
  BY <1>1, WFMin
<1>4. ASSUME NEW y \in S PROVE x <= y
  <2>1. x \in Nat /\ y \in Nat
    BY <1>3
  <2>2. ~(y < x)
    BY <1>2, <1>3, <2>1
  <2> QED
    BY <2>1, <2>2
<1> QED
  BY <1>3, <1>4

\* Induction up to a bound, over a set that holds what is to be shown.
LEMMA UptoInduction ==
  ASSUME NEW n \in Nat, NEW T, 0 \in T, \A k \in 1..n : k - 1 \in T => k \in T
  PROVE  0..n \subseteq T
<1> SUFFICES ASSUME ~(0..n \subseteq T) PROVE FALSE
  OBVIOUS
<1> DEFINE S == { k \in 0..n : k \notin T }
<1>1. S \subseteq Nat /\ S # {}
  OBVIOUS
<1>2. \A k \in S : k \in 0..n /\ k \notin T
  OBVIOUS
<1>3. \A k \in 0..n : k \notin S => k \in T
  OBVIOUS
<1> HIDE DEF S
<1>4. PICK m \in S : \A k \in S : m <= k
  BY <1>1, LeastNumber
<1>5. m \in 1..n
  BY <1>2, <1>4
<1>6. m - 1 \in 0..n /\ m - 1 \notin S
  BY <1>4, <1>5
<1> QED
  BY <1>2, <1>3, <1>4, <1>5, <1>6

\* A step for each number up to n.
Steps(n, V) == [1..n -> [V -> V]]

\* The function that starts at a value and takes those steps.
Takes(g, n, V, base, next) ==
  g \in [0..n -> V] /\ g[0] = base /\ \A i \in 1..n : g[i] = next[i][g[i - 1]]

\* A function that is defined at 0 by a value and at each later number from the
\* value before is there.
LEMMA RecursionExists ==
  ASSUME NEW n \in Nat, NEW base, NEW V, base \in V, NEW next \in Steps(n, V)
  PROVE  \E g : Takes(g, n, V, base, next)
<1> DEFINE Upto(k, g) == g[0] = base /\ \A i \in 1..k : g[i] = next[i][g[i - 1]]
           T == { k \in 0..n : \E g \in [0..k -> V] : Upto(k, g) }
<1>1. 0 \in T
  <2> DEFINE g == [i \in 0..0 |-> base]
  <2>1. g \in [0..0 -> V] /\ Upto(0, g)
    OBVIOUS
  <2> HIDE DEF Upto, g
  <2> QED
    BY <2>1
<1>2. ASSUME NEW k \in 1..n, k - 1 \in T PROVE k \in T
  <2>1. PICK f \in [0..k - 1 -> V] : Upto(k - 1, f)
    BY <1>2
  <2> DEFINE g == [i \in 0..k |-> IF i = k THEN next[k][f[k - 1]] ELSE f[i]]
  <2>2. f[k - 1] \in V /\ next[k] \in [V -> V]
    BY DEF Steps
  <2>3. next[k][f[k - 1]] \in V
    BY <2>2
  <2>4. g \in [0..k -> V]
    BY <2>1, <2>3
  <2>5. ASSUME NEW i \in 1..k
        PROVE  g[i] = next[i][g[i - 1]]
    <3>1. CASE i = k
      <4>1. g[k - 1] = f[k - 1] /\ k # 0
        OBVIOUS
      <4>2. g[k] = next[k][f[k - 1]]
        OBVIOUS
      <4> QED
        BY <3>1, <4>1, <4>2
    <3>2. CASE i # k
      <4>1. i \in 1..k - 1 /\ i - 1 \in 0..k - 1
        BY <3>2
      <4>2. f[i] = next[i][f[i - 1]]
        BY <2>1, <4>1
      <4>3. g[i] = f[i] /\ g[i - 1] = f[i - 1]
        BY <3>2, <4>1
      <4> QED
        BY <4>2, <4>3
    <3> QED
      BY <3>1, <3>2
  <2>6. Upto(k, g)
    BY <2>1, <2>5
  <2> HIDE DEF g, Upto
  <2> QED
    BY <2>4, <2>6
<1> HIDE DEF Upto
<1>3. 0..n \subseteq T
  <2> HIDE DEF T
  <2> QED
    BY <1>1, <1>2, UptoInduction
<1>4. \E g \in [0..n -> V] : Upto(n, g)
  BY <1>3
<1> QED
  BY <1>4 DEF Upto, Takes

\* What a read up to the cap has kept after one more chunk.
SeenNext(chunks, i, b) ==
  IF b.truncated THEN b
  ELSE IF chunks[i] > MaxBytes - b.total
  THEN [total |-> MaxBytes, truncated |-> TRUE]
  ELSE [b EXCEPT !.total = @ + chunks[i]]

\* What it has kept after each chunk.
KeptUpto(n, sizes, seen) ==
  seen = [i \in 0..n |-> IF i = 0 THEN [total |-> 0, truncated |-> FALSE]
                         ELSE SeenNext(sizes, i, seen[i - 1])]

\* What has come by then.
Counted(n, sizes, upto) ==
  upto = [i \in 0..n |-> IF i = 0 THEN 0 ELSE upto[i - 1] + sizes[i]]

\* There is such a read.
LEMMA ReadsFollow ==
  ASSUME NEW n \in Nat, NEW sizes \in [1..n -> Nat]
  PROVE  \E seen : KeptUpto(n, sizes, seen)
<1> DEFINE base == [total |-> 0, truncated |-> FALSE]
           V == [total : Nat, truncated : BOOLEAN]
           next == [i \in 1..n |-> [b \in V |-> SeenNext(sizes, i, b)]]
<1>0. MaxBytes \in Nat
  BY HomeAssistantAssumption
<1>1. \A i \in 1..n, b \in V : SeenNext(sizes, i, b) \in V
  <2> SUFFICES ASSUME NEW i \in 1..n, NEW b \in V PROVE SeenNext(sizes, i, b) \in V
    OBVIOUS
  <2>1. sizes[i] \in Nat /\ b.total \in Nat
    OBVIOUS
  <2>2. [b EXCEPT !.total = b.total + sizes[i]] \in V
    BY <2>1
  <2>3. [total |-> MaxBytes, truncated |-> TRUE] \in V
    BY <1>0
  <2> HIDE DEF V
  <2> QED
    BY <2>2, <2>3 DEF SeenNext
<1>2. base \in V
  OBVIOUS
<1> HIDE DEF base, V
<1>3. next \in Steps(n, V)
  BY <1>1 DEF Steps
<1>4. \A i \in 1..n, b \in V : next[i][b] = SeenNext(sizes, i, b)
  OBVIOUS
<1> HIDE DEF next
<1>5. PICK g : Takes(g, n, V, base, next)
  BY <1>2, <1>3, RecursionExists
<1>6. \A i \in 1..n : g[i] = SeenNext(sizes, i, g[i - 1])
  <2> SUFFICES ASSUME NEW i \in 1..n PROVE g[i] = SeenNext(sizes, i, g[i - 1])
    OBVIOUS
  <2>1. i - 1 \in 0..n
    OBVIOUS
  <2> QED
    BY <1>4, <1>5, <2>1 DEF Takes
<1>7. ASSUME NEW i \in 0..n
      PROVE  g[i] = IF i = 0 THEN base ELSE SeenNext(sizes, i, g[i - 1])
  <2>1. CASE i = 0
    BY <1>5, <2>1, Zenon DEF Takes
  <2>2. CASE i # 0
    <3>1. i \in 1..n
      BY <2>2
    <3> QED
      BY <1>6, <2>2, <3>1, Zenon
  <2> QED
    BY <2>1, <2>2
<1>8. g \in [0..n -> V]
  BY <1>5 DEF Takes
<1>9. g = [i \in 0..n |-> IF i = 0 THEN base ELSE SeenNext(sizes, i, g[i - 1])]
  BY <1>7, <1>8, Zenon
<1> QED
  BY <1>9 DEF base, KeptUpto

\* There is such a count.
LEMMA CountFollows ==
  ASSUME NEW n \in Nat, NEW sizes \in [1..n -> Nat]
  PROVE  \E upto : Counted(n, sizes, upto)
<1> DEFINE next == [i \in 1..n |-> [b \in Nat |-> b + sizes[i]]]
<1>1. next \in Steps(n, Nat)
  BY DEF Steps
<1>2. \A i \in 1..n, b \in Nat : next[i][b] = b + sizes[i]
  OBVIOUS
<1> HIDE DEF next
<1>3. PICK g : Takes(g, n, Nat, 0, next)
  BY <1>1, RecursionExists
<1>4. \A i \in 1..n : g[i] = g[i - 1] + sizes[i]
  <2> SUFFICES ASSUME NEW i \in 1..n PROVE g[i] = g[i - 1] + sizes[i]
    OBVIOUS
  <2>1. i - 1 \in 0..n
    OBVIOUS
  <2> QED
    BY <1>2, <1>3, <2>1 DEF Takes
<1>5. ASSUME NEW i \in 0..n
      PROVE  g[i] = IF i = 0 THEN 0 ELSE g[i - 1] + sizes[i]
  <2>1. CASE i = 0
    BY <1>3, <2>1, Zenon DEF Takes
  <2>2. CASE i # 0
    <3>1. i \in 1..n
      BY <2>2
    <3> QED
      BY <1>4, <2>2, <3>1, Zenon
  <2> QED
    BY <2>1, <2>2
<1>6. g \in [0..n -> Nat]
  BY <1>3 DEF Takes
<1>7. g = [i \in 0..n |-> IF i = 0 THEN 0 ELSE g[i - 1] + sizes[i]]
  BY <1>5, <1>6, Zenon
<1> QED
  BY <1>7 DEF Counted

\* As long as nothing was cut off, what was kept is what was counted.
LEMMA ReadsAgree ==
  ASSUME NEW n \in Nat, NEW sizes \in [1..n -> Nat], NEW seen, NEW upto,
         KeptUpto(n, sizes, seen), Counted(n, sizes, upto)
  PROVE  \/ seen[n].truncated
         \/ upto[n] = seen[n].total /\ seen[n].total <= MaxBytes
<1> DEFINE V == [total : Nat, truncated : BOOLEAN]
           Agree(b, u) == b.truncated \/ (u = b.total /\ b.total <= MaxBytes)
           T == { k \in 0..n : seen[k] \in V /\ upto[k] \in Nat /\ Agree(seen[k], upto[k]) }
<1>0. MaxBytes \in Nat
  BY HomeAssistantAssumption
<1>1. 0 \in T
  BY <1>0 DEF KeptUpto, Counted
<1>2. ASSUME NEW k \in 1..n, k - 1 \in T PROVE k \in T
  <2> DEFINE b == seen[k - 1]
             u == upto[k - 1]
  <2>1. seen[k] = SeenNext(sizes, k, b) /\ upto[k] = u + sizes[k]
    <3> HIDE DEF T
    <3>1. k \in 0..n /\ k # 0
      OBVIOUS
    <3> QED
      BY <3>1, Zenon DEF KeptUpto, Counted
  <2>2. b \in V /\ u \in Nat /\ Agree(b, u) /\ sizes[k] \in Nat
    BY <1>2
  <2> HIDE DEF b, u
  <2>3. SeenNext(sizes, k, b) \in V /\ Agree(SeenNext(sizes, k, b), u + sizes[k])
    <3>1. CASE b.truncated
      BY <2>2, <3>1 DEF SeenNext
    <3>2. CASE ~b.truncated /\ sizes[k] > MaxBytes - b.total
      BY <1>0, <3>2 DEF SeenNext
    <3>3. CASE ~b.truncated /\ ~(sizes[k] > MaxBytes - b.total)
      <4>1. SeenNext(sizes, k, b) = [b EXCEPT !.total = b.total + sizes[k]]
        BY <3>3 DEF SeenNext
      <4>2. b.total \in Nat /\ b.total = u
        BY <2>2, <3>3
      <4>3. b.total + sizes[k] \in Nat /\ b.total + sizes[k] <= MaxBytes
        BY <1>0, <2>2, <3>3, <4>2
      <4> QED
        BY <2>2, <4>1, <4>2, <4>3
    <3> QED
      BY <3>1, <3>2, <3>3
  <2> HIDE DEF V, Agree
  <2>4. upto[k] \in Nat
    BY <2>1, <2>2
  <2> QED
    BY <2>1, <2>3, <2>4
<1>3. n \in T
  <2> HIDE DEF T
  <2>1. 0..n \subseteq T
    BY <1>1, <1>2, UptoInduction
  <2> QED
    BY <2>1
<1> QED
  BY <1>3

\* An answer that is not said to be cut off was kept whole, within the cap.
LEMMA ReadWhole ==
  ASSUME NEW chunks \in Seq(Nat)
  PROVE  \/ readBounded(chunks).truncated
         \/ /\ Received(chunks) = readBounded(chunks).total
            /\ readBounded(chunks).total <= MaxBytes
<1> DEFINE n == Len(chunks)
           seen == CHOOSE g : KeptUpto(n, chunks, g)
           upto == CHOOSE g : Counted(n, chunks, g)
<1>1. n \in Nat /\ chunks \in [1..n -> Nat]
  OBVIOUS
<1>2. readBounded(chunks) = seen[n]
  BY DEF readBounded, SeenNext, KeptUpto
<1>3. Received(chunks) = upto[n]
  BY DEF Received, Counted
<1> HIDE DEF n
<1>4. KeptUpto(n, chunks, seen)
  <2>1. \E g : KeptUpto(n, chunks, g)
    BY <1>1, ReadsFollow
  <2> QED
    BY <2>1
<1>5. Counted(n, chunks, upto)
  <2>1. \E g : Counted(n, chunks, g)
    BY <1>1, CountFollows
  <2> QED
    BY <2>1
<1> HIDE DEF seen, upto
<1>6. seen[n].truncated \/ (upto[n] = seen[n].total /\ seen[n].total <= MaxBytes)
  BY <1>1, <1>4, <1>5, ReadsAgree
<1> QED
  BY <1>2, <1>3, <1>6

\* One set of numbers is another moved along.
MovedBy(A, B, m) ==
  /\ B \subseteq Nat
  /\ \A x \in A : x + m \in B
  /\ \A y \in B : y >= m /\ y - m \in A

\* It has as many.
LEMMA Shifted ==
  ASSUME NEW A, IsFiniteSet(A), A \subseteq Nat, NEW B, NEW m \in Nat, MovedBy(A, B, m)
  PROVE  IsFiniteSet(B) /\ Cardinality(B) = Cardinality(A)
<1> DEFINE move == [x \in A |-> x + m]
<1>2. \A x \in A : x \in Nat
  OBVIOUS
<1>3. move \in [A -> B]
  BY DEF MovedBy
<1>4. \A x, y \in A : move[x] = move[y] => x = y
  BY <1>2
<1>5. \A y \in B : \E x \in A : move[x] = y
  <2> SUFFICES ASSUME NEW y \in B PROVE \E x \in A : move[x] = y
    OBVIOUS
  <2>1. y - m \in A /\ move[y - m] = y
    BY <1>2 DEF MovedBy
  <2> QED
    BY <2>1
<1> HIDE DEF move
<1>6. move \in Bijection(A, B)
  BY <1>3, <1>4, <1>5, Fun_IsBij DEF Injection, Surjection, IsInjective
<1>7. ExistsBijection(A, B)
  BY <1>6 DEF ExistsBijection
<1> QED
  BY <1>7, FS_Bijection

\* The characters of output that begin between two places of a stream.
Bytes(buf, a, b) == { j \in a..b : IsCharacter(buf, j) }

\* There are finitely many.
LEMMA BytesFinite ==
  ASSUME NEW buf, NEW a \in Nat, NEW b \in Nat
  PROVE  IsFiniteSet(Bytes(buf, a, b)) /\ Cardinality(Bytes(buf, a, b)) \in Nat
<1>1. IsFiniteSet(a..b)
  BY FS_Interval
<1>2. Bytes(buf, a, b) \in SUBSET (a..b)
  BY DEF Bytes
<1> QED
  BY <1>1, <1>2, FS_Subset, FS_CardinalityType

\* Two stretches that follow one another hold what each holds.
LEMMA BytesFollow ==
  ASSUME NEW buf, NEW a \in Nat, NEW b \in Nat, NEW e \in Nat, a <= b + 1, b <= e
  PROVE  Cardinality(Bytes(buf, a, e))
           = Cardinality(Bytes(buf, a, b)) + Cardinality(Bytes(buf, b + 1, e))
<1>1. /\ IsFiniteSet(Bytes(buf, a, b)) /\ IsFiniteSet(Bytes(buf, b + 1, e))
      /\ Cardinality(Bytes(buf, a, b)) \in Nat /\ Cardinality(Bytes(buf, b + 1, e)) \in Nat
  BY BytesFinite
<1>2. Bytes(buf, a, e) = Bytes(buf, a, b) \cup Bytes(buf, b + 1, e)
  BY DEF Bytes
<1>3. Bytes(buf, a, b) \cap Bytes(buf, b + 1, e) = {}
  BY DEF Bytes
<1>4. Cardinality(Bytes(buf, a, b) \cap Bytes(buf, b + 1, e)) = 0
  BY <1>3, FS_EmptySet
<1> DEFINE S == Bytes(buf, a, b)
           U == Bytes(buf, b + 1, e)
<1>5. Cardinality(S \cup U) = Cardinality(S) + Cardinality(U) - Cardinality(S \cap U)
  BY <1>1, FS_Union
<1>6. ASSUME NEW x \in Nat, NEW y \in Nat, NEW z, z = x + y - 0
      PROVE  z = x + y
  BY <1>6
<1> QED
  BY <1>1, <1>2, <1>4, <1>5, <1>6

\* The characters of a stretch of one stream are found further on in another.
SameItems(buf, other, a, b, m) ==
  \A j \in a..b : IsCharacter(other, j + m) <=> IsCharacter(buf, j)

\* It holds as much there.
LEMMA BytesMoved ==
  ASSUME NEW buf, NEW other, NEW a \in Nat, NEW b \in Nat, NEW m \in Nat,
         SameItems(buf, other, a, b, m)
  PROVE  Cardinality(Bytes(other, a + m, b + m)) = Cardinality(Bytes(buf, a, b))
<1>1. Bytes(buf, a, b) \subseteq a..b /\ Bytes(other, a + m, b + m) \subseteq Nat
  BY DEF Bytes
<1>2. \A x \in Bytes(buf, a, b) : x + m \in Bytes(other, a + m, b + m)
  BY DEF Bytes, SameItems
<1>3. \A y \in Bytes(other, a + m, b + m) : y >= m /\ y - m \in Bytes(buf, a, b)
  <2> SUFFICES ASSUME NEW y \in Bytes(other, a + m, b + m)
               PROVE  y >= m /\ y - m \in Bytes(buf, a, b)
    OBVIOUS
  <2>1. y \in a + m..b + m /\ IsCharacter(other, y)
    BY DEF Bytes
  <2>2. y - m \in a..b /\ (y - m) + m = y
    BY <2>1
  <2>3. IsCharacter(buf, y - m)
    BY <2>1, <2>2 DEF SameItems
  <2> QED
    BY <2>1, <2>2, <2>3 DEF Bytes
<1> DEFINE A == Bytes(buf, a, b)
           B == Bytes(other, a + m, b + m)
<1>4. IsFiniteSet(A) /\ A \subseteq Nat /\ MovedBy(A, B, m)
  BY <1>1, <1>2, <1>3, BytesFinite DEF MovedBy
<1> HIDE DEF A, B
<1>5. Cardinality(B) = Cardinality(A)
  BY <1>4, Shifted
<1> QED
  BY <1>5 DEF A, B

\* A place further on for each place.
Jumps(n) == { to \in [1..n -> 1..n + 1] : \A j \in 1..n : to[j] > j }

\* The function that is a value at the end, and elsewhere follows from its value there.
Descends(f, n, V, base, to, join) ==
  /\ f \in [1..n + 1 -> V] /\ f[n + 1] = base
  /\ \A j \in 1..n : f[j] = join[j][f[to[j]]]

\* There is one.
LEMMA DescentExists ==
  ASSUME NEW n \in Nat, NEW V, NEW base \in V, NEW to \in Jumps(n), NEW join \in Steps(n, V)
  PROVE  \E f : Descends(f, n, V, base, to, join)
<1> DEFINE From(f, k) == /\ f[n + 1] = base
                         /\ \A j \in n + 1 - k..n : f[j] = join[j][f[to[j]]]
           T == { k \in 0..n : \E f \in [1..n + 1 -> V] : From(f, k) }
<1>1. 0 \in T
  <2> DEFINE f == [j \in 1..n + 1 |-> base]
  <2>1. f \in [1..n + 1 -> V] /\ From(f, 0)
    OBVIOUS
  <2> HIDE DEF From, f
  <2> QED
    BY <2>1
<1>2. ASSUME NEW k \in 1..n, k - 1 \in T PROVE k \in T
  <2>1. PICK f \in [1..n + 1 -> V] : From(f, k - 1)
    BY <1>2
  <2> DEFINE i == n + 1 - k
             new == join[i][f[to[i]]]
             g == [f EXCEPT ![i] = new]
  <2>2. i \in 1..n /\ n + 1 - (k - 1) = i + 1
    OBVIOUS
  <2>3. \A j \in 1..n : to[j] \in 1..n + 1 /\ to[j] > j
    BY DEF Jumps
  <2> HIDE DEF i
  <2>4. new \in V
    BY <2>2, <2>3 DEF Steps
  <2> HIDE DEF new
  <2>5. g \in [1..n + 1 -> V] /\ g[n + 1] = base
    BY <2>1, <2>2, <2>4
  <2>6. ASSUME NEW j \in i..n PROVE g[j] = join[j][g[to[j]]]
    <3>1. j \in 1..n /\ to[j] \in 1..n + 1 /\ to[j] # i
      BY <2>2, <2>3
    <3>2. g[to[j]] = f[to[j]]
      BY <3>1
    <3>3. CASE j = i
      <4>1. g[i] = new
        BY <2>2
      <4> QED
        BY <3>2, <3>3, <4>1 DEF new
    <3>4. CASE j # i
      <4>1. j \in i + 1..n
        BY <2>2, <3>4
      <4>2. f[j] = join[j][f[to[j]]]
        BY <2>1, <2>2, <4>1
      <4>3. g[j] = f[j]
        BY <3>1, <3>4
      <4> QED
        BY <3>2, <4>2, <4>3
    <3> QED
      BY <3>3, <3>4
  <2>7. From(g, k)
    BY <2>5, <2>6 DEF i
  <2> HIDE DEF g, From
  <2> QED
    BY <2>5, <2>7
<1> HIDE DEF From
<1>3. n \in T
  <2> HIDE DEF T
  <2>1. 0..n \subseteq T
    BY <1>1, <1>2, UptoInduction
  <2> QED
    BY <2>1
<1>4. PICK f \in [1..n + 1 -> V] : From(f, n)
  BY <1>3
<1>5. n + 1 - n = 1
  OBVIOUS
<1>6. Descends(f, n, V, base, to, join)
  BY <1>4, <1>5 DEF From, Descends
<1> QED
  BY <1>6

\* The output of a stream, by its places.
LEMMA OutputIs ==
  ASSUME NEW S, NEW s \in Seq(S)
  PROVE  Output(s) = Cardinality(Bytes(s, 1, Len(s)))
<1>1. DOMAIN s = 1..Len(s)
  OBVIOUS
<1>2. { i \in DOMAIN s : IsCharacter(s, i) } = Bytes(s, 1, Len(s))
  BY <1>1, Zenon DEF Bytes
<1> QED
  BY <1>2, Zenon DEF Output

\* A sequence is a function.
LEMMA SequenceIs ==
  ASSUME NEW S, NEW s \in Seq(S)
  PROVE  Len(s) \in Nat /\ s \in [1..Len(s) -> S]
  OBVIOUS

\* Bytes read as text: the same places, with the same whole characters, and never the
\* first half of one at the end.
LEMMA TextIs ==
  ASSUME NEW s \in Seq(StreamItems)
  PROVE  /\ toString(s) \in Seq(StreamItems) /\ Len(toString(s)) = Len(s)
         /\ \A j \in 1..Len(s) : IsCharacter(toString(s), j) <=> IsCharacter(s, j)
         /\ Len(s) > 0 => toString(s)[Len(s)] # Lead
         /\ Output(toString(s)) = Output(s)
<1> DEFINE n == Len(s)
           t == toString(s)
<1>1. n \in Nat /\ DOMAIN s = 1..n /\ s \in [1..n -> StreamItems]
  BY SequenceIs
<1> HIDE DEF n
<1>2. /\ DOMAIN t = 1..n
      /\ \A j \in 1..n : t[j] = IF Whole(s, j) THEN s[j] ELSE Bad
  BY <1>1, Zenon DEF toString
<1>3. t \in Seq(StreamItems) /\ Len(t) = n
  <2>1. \A j \in 1..n : s[j] \in StreamItems /\ Bad \in StreamItems
    BY <1>1 DEF StreamItems
  <2>2. \A j \in 1..n : t[j] \in StreamItems
    BY <1>2, <2>1
  <2>3. t = [j \in 1..n |-> t[j]]
    <3>1. t = [j \in DOMAIN s |-> IF Whole(s, j) THEN s[j] ELSE Bad]
      BY DEF toString
    <3> HIDE DEF t
    <3> QED
      BY <1>1, <1>2, <3>1, Zenon
  <2> HIDE DEF t
  <2>4. t \in [1..n -> StreamItems]
    BY <2>2, <2>3, Zenon
  <2> QED
    BY <1>1, <2>4
<1> HIDE DEF t
<1>4. Byte = -1 /\ Lead = -2 /\ Trail = -3 /\ Bad = -4
  BY DEF Byte, Lead, Trail, Bad
<1>5. ASSUME NEW j \in 1..n PROVE IsCharacter(t, j) <=> IsCharacter(s, j)
  <2>1. CASE s[j] = Byte
    <3>1. t[j] = Byte
      BY <1>2, <1>4, <2>1 DEF Whole
    <3> QED
      BY <2>1, <3>1 DEF IsCharacter
  <2>2. CASE s[j] = Lead
    <3>1. CASE j + 1 \in 1..n /\ s[j + 1] = Trail
      <4>1. Whole(s, j) /\ Whole(s, j + 1)
        BY <1>1, <1>4, <2>2, <3>1 DEF Whole
      <4>2. t[j] = Lead /\ t[j + 1] = Trail
        BY <1>2, <2>2, <3>1, <4>1
      <4> QED
        BY <1>1, <1>2, <2>2, <3>1, <4>2 DEF IsCharacter
    <3>2. CASE ~(j + 1 \in 1..n /\ s[j + 1] = Trail)
      <4>1. ~Whole(s, j) /\ ~IsCharacter(s, j)
        BY <1>1, <1>4, <2>2, <3>2 DEF Whole, IsCharacter
      <4>2. t[j] = Bad
        BY <1>2, <4>1
      <4> QED
        BY <1>4, <4>1, <4>2 DEF IsCharacter
    <3> QED
      BY <3>1, <3>2
  <2>3. CASE s[j] \notin {Byte, Lead}
    <3>1. t[j] \notin {Byte, Lead}
      BY <1>2, <1>4, <2>3
    <3> QED
      BY <2>3, <3>1 DEF IsCharacter
  <2> QED
    BY <2>1, <2>2, <2>3
<1>6. n > 0 => t[n] # Lead
  <2>1. SUFFICES ASSUME n > 0, t[n] = Lead PROVE FALSE
    OBVIOUS
  <2>2. n \in 1..n
    BY <1>1, <2>1
  <2>3. Whole(s, n) /\ s[n] = Lead
    BY <1>2, <1>4, <2>1, <2>2
  <2>4. n + 1 \in 1..n
    BY <1>1, <2>3 DEF Whole
  <2> QED
    BY <1>1, <2>4
<1>7. Output(t) = Output(s)
  <2>1. Bytes(t, 1, n) = Bytes(s, 1, n)
    BY <1>5 DEF Bytes
  <2> QED
    BY <1>3, <2>1, OutputIs DEF n
<1> QED
  BY <1>3, <1>5, <1>6, <1>7 DEF n, t

\* Two streams that are joined give out what each gives out, when the first does not
\* end within a character.
LEMMA OutputJoined ==
  ASSUME NEW S, NEW s \in Seq(S), NEW t \in Seq(S), Len(s) > 0 => s[Len(s)] # Lead
  PROVE  s \o t \in Seq(S) /\ Output(s \o t) = Output(s) + Output(t)
<1> DEFINE p == Len(s)
           q == Len(t)
           st == s \o t
<1>1. st \in Seq(S) /\ Len(st) = p + q /\ p \in Nat /\ q \in Nat
  OBVIOUS
<1>0. /\ DOMAIN s = 1..p /\ DOMAIN t = 1..q /\ DOMAIN st = 1..p + q
      /\ \A j \in 1..p : st[j] = s[j]
      /\ \A j \in 1..q : st[j + p] = t[j]
      /\ p > 0 => s[p] # Lead
  OBVIOUS
<1>2. \A j \in 1..p : IsCharacter(st, j) <=> IsCharacter(s, j)
  <2> HIDE DEF p, q, st
  <2> SUFFICES ASSUME NEW j \in 1..p PROVE IsCharacter(st, j) <=> IsCharacter(s, j)
    OBVIOUS
  <2>1. CASE j = p
    BY <1>0, <1>1, <2>1 DEF IsCharacter
  <2>2. CASE j # p
    <3>1. j + 1 \in 1..p /\ j + 1 \in 1..p + q
      BY <1>1, <2>2
    <3> QED
      BY <1>0, <3>1 DEF IsCharacter
  <2> QED
    BY <2>1, <2>2
<1>3. SameItems(t, st, 1, q, p)
  <2> HIDE DEF p, q, st
  <2> SUFFICES ASSUME NEW j \in 1..q PROVE IsCharacter(st, j + p) <=> IsCharacter(t, j)
    BY DEF SameItems
  <2>1. j + p + 1 \in 1..p + q <=> j + 1 \in 1..q
    BY <1>1
  <2>2. j + 1 \in 1..q => st[(j + 1) + p] = t[j + 1]
    BY <1>0
  <2>3. (j + 1) + p = (j + p) + 1
    BY <1>1
  <2> QED
    BY <1>0, <2>1, <2>2, <2>3 DEF IsCharacter
<1>4. /\ Output(st) = Cardinality(Bytes(st, 1, p + q))
      /\ Output(s) = Cardinality(Bytes(s, 1, p)) /\ Output(t) = Cardinality(Bytes(t, 1, q))
  BY <1>1, OutputIs
<1> HIDE DEF p, q, st
<1>5. Bytes(st, 1, p) = Bytes(s, 1, p)
  BY <1>1, <1>2 DEF Bytes
<1>6. Cardinality(Bytes(st, p + 1, p + q)) = Cardinality(Bytes(t, 1, q))
  <2>1. Cardinality(Bytes(st, 1 + p, q + p)) = Cardinality(Bytes(t, 1, q))
    BY <1>1, <1>3, BytesMoved
  <2>2. 1 + p = p + 1 /\ q + p = p + q
    BY <1>1
  <2> QED
    BY <2>1, <2>2
<1>7. Cardinality(Bytes(st, 1, p + q))
        = Cardinality(Bytes(st, 1, p)) + Cardinality(Bytes(st, p + 1, p + q))
  <2>1. p + q \in Nat /\ 1 <= p + 1 /\ p <= p + q
    BY <1>1
  <2> QED
    BY <1>1, <2>1, BytesFollow
<1> QED
  BY <1>1, <1>4, <1>5, <1>6, <1>7 DEF st

\* What is cut out of a stream gives out what it gave out there, when no character is
\* cut in two behind it.
LEMMA OutputCut ==
  ASSUME NEW S, NEW buf \in Seq(S), NEW i \in Nat, NEW h \in Nat, i + h <= Len(buf),
         i + h < Len(buf) => buf[i + h + 1] # Trail
  PROVE  /\ SubSeq(buf, i + 1, i + h) \in Seq(S)
         /\ Output(SubSeq(buf, i + 1, i + h)) = Cardinality(Bytes(buf, i + 1, i + h))
<1> DEFINE s == SubSeq(buf, i + 1, i + h)
<1>1. s \in Seq(S) /\ Len(s) = h
  OBVIOUS
<1>2. SameItems(s, buf, 1, h, i)
  <2> DEFINE n == Len(buf)
  <2>1. /\ DOMAIN s = 1..h /\ DOMAIN buf = 1..n /\ n \in Nat /\ i + h <= n
        /\ \A j \in 1..h : s[j] = buf[j + i]
        /\ i + h < n => buf[i + h + 1] # Trail
    OBVIOUS
  <2> HIDE DEF s, n
  <2> SUFFICES ASSUME NEW j \in 1..h PROVE IsCharacter(buf, j + i) <=> IsCharacter(s, j)
    BY DEF SameItems
  <2>2. CASE j = h
    <3>1. (j + i) + 1 = i + h + 1 /\ ~(j + 1 \in 1..h)
      BY <2>2
    <3>2. i + h + 1 \in 1..n => buf[i + h + 1] # Trail
      BY <2>1
    <3> QED
      BY <2>1, <3>1, <3>2 DEF IsCharacter
  <2>3. CASE j # h
    <3>1. j + 1 \in 1..h /\ (j + i) + 1 \in 1..n /\ (j + 1) + i = (j + i) + 1
      BY <2>1, <2>3
    <3>2. s[j + 1] = buf[(j + i) + 1]
      BY <2>1, <3>1
    <3> QED
      BY <2>1, <3>1, <3>2 DEF IsCharacter
  <2> QED
    BY <2>2, <2>3
<1>3. Output(s) = Cardinality(Bytes(s, 1, h))
  BY <1>1, OutputIs
<1> HIDE DEF s
<1>4. Cardinality(Bytes(buf, 1 + i, h + i)) = Cardinality(Bytes(s, 1, h))
  <2>1. 1 \in Nat /\ h \in Nat /\ i \in Nat
    OBVIOUS
  <2> QED
    BY <1>2, <2>1, BytesMoved
<1>5. 1 + i = i + 1 /\ h + i = i + h
  OBVIOUS
<1> QED
  BY <1>1, <1>3, <1>4, <1>5 DEF s

\* A frame starts here, and is whole.
Framed(buf, n, i) == ~(buf[i] \notin Headers \/ i + buf[i] > n)

\* The output from each place on.
Unframed(buf, n, rest) ==
  rest = [i \in 1..(n + 1) |->
            IF i = n + 1 THEN <<>>
            ELSE IF buf[i] \notin Headers \/ i + buf[i] > n THEN None
            ELSE IF rest[i + 1 + buf[i]] = None THEN None
            ELSE toString(SubSeq(buf, i + 1, i + buf[i])) \o rest[i + 1 + buf[i]]]

\* The function that the reading of a stream is defined by is there.
LEMMA UnframedExists ==
  ASSUME NEW buf \in Seq(StreamItems)
  PROVE  \E rest : Unframed(buf, Len(buf), rest)
<1> DEFINE n == Len(buf)
           Out == Seq(StreamItems)
           V == Out \cup {None}
           frame(j) == toString(SubSeq(buf, j + 1, j + buf[j]))
           Join(j, t) == IF ~Framed(buf, n, j) \/ t = None THEN None ELSE frame(j) \o t
           next(j) == IF Framed(buf, n, j) THEN j + 1 + buf[j] ELSE j + 1
           to == [j \in 1..n |-> next(j)]
           join == [j \in 1..n |-> [t \in V |-> Join(j, t)]]
<1>1. n \in Nat /\ <<>> \in V
  OBVIOUS
<1>2. ASSUME NEW j \in 1..n, Framed(buf, n, j)
      PROVE  buf[j] \in Nat /\ j + buf[j] <= n
  BY <1>2 DEF Framed, Headers
<1>3. ASSUME NEW j \in 1..n, NEW t \in V PROVE Join(j, t) \in V
  <2>1. CASE Framed(buf, n, j) /\ t # None
    <3>1. frame(j) \in Out
      <4>1. j \in Nat /\ buf[j] \in Nat /\ j + buf[j] <= Len(buf)
        BY <1>1, <1>2, <2>1
      <4>2. SubSeq(buf, j + 1, j + buf[j]) \in Seq(StreamItems)
        BY <4>1
      <4> QED
        BY <4>2, TextIs
    <3>2. t \in Out
      BY <2>1
    <3> HIDE DEF frame
    <3>3. frame(j) \o t \in Out
      BY <3>1, <3>2
    <3> HIDE DEF Out
    <3> QED
      BY <2>1, <3>3
  <2>2. CASE ~(Framed(buf, n, j) /\ t # None)
    BY <2>2, Zenon
  <2> QED
    BY <2>1, <2>2
<1>4. to \in Jumps(n)
  <2>1. ASSUME NEW j \in 1..n PROVE next(j) \in 1..n + 1 /\ next(j) > j
    BY <1>1, <1>2
  <2> HIDE DEF next, n
  <2> QED
    BY <2>1 DEF Jumps
<1> HIDE DEF n, V, Join
<1>5. join \in Steps(n, V)
  BY <1>3 DEF Steps
<1>6. \A j \in 1..n, t \in V : join[j][t] = Join(j, t)
  OBVIOUS
<1>7. \A j \in 1..n : to[j] = next(j) /\ to[j] \in 1..n + 1 /\ j # n + 1
  BY <1>1, <1>4 DEF Jumps
<1> HIDE DEF join, to
<1>8. PICK f : Descends(f, n, V, <<>>, to, join)
  BY <1>1, <1>4, <1>5, DescentExists
<1>9. ASSUME NEW j \in 1..n
      PROVE  f[j] = IF buf[j] \notin Headers \/ j + buf[j] > n THEN None
                    ELSE IF f[j + 1 + buf[j]] = None THEN None
                    ELSE toString(SubSeq(buf, j + 1, j + buf[j])) \o f[j + 1 + buf[j]]
  <2>1. f[j] = Join(j, f[next(j)])
    BY <1>6, <1>7, <1>8 DEF Descends
  <2>2. CASE Framed(buf, n, j)
    BY <2>1, <2>2, Zenon DEF Join, Framed
  <2>3. CASE ~Framed(buf, n, j)
    BY <2>1, <2>3, Zenon DEF Join, Framed
  <2> QED
    BY <2>2, <2>3
<1>10. f \in [1..n + 1 -> V] /\ f[n + 1] = <<>>
  BY <1>8 DEF Descends
<1>11. ASSUME NEW i \in 1..(n + 1)
       PROVE  f[i] = IF i = n + 1 THEN <<>>
                     ELSE IF buf[i] \notin Headers \/ i + buf[i] > n THEN None
                     ELSE IF f[i + 1 + buf[i]] = None THEN None
                     ELSE toString(SubSeq(buf, i + 1, i + buf[i])) \o f[i + 1 + buf[i]]
  <2>1. CASE i = n + 1
    BY <1>10, <2>1, Zenon
  <2>2. CASE i # n + 1
    <3>1. i \in 1..n
      BY <1>1, <2>2
    <3> QED
      BY <1>9, <2>2, <3>1, Zenon
  <2> QED
    BY <2>1, <2>2
<1>12. Unframed(buf, n, f)
  BY <1>10, <1>11, Zenon DEF Unframed
<1> QED
  BY <1>12 DEF n

\* Where the rest of a stream is made of whole frames, all its output is there.
LEMMA RestIsOutput ==
  ASSUME NEW buf \in Seq(StreamItems), NEW rest, Unframed(buf, Len(buf), rest),
         NEW i \in 1..Len(buf) + 1, rest[i] # None
  PROVE  Output(rest[i]) = Cardinality(Bytes(buf, i, Len(buf)))
<1> DEFINE n == Len(buf)
           AllOf(j) == rest[j] # None =>
                         /\ rest[j] \in Seq(StreamItems)
                         /\ Output(rest[j]) = Cardinality(Bytes(buf, j, n))
           T == { k \in 0..n : \A j \in n + 1 - k..n + 1 : AllOf(j) }
<1>1. n \in Nat /\ \A j \in 1..n : buf[j] \in StreamItems
  <2>1. n \in Nat /\ buf \in [1..n -> StreamItems]
    BY SequenceIs
  <2> HIDE DEF n
  <2> QED
    BY <2>1
<1>2. AllOf(n + 1)
  <2>1. rest[n + 1] = <<>>
    <3>1. n + 1 \in 1..n + 1
      BY <1>1
    <3> QED
      BY <3>1, Zenon DEF Unframed
  <2>2. Bytes(buf, n + 1, n) = {}
    BY <1>1 DEF Bytes
  <2>3. Output(<<>>) = Cardinality({})
    <3>1. { x \in DOMAIN <<>> : IsCharacter(<<>>, x) } = {}
      OBVIOUS
    <3> QED
      BY <3>1, Zenon DEF Output
  <2>4. <<>> \in Seq(StreamItems)
    OBVIOUS
  <2> QED
    BY <2>1, <2>2, <2>3, <2>4, Zenon
<1>3. 0 \in T
  <2> HIDE DEF AllOf, n
  <2> QED
    BY <1>1, <1>2
<1>4. ASSUME NEW k \in 1..n, k - 1 \in T PROVE k \in T
  <2> DEFINE j == n + 1 - k
  <2>1. j \in 1..n /\ n + 1 - (k - 1) = j + 1
    BY <1>1
  <2>2. \A e \in j + 1..n + 1 : AllOf(e)
    BY <1>4, <2>1, Zenon
  <2>3. AllOf(j)
    <3> SUFFICES ASSUME rest[j] # None
                 PROVE  /\ rest[j] \in Seq(StreamItems)
                        /\ Output(rest[j]) = Cardinality(Bytes(buf, j, n))
      OBVIOUS
    <3> DEFINE h == buf[j]
               e == j + 1 + h
               cut == SubSeq(buf, j + 1, j + h)
               frame == toString(cut)
    <3> HIDE DEF j
    <3>1. rest[j] = IF h \notin Headers \/ j + h > n THEN None
                    ELSE IF rest[e] = None THEN None ELSE frame \o rest[e]
      <4>1. j \in 1..n + 1 /\ j # n + 1
        BY <1>1, <2>1
      <4> QED
        BY <4>1, Zenon DEF Unframed
    <3>2. h \in Headers /\ ~(j + h > n) /\ rest[e] # None /\ rest[j] = frame \o rest[e]
      BY <3>1, Zenon
    <3>3. h \in Nat /\ h # Byte /\ j + h <= n
      <4>1. h \in Nat
        BY <3>2 DEF Headers
      <4> HIDE DEF h, n
      <4>2. j + h <= n
        BY <1>1, <2>1, <3>2, <4>1
      <4> QED
        BY <4>1, <4>2 DEF Byte
    <3>4. e \in j + 1..n + 1 /\ e = j + h + 1
      BY <1>1, <2>1, <3>3
    <3>5. rest[e] \in Seq(StreamItems) /\ Output(rest[e]) = Cardinality(Bytes(buf, e, n))
      BY <2>2, <3>2, <3>4
    <3>6. /\ frame \in Seq(StreamItems) /\ Output(frame) = Cardinality(Bytes(buf, j + 1, j + h))
          /\ Len(frame) > 0 => frame[Len(frame)] # Lead
      <4>1. j \in Nat /\ h \in Nat /\ j + h <= Len(buf)
        BY <1>1, <2>1, <3>3
      <4>2. j + h < n => buf[j + h + 1] # Trail
        <5> SUFFICES ASSUME j + h < n PROVE buf[j + h + 1] # Trail
          OBVIOUS
        <5> HIDE DEF n, h, e
        <5>1. e \in 1..n + 1 /\ e # n + 1
          BY <1>1, <2>1, <3>3, <3>4
        <5>2. ~(buf[e] \notin Headers)
          BY <3>2, <5>1, Zenon DEF Unframed, n
        <5> QED
          BY <3>4, <5>2 DEF Headers, Trail
      <4>3. cut \in Seq(StreamItems) /\ Output(cut) = Cardinality(Bytes(buf, j + 1, j + h))
        BY <4>1, <4>2, OutputCut
      <4> HIDE DEF cut
      <4> QED
        BY <4>3, TextIs
    <3> HIDE DEF frame
    <3>7. rest[j] \in Seq(StreamItems) /\ Output(rest[j]) = Output(frame) + Output(rest[e])
      BY <3>2, <3>5, <3>6, OutputJoined
    <3>8. Bytes(buf, j, n) = Bytes(buf, j + 1, n)
      <4> HIDE DEF n
      <4> QED
        <5>1. ~IsCharacter(buf, j)
          BY <3>2, <3>3 DEF IsCharacter, Headers, Lead, Byte
        <5> QED
          BY <1>1, <2>1, <5>1 DEF Bytes
    <3>9. Cardinality(Bytes(buf, j + 1, n))
            = Cardinality(Bytes(buf, j + 1, j + h)) + Cardinality(Bytes(buf, e, n))
      <4>1. j + 1 \in Nat /\ j + h \in Nat /\ j + 1 <= j + h + 1
        BY <2>1, <3>3
      <4> QED
        BY <1>1, <3>3, <3>4, <4>1, BytesFollow
    <3> QED
      BY <3>5, <3>6, <3>7, <3>8, <3>9
  <2>4. \A e \in j..n + 1 : AllOf(e)
    <3> HIDE DEF AllOf, j, n
    <3> QED
      BY <1>1, <2>1, <2>2, <2>3
  <2> HIDE DEF AllOf
  <2> QED
    BY <2>4
<1> HIDE DEF AllOf
<1>5. n \in T
  <2> HIDE DEF T, n
  <2>1. 0..n \subseteq T
    BY <1>1, <1>3, <1>4, UptoInduction
  <2> QED
    BY <1>1, <2>1
<1>6. AllOf(i)
  <2>1. n + 1 - n = 1
    BY <1>1
  <2> QED
    BY <1>5, <2>1
<1> QED
  BY <1>6 DEF AllOf

\* What is shown of a log stream holds all its output.
LEMMA LogsWhole ==
  ASSUME NEW buf \in Seq(StreamItems)
  PROVE  Output(demuxDockerLogs(buf)) = Output(buf)
<1> DEFINE n == Len(buf)
           rest == CHOOSE f : Unframed(buf, n, f)
<1>1. demuxDockerLogs(buf) = IF rest[1] = None THEN toString(buf) ELSE rest[1]
  BY DEF demuxDockerLogs, Unframed
<1>2. Unframed(buf, n, rest)
  <2>1. \E f : Unframed(buf, n, f)
    BY UnframedExists
  <2> HIDE DEF n
  <2> QED
    BY <2>1
<1> HIDE DEF rest
<1>3. n \in Nat /\ 1 \in 1..n + 1
  OBVIOUS
<1>4. Output(buf) = Cardinality(Bytes(buf, 1, n))
  BY OutputIs
<1>5. CASE rest[1] # None
  <2>1. Output(rest[1]) = Cardinality(Bytes(buf, 1, n))
    BY <1>2, <1>3, <1>5, RestIsOutput
  <2> QED
    BY <1>1, <1>4, <1>5, <2>1
<1> QED
  BY <1>1, <1>5, TextIs

\* What is shown of a file is the end of its masked text.
LEMMA FileCut ==
  ASSUME NEW S, NEW text \in Seq(S), NEW cap \in {1, 2},
         NEW i \in Len(text) - Len(ShownOfFile(text, cap)) + 1..Len(text)
  PROVE  /\ i \in DOMAIN text
         /\ ShownOfFile(text, cap)[i - (Len(text) - Len(ShownOfFile(text, cap)))]
              = redactFileLines(text)[i]
<1> DEFINE r == redactFileLines(text)
           first == IF Len(text) > cap THEN Len(text) - cap + 1 ELSE 1
           shown == ShownOfFile(text, cap)
           cut == Len(text) - Len(shown)
<1>1. Len(text) \in Nat /\ DOMAIN text = 1..Len(text)
  OBVIOUS
<1>3. r \in Seq(S \cup {"masked"}) /\ Len(r) = Len(text)
  <2>1. \A j \in 1..Len(text) : text[j] \in S
    OBVIOUS
  <2>2. \A j \in 1..Len(text) : r[j] \in {"masked", text[j]}
    BY <1>1, Zenon DEF redactFileLines
  <2>3. \A j \in 1..Len(text) : r[j] \in S \cup {"masked"}
    BY <2>1, <2>2
  <2>4. r = [j \in 1..Len(text) |-> r[j]]
    BY <1>1, Zenon DEF redactFileLines
  <2>5. r \in [1..Len(text) -> S \cup {"masked"}]
    BY <2>3, <2>4, Zenon
  <2> HIDE DEF r
  <2> QED
    BY <1>1, <2>5
<1>4. shown = SubSeq(r, first, Len(text))
  BY DEF ShownOfFile
<1>5. first \in 1..Len(text) + 1
  BY <1>1
<1> HIDE DEF r, first
<1>6. Len(shown) = Len(text) - first + 1 /\ \A j \in 1..Len(shown) : shown[j] = r[first + j - 1]
  BY <1>1, <1>3, <1>4, <1>5
<1> HIDE DEF shown
<1>7. cut = first - 1 /\ Len(shown) \in Nat
  BY <1>1, <1>5, <1>6
<1>8. i \in cut + 1..Len(text)
  BY DEF shown
<1> HIDE DEF cut
<1>9. i \in 1..Len(text) /\ i - cut \in 1..Len(shown) /\ first + (i - cut) - 1 = i
  BY <1>1, <1>5, <1>6, <1>7, <1>8
<1>10. shown[i - cut] = r[i]
  BY <1>6, <1>9
<1> QED
  BY <1>1, <1>9, <1>10 DEF shown, r, cut

\* What stands behind a key or a flag is masked, and nothing else.
LEMMA FileMasked ==
  ASSUME NEW S, NEW text \in Seq(S), NEW i \in DOMAIN text
  PROVE  /\ \A a, b \in DOMAIN text :
              KeyLine(text, a, b) /\ a < i /\ i <= b => redactFileLines(text)[i] = "masked"
         /\ ToldByFlag(text, i) => redactFileLines(text)[i] = "masked"
         /\ redactFileLines(text)[i] # text[i] =>
              \E k \in 1..(i - 1) :
                \/ text[k] = "key" /\ OnOneLine(text, k, i)
                \/ text[k] = "flag" /\ k = i - 1
<1> DEFINE n == Len(text)
<1>1. n \in Nat /\ DOMAIN text = 1..n /\ i \in 1..n
  OBVIOUS
<1> HIDE DEF n
<1>2. redactFileLines(text)[i]
        = IF AfterKey(text, i) \/ IsArgument(text, i) THEN "masked" ELSE text[i]
  BY Zenon DEF redactFileLines
<1>3. ASSUME NEW a \in 1..n, NEW b \in 1..n, KeyLine(text, a, b), a < i, i <= b
      PROVE  AfterKey(text, i)
  <2>1. a \in 1..(i - 1) /\ OnOneLine(text, a, i) /\ OnOneLine(text, a, b)
    BY <1>1, <1>3 DEF KeyLine, OnOneLine
  <2>2. ASSUME NEW e \in 1..n, e > i, text[e] = "crlf"
        PROVE  ~OnOneLine(text, i, e - 1)
    <3>1. ~(e \in a..b)
      BY <2>1, <2>2 DEF OnOneLine, LineEnds
    <3>2. e > b
      BY <1>1, <1>3, <2>2, <3>1
    <3>3. b # n /\ text[b + 1] = "newline"
      <4>1. b # n
        BY <1>1, <2>2, <3>2
      <4> QED
        BY <1>3, <4>1, Zenon DEF KeyLine, n
    <3>4. e # b + 1 /\ b + 1 \in i..(e - 1)
      BY <1>1, <1>3, <2>2, <3>2, <3>3
    <3> QED
      BY <3>3, <3>4 DEF OnOneLine, LineEnds
  <2> QED
    BY <1>1, <1>3, <2>1, <2>2 DEF AfterKey, KeyLine
<1>4. ASSUME ToldByFlag(text, i) PROVE IsArgument(text, i)
  <2> DEFINE k == i - 1
  <2>1. /\ k \in 1..(i - 1) /\ text[i] \notin LineEnds /\ text[k] = "flag"
        /\ (i - k) % 2 = 1 /\ k..(i - 1) = {k}
    BY <1>1, <1>4 DEF ToldByFlag
  <2>2. k = 1 \/ text[k - 1] # "flag"
    BY <1>1, <1>4 DEF ToldByFlag
  <2> HIDE DEF k
  <2> QED
    BY <2>1, <2>2 DEF IsArgument
<1>5. ASSUME IsArgument(text, i) PROVE i - 1 \in 1..(i - 1) /\ text[i - 1] = "flag"
  BY <1>1, <1>5 DEF IsArgument
<1>6. AfterKey(text, i) => \E k \in 1..(i - 1) : text[k] = "key" /\ OnOneLine(text, k, i)
  BY DEF AfterKey
<1> QED
  BY <1>1, <1>2, <1>3, <1>4, <1>5, <1>6

\* The tools that show what they have read.
ShowTools == {"container_logs", "read_file", "ha_states", "ha_logbook"}

\* Such a tool is one of a connector that has it.
LEMMA WhoShows ==
  ASSUME BaseInv, NEW c \in Calls, at[c] # "idle", args[c].tool \in ShowTools
  PROVE  remote.system = CASE args[c].tool = "container_logs" -> "portainer"
                           [] args[c].tool = "read_file" -> "pelican"
                           [] OTHER -> "home-assistant"
<1> args[c] \in Accepted
  BY DEF BaseInv
<1>1. CASE remote.system = "unifi"
  BY <1>1 DEF Accepted, UniFiCalls, ShowTools, UniFiSettingCalls, UniFiForwardCalls,
              UniFiReadCalls
<1>2. CASE remote.system = "portainer"
  BY <1>2 DEF Accepted, PortainerCalls, ShowTools, StackCalls, ContainerCalls,
              PortainerReadCalls, LogCalls
<1>3. CASE remote.system = "proxmox"
  BY <1>3 DEF Accepted, ShowTools, GuestCalls, ProxmoxReadCalls
<1>4. CASE remote.system = "home-assistant"
  BY <1>4 DEF Accepted, ShowTools, HomeAssistantCalls, HAGetCalls, HAServiceCalls, HAReadCalls
<1>5. CASE remote.system = "uptime-kuma"
  BY <1>5, KumaArgs DEF ShowTools, SessionTools
<1>6. CASE remote.system = "pelican"
  BY <1>6 DEF Accepted, ShowTools, PanelCalls, BuildCalls, StartupCalls, ScheduleCalls,
              ProvisionCalls, EggCalls, FileCalls, FileOps, PanelReadCalls
<1>7. CASE remote.system = "host"
  BY <1>7 DEF Accepted, ShowTools, HostCalls
<1>8. CASE remote.system \notin {"unifi", "portainer", "proxmox", "home-assistant",
                                 "uptime-kuma", "pelican", "host"}
  BY <1>8 DEF Accepted, ShowTools, SshCalls
<1> QED
  BY <1>1, <1>2, <1>3, <1>4, <1>5, <1>6, <1>7, <1>8

\* A step of a log call after which it has something to show is the one that reads it.
LEMMA LogShown ==
  ASSUME FrameOK, NEW c \in Calls, PortainerStep(c),
         at'[c] = "have", args'[c].tool = "container_logs"
  PROVE  ShownBy(c)'
<1>1. ~Begin(c, PortainerCalls)
  BY BeginStep
<1>2. ~Breaks(c, PortainerTools)
  BY ReplyStep DEF Breaks
<1>3. ASSUME ~containerLogs(c) PROVE FALSE
  <2>1. \/ createStack(c) \/ updateStack(c) \/ removeStack(c) \/ containerAction(c)
        \/ exec(c) \/ portainerReads(c) \/ portainerSnapshot(c)
    BY <1>1, <1>2, <1>3 DEF PortainerStep
  <2>2. at[c] # "idle" /\ args[c].tool # "container_logs"
    <3>1. CASE portainerReads(c)
      BY <3>1 DEF portainerReads, PortainerReadCalls, Running
    <3>2. CASE containerAction(c)
      BY <3>2 DEF containerAction, Running
    <3>3. CASE createStack(c) \/ updateStack(c) \/ removeStack(c)
      BY <3>3 DEF createStack, updateStack, removeStack, Does, Running
    <3>4. CASE exec(c) \/ portainerSnapshot(c)
      BY <3>4 DEF exec, portainerSnapshot, Does, Running
    <3> QED
      BY <2>1, <3>1, <3>2, <3>3, <3>4
  <2>3. args'[c] = args[c]
    BY <2>2, PortainerFrame DEF Proper
  <2> QED
    BY <2>2, <2>3
<1>4. PICK stream \in LogStreams :
        Learn(c, "begin", [stream |-> stream, shown |-> demuxDockerLogs(stream)], "have")
  BY <1>3, ReplyStep DEF containerLogs
<1>5. got'[c] = [stream |-> stream, shown |-> demuxDockerLogs(stream)]
  BY <1>4, LearnStep
<1>6. Output(demuxDockerLogs(stream)) = Output(stream)
  BY PortainerAssumption, LogsWhole
<1> QED
  BY <1>5, <1>6 DEF ShownBy

\* So is one of a call that shows a file.
LEMMA FileShown ==
  ASSUME BaseInv, remote.system = "pelican", NEW c \in Calls, PelicanPanelStep(c),
         at'[c] = "have", args'[c].tool = "read_file"
  PROVE  ShownBy(c)'
<1> FrameOK
  BY DEF BaseInv
<1>1. ~Begin(c, PanelCalls)
  BY BeginStep
<1>2. ~Breaks(c, PanelTools)
  BY ReplyStep DEF Breaks
<1>3. ASSUME ~readFile(c) PROVE FALSE
  <2>1. CASE panelNotReady(c)
    BY <2>1, ReplyStep DEF panelNotReady
  <2>2. CASE \/ updateServerBuild(c) \/ updateServerStartup(c) \/ updateStartupVariables(c)
             \/ createSchedule(c) \/ updateSchedule(c) \/ deleteSchedule(c)
             \/ createAllocations(c) \/ assignAllocation(c) \/ createServer(c) \/ importEgg(c)
             \/ fileOperation(c) \/ pullFile(c) \/ waitForFile(c) \/ list(c)
             \/ pelicanSnapshot(c)
    <3>1. at[c] # "idle" /\ args[c].tool # "read_file"
      <4>1. CASE \/ updateServerBuild(c) \/ updateServerStartup(c)
                 \/ updateStartupVariables(c) \/ createSchedule(c) \/ updateSchedule(c)
                 \/ deleteSchedule(c)
        BY <4>1, Zenon DEF updateServerBuild, updateServerStartup, updateStartupVariables,
             createSchedule, updateSchedule, deleteSchedule, Ready, Does, Running
      <4>2. CASE \/ createAllocations(c) \/ assignAllocation(c) \/ createServer(c)
                 \/ importEgg(c) \/ pullFile(c) \/ waitForFile(c) \/ pelicanSnapshot(c)
        BY <4>2, Zenon DEF createAllocations, assignAllocation, createServer, importEgg,
             pullFile, waitForFile, pelicanSnapshot, Ready, Does, Running
      <4>3. CASE fileOperation(c)
        BY <4>3 DEF fileOperation, FileOps, Running
      <4>4. CASE list(c)
        BY <4>4 DEF list, Running
      <4> QED
        BY <2>2, <4>1, <4>2, <4>3, <4>4
    <3>2. args'[c] = args[c]
      BY <3>1, PelicanPanelFrame DEF Proper
    <3> QED
      BY <3>1, <3>2
  <2> QED
    BY <1>1, <1>2, <1>3, <2>1, <2>2 DEF PelicanPanelStep
<1>4. PICK text \in Texts :
        Learn(c, "begin", [text |-> text, shown |-> ShownOfFile(text, args[c].cap)], "have")
  BY <1>3, ReplyStep DEF readFile
<1>5. /\ got'[c] = [text |-> text, shown |-> ShownOfFile(text, args[c].cap)]
      /\ args' = args /\ at[c] = "begin"
  BY <1>4, LearnStep
<1>6. args[c].cap \in {1, 2}
  <2>1. args[c] \in PanelCalls /\ args[c].tool = "read_file"
    BY <1>5 DEF BaseInv, Accepted
  <2> QED
    BY <2>1 DEF PanelCalls, BuildCalls, StartupCalls, ScheduleCalls, ProvisionCalls, EggCalls,
                FileCalls, FileOps, PanelReadCalls
<1> DEFINE shown == ShownOfFile(text, args[c].cap)
           cut == Len(text) - Len(shown)
<1>7. ASSUME NEW i \in (cut + 1)..Len(text)
      PROVE  /\ \A a, b \in DOMAIN text :
                  KeyLine(text, a, b) /\ a < i /\ i <= b => shown[i - cut] = "masked"
             /\ ToldByFlag(text, i) => shown[i - cut] = "masked"
             /\ shown[i - cut] # text[i] =>
                  \E k \in 1..(i - 1) :
                    \/ text[k] = "key" /\ OnOneLine(text, k, i)
                    \/ text[k] = "flag" /\ k = i - 1
  <2>1. text \in Seq(STRING)
    BY PanelAssumption
  <2>2. i \in DOMAIN text /\ shown[i - cut] = redactFileLines(text)[i]
    BY <1>6, <1>7, <2>1, FileCut
  <2> HIDE DEF shown, cut
  <2> QED
    BY <2>1, <2>2, FileMasked
<1>8. got'[c].text = text /\ got'[c].shown = shown
  BY <1>5
<1> HIDE DEF shown
<1>9. at'[c] = "have" /\ args'[c].tool = "read_file"
  OBVIOUS
<1> QED
  BY <1>7, <1>8, <1>9, Zenon DEF ShownBy

\* So is one of a call that shows the states or the logbook.
LEMMA BodyShown ==
  ASSUME FrameOK, NEW c \in Calls, HomeAssistantStep(c),
         at'[c] = "have", args'[c].tool \in {"ha_states", "ha_logbook"}
  PROVE  ShownBy(c)'
<1>1. ~Begin(c, HomeAssistantCalls)
  BY BeginStep
<1>2. ~Breaks(c, HomeAssistantTools)
  BY ReplyStep DEF Breaks
<1>3. ASSUME ~statesOrLogbook(c) PROVE FALSE
  <2>1. \/ getRaw(c) \/ callService(c) \/ serviceAnswered(c) \/ homeAssistantTimesOut(c)
        \/ haSnapshot(c) \/ haSnapshotDone(c)
    BY <1>1, <1>2, <1>3 DEF HomeAssistantStep
  <2>2. at[c] # "idle" /\ args[c].tool \notin {"ha_states", "ha_logbook"}
    BY <2>1 DEF getRaw, callService, serviceAnswered, homeAssistantTimesOut, haSnapshot,
         haSnapshotDone, Does, Running
  <2>3. args'[c] = args[c]
    BY <2>2, HomeAssistantFrame DEF Proper
  <2> QED
    BY <2>2, <2>3
<1>4. ~Reply(c, "have", IF got[c].read.truncated \/ ~got[c].list THEN "error" ELSE "ok")
  BY ReplyStep
<1>5. \E chunks \in Bodies, l \in BOOLEAN :
        Learn(c, "begin", [chunks |-> chunks, list |-> l, read |-> readBounded(chunks)], "have")
  BY <1>3, <1>4 DEF statesOrLogbook
<1>6. PICK chunks \in Bodies, l \in BOOLEAN :
        Learn(c, "begin", [chunks |-> chunks, list |-> l, read |-> readBounded(chunks)], "have")
  BY <1>5
<1>7. got'[c] = [chunks |-> chunks, list |-> l, read |-> readBounded(chunks)]
  BY <1>6, LearnStep
<1>8. chunks \in Seq(Nat)
  BY HomeAssistantAssumption
<1> QED
  BY <1>7, <1>8, ReadWhole DEF ShownBy

\* A call that takes no step shows what it showed.
LEMMA ShownKept ==
  ASSUME NEW d \in Calls, ShownBy(d), args'[d] = args[d], at'[d] = at[d], got'[d] = got[d]
  PROVE  ShownBy(d)'
  BY DEF ShownBy

\* Whoever takes a step, every call shows faithfully what it has read.
LEMMA ShownStep ==
  ASSUME BaseInv, ShownFaithfully, [ConnectorsNext]_callVars
  PROVE  ShownFaithfully'
<1> \A d \in Calls : ShownBy(d)
  BY DEF ShownFaithfully
<1>1. BaseInv' /\ remote'.system = remote.system
  <2>1. BaseInv' /\ SameKind
    BY BaseStep
  <2> QED
    BY <2>1 DEF SameKind, BaseInv
<1>2. ASSUME NEW c \in Calls, CallStep(c) PROVE ShownFaithfully'
  <2>1. Proper(c, Accepted)
    BY <1>2, StepProper
  <2>2. CASE at'[c] = "have" /\ args'[c].tool \in ShowTools
    <3> FrameOK
      BY DEF BaseInv
    <3>1. remote.system = CASE args'[c].tool = "container_logs" -> "portainer"
                            [] args'[c].tool = "read_file" -> "pelican"
                            [] OTHER -> "home-assistant"
      <4>1. (at[c] # "idle" /\ args[c].tool \in ShowTools =>
               remote.system = CASE args[c].tool = "container_logs" -> "portainer"
                                 [] args[c].tool = "read_file" -> "pelican"
                                 [] OTHER -> "home-assistant")'
        BY <1>1, WhoShows, PTL
      <4> QED
        BY <1>1, <2>2, <4>1
    <3>2. ShownBy(c)'
      <4>1. CASE args'[c].tool = "container_logs"
        <5>1. PortainerStep(c)
          BY <1>2, <3>1, <4>1 DEF CallStep
        <5> QED
          BY <2>2, <4>1, <5>1, LogShown
      <4>2. CASE args'[c].tool = "read_file"
        <5>1. remote.system = "pelican" /\ PelicanPanelStep(c)
          BY <1>2, <3>1, <4>2 DEF CallStep
        <5> QED
          BY <2>2, <4>2, <5>1, FileShown
      <4>3. CASE args'[c].tool \in {"ha_states", "ha_logbook"}
        <5>1. HomeAssistantStep(c)
          BY <1>2, <3>1, <4>3 DEF CallStep
        <5> QED
          BY <2>2, <4>3, <5>1, BodyShown
      <4> QED
        BY <2>2, <4>1, <4>2, <4>3 DEF ShowTools
    <3> QED
      BY <2>1, <3>2, ShownKept DEF Proper, Only, ShownFaithfully
  <2>3. CASE ~(at'[c] = "have" /\ args'[c].tool \in ShowTools)
    <3>1. ShownBy(c)'
      BY <2>3 DEF ShownBy, ShowTools
    <3> QED
      BY <2>1, <3>1, ShownKept DEF Proper, Only, ShownFaithfully
  <2> QED
    BY <2>2, <2>3
<1>3. CASE Others
  BY <1>3, OthersFrame, ShownKept DEF BaseInv, ShownFaithfully
<1>4. CASE UNCHANGED callVars
  BY <1>4, ShownKept DEF callVars, ShownFaithfully
<1> QED
  BY <1>2, <1>3, <1>4 DEF ConnectorsNext, AllAnswered

\* For log streams, files and bodies of any length: every character of a log that is
\* whole in its frame is shown; what is masked of a file is what stands behind a key
\* that begins its line or behind a flag; and a body is called complete only when it is.
THEOREM ShownAsRead == ConnectorsSpec => []ShownFaithfully
<1>1. ConnectorsInit => ShownFaithfully
  <2> SUFFICES ASSUME ConnectorsInit PROVE ShownFaithfully
    OBVIOUS
  <2>1. \A c \in Calls : at[c] = "idle"
    BY DEF ConnectorsInit, CallInit
  <2> QED
    BY <2>1 DEF ShownFaithfully, ShownBy
<1>2. BaseInv /\ ShownFaithfully /\ [ConnectorsNext]_callVars => ShownFaithfully'
  BY ShownStep
<1>3. ConnectorsSpec => []BaseInv
  BY BaseInvariant
<1> QED
  BY <1>1, <1>2, <1>3, PTL DEF ConnectorsSpec

-----------------------------------------------------------------------------
(* The command policy: how it reads a line, and how a shell does.             *)

\* One more token: what the step of the split is.
LEMMA SplitStepKinds ==
  ASSUME NEW S, NEW s \in Splits(S), NEW t \in S
  PROVE  /\ SplitStep(s, t) \in Splits(S)
         /\ ~SplitStep(s, t).refused =>
              /\ ~s.refused
              /\ Adds(s, t, SplitStep(s, t)) \/ Ends(s, t, SplitStep(s, t))
<1> DEFINE u == SplitStep(s, t)
           kept == [s EXCEPT !.cur = Append(s.cur, t)]
           x == IF s.cur = <<>> THEN s.segments ELSE Append(s.segments, s.cur)
           Goal == /\ u \in Splits(S)
                   /\ ~u.refused => ~s.refused /\ (Adds(s, t, u) \/ Ends(s, t, u))
           Put == u \in Splits(S) /\ u.cur = Append(s.cur, t) /\ u.segments = s.segments
<1>1. /\ s.segments \in Seq(Seq(S)) /\ s.cur \in Seq(S) /\ s.quote \in OpenQuotes
      /\ s.escaped \in BOOLEAN /\ s.refused \in BOOLEAN
  BY DEF Splits
<1>2. Append(s.cur, t) \in Seq(S) /\ x \in Seq(Seq(S)) /\ <<>> \in Seq(S)
  BY <1>1
<1>3. kept \in Splits(S) /\ kept.cur = Append(s.cur, t) /\ kept.segments = s.segments
  BY <1>2 DEF Splits
<1> HIDE DEF x
<1> SUFFICES Goal
  OBVIOUS
<1>4. CASE s.refused
  BY <1>4 DEF SplitStep
<1>5. CASE ~s.refused /\ s.quote = "'"
  <2>1. Put
    BY <1>2, <1>5 DEF SplitStep, Splits, OpenQuotes
  <2> QED
    BY <1>5, <2>1 DEF Adds
<1>6. CASE ~s.refused /\ s.quote # "'" /\ s.escaped
  <2>1. Put
    BY <1>2, <1>6 DEF SplitStep, Splits, OpenQuotes
  <2> QED
    BY <1>6, <2>1 DEF Adds
<1>7. CASE ~s.refused /\ s.quote # "'" /\ ~s.escaped /\ t = "\\"
  <2>1. Put
    BY <1>2, <1>7 DEF SplitStep, Splits, OpenQuotes
  <2> QED
    BY <1>7, <2>1 DEF Adds, Separators, Unvetted, Substitutions
<1>8. CASE ~s.refused /\ s.quote # "'" /\ ~s.escaped /\ t \in Substitutions
  <2>1. u = [s EXCEPT !.refused = TRUE]
    BY <1>8 DEF SplitStep, Substitutions
  <2>2. u \in Splits(S) /\ u.refused
    BY <2>1 DEF Splits
  <2> QED
    BY <2>2
<1>9. CASE ~s.refused /\ s.quote = "\"" /\ ~s.escaped /\ t # "\\" /\ t \notin Substitutions
  <2>1. Put
    BY <1>2, <1>9 DEF SplitStep, Splits, OpenQuotes
  <2> QED
    BY <1>9, <2>1 DEF Adds
<1>10. CASE ~s.refused /\ s.quote = "none" /\ ~s.escaped /\ t # "\\" /\ t \notin Substitutions
  <2>1. CASE t \in {"'", "\""}
    <3>1. Put
      BY <1>2, <1>10, <2>1 DEF SplitStep, Splits, OpenQuotes
    <3> QED
      BY <1>10, <2>1, <3>1 DEF Adds, Separators, Unvetted
  <2>2. CASE t \in Separators
    <3>1. u \in Splits(S) /\ u.cur = <<>> /\ u.segments = x
      BY <1>2, <1>10, <2>2 DEF SplitStep, Splits, OpenQuotes, Separators, x
    <3> QED
      BY <1>10, <2>2, <3>1 DEF Ends, x
  <2>3. CASE t \notin {"'", "\""} /\ t \notin Separators /\ t \in Unvetted
    <3>1. u = [s EXCEPT !.refused = TRUE]
      BY <1>10, <2>3 DEF SplitStep
    <3>2. u \in Splits(S) /\ u.refused
      BY <3>1 DEF Splits
    <3> QED
      BY <3>2
  <2>4. CASE t \notin {"'", "\""} /\ t \notin Separators /\ t \notin Unvetted
    <3>1. u = kept
      BY <1>10, <2>4 DEF SplitStep
    <3>2. Put
      BY <1>3, <3>1
    <3> QED
      BY <1>10, <2>4, <3>2 DEF Adds
  <2> QED
    BY <2>1, <2>2, <2>3, <2>4
<1> QED
  BY <1>1, <1>4, <1>5, <1>6, <1>7, <1>8, <1>9, <1>10 DEF OpenQuotes

\* The quotes stay the same on both sides.
LEMMA SplitFollowsShell ==
  ASSUME NEW S, NEW s \in Splits(S), NEW t \in S, NEW b \in Lexes, SameQuote(s, b),
         ~SplitStep(s, t).refused
  PROVE  LexStep(b, t) \in Lexes /\ SameQuote(SplitStep(s, t), LexStep(b, t))
<1> DEFINE u == SplitStep(s, t)
           v == LexStep(b, t)
<1>1. /\ s.quote \in OpenQuotes /\ s.escaped \in BOOLEAN /\ s.refused \in BOOLEAN
      /\ b.quote \in OpenQuotes /\ b.escaped \in BOOLEAN
  BY DEF Splits, Lexes
<1>2. ~s.refused
  BY SplitStepKinds
<1>9. u.escaped \in BOOLEAN /\ (v \in Lexes => v.escaped \in BOOLEAN)
  <2>1. u \in Splits(S)
    BY SplitStepKinds
  <2> HIDE DEF u, v
  <2> QED
    BY <2>1 DEF Splits, Lexes
<1>3. CASE s.quote = "'"
  <2>1. u.quote = (IF t = "'" THEN "none" ELSE "'") /\ u.escaped = s.escaped
    BY <1>2, <1>3 DEF SplitStep, Splits
  <2>2. v \in Lexes /\ v.quote = (IF t = "'" THEN "none" ELSE "'") /\ v.escaped = b.escaped
    BY <1>1, <1>3 DEF LexStep, Lexes, SameQuote, OpenQuotes
  <2> QED
    BY <1>3, <2>1, <2>2 DEF SameQuote
<1>4. CASE s.quote # "'" /\ s.escaped
  <2>1. u.quote = s.quote /\ ~u.escaped
    BY <1>2, <1>4 DEF SplitStep, Splits
  <2>2. v \in Lexes /\ v.quote = b.quote /\ ~v.escaped
    BY <1>1, <1>4 DEF LexStep, Lexes, SameQuote, OpenQuotes
  <2> QED
    BY <1>1, <1>4, <1>9, <2>1, <2>2 DEF SameQuote
<1>5. CASE s.quote # "'" /\ ~s.escaped /\ t = "\\"
  <2>1. u.quote = s.quote /\ u.escaped
    BY <1>2, <1>5 DEF SplitStep, Splits
  <2>2. v \in Lexes /\ v.quote = b.quote /\ v.escaped
    BY <1>1, <1>5 DEF LexStep, Lexes, SameQuote, OpenQuotes
  <2> QED
    BY <1>1, <1>5, <1>9, <2>1, <2>2 DEF SameQuote
<1>6. CASE s.quote # "'" /\ ~s.escaped /\ t # "\\"
  <2> DEFINE q == IF s.quote = t THEN "none"
                  ELSE IF s.quote = "none" /\ t \in {"'", "\""} THEN t ELSE s.quote
  <2>1. ~s.escaped /\ t \notin Substitutions
    <3>1. t \in Substitutions => u.refused
      BY <1>2, <1>6 DEF SplitStep, Splits
    <3> QED
      BY <1>6, <3>1
  <2>2. CASE s.quote = "\""
    <3>1. u.quote = q /\ ~u.escaped
      BY <1>2, <1>6, <2>1, <2>2 DEF SplitStep, Splits
    <3>2. v \in Lexes /\ v.quote = q /\ ~v.escaped
      BY <1>1, <1>6, <2>2 DEF LexStep, Lexes, SameQuote, OpenQuotes
    <3> QED
      BY <1>6, <1>9, <2>2, <3>1, <3>2 DEF SameQuote
  <2>3. CASE s.quote = "none" /\ t \in {"'", "\""}
    <3>1. u.quote = t /\ ~u.escaped
      BY <1>2, <1>6, <2>1, <2>3 DEF SplitStep, Splits
    <3>2. v \in Lexes /\ v.quote = t /\ ~v.escaped
      BY <1>1, <1>6, <2>3 DEF LexStep, Lexes, SameQuote, OpenQuotes
    <3> QED
      BY <1>6, <1>9, <2>3, <3>1, <3>2 DEF SameQuote
  <2>4. CASE s.quote = "none" /\ t \notin {"'", "\""}
    <3>1. u.quote = "none" /\ ~u.escaped
      BY <1>2, <1>6, <2>1, <2>4 DEF SplitStep, Splits
    <3>2. v \in Lexes /\ v.quote = "none" /\ ~v.escaped
      BY <1>1, <1>6, <2>4 DEF LexStep, Lexes, SameQuote, OpenQuotes
    <3> QED
      BY <1>6, <1>9, <2>4, <3>1, <3>2 DEF SameQuote
  <2> QED
    BY <1>1, <1>6, <2>2, <2>3, <2>4 DEF OpenQuotes
<1> QED
  BY <1>3, <1>4, <1>5, <1>6

\* A token that is added stands last, heads a command when none was being read, and
\* has the command denied when it is an option no backslash touches.
LEMMA AddedIsKept ==
  ASSUME NEW S, NEW s \in Splits(S), NEW t \in S, NEW u, Adds(s, t, u)
  PROVE  /\ u.cur # <<>> /\ u.cur[Len(u.cur)] = t /\ (s.cur = <<>> => Heads(u, t))
         /\ t = "-w" /\ (s.cur = <<>> \/ s.cur[Len(s.cur)] # "\\") => Denies(u)
         /\ Denies(s) => Denies(u)
         /\ \A w : Heads(s, w) => Heads(u, w)
<1> DEFINE cur == s.cur
           grown == Append(cur, t)
           n == Len(cur)
<1>1. cur \in Seq(S) /\ u.cur = grown /\ u.segments = s.segments
  BY DEF Splits, Adds
<1>2. /\ n \in Nat /\ DOMAIN cur = 1..n /\ DOMAIN grown = 1..n + 1
      /\ Len(grown) = n + 1 /\ grown[n + 1] = t
      /\ \A i \in 1..n : grown[i] = cur[i]
  BY <1>1
<1>5. grown # <<>> /\ (cur # <<>> => n # 0 /\ grown[1] = cur[1])
  BY <1>1, <1>2
<1>6. cur = <<>> => n = 0 /\ grown[1] = t
  BY <1>1, <1>2
<1> HIDE DEF grown, cur, n
<1>3. ASSUME t = "-w", cur = <<>> \/ cur[n] # "\\" PROVE SegmentDenied(grown)
  <2>1. n + 1 \in DOMAIN grown /\ grown[n + 1] = "-w"
    BY <1>2, <1>3
  <2>2. n + 1 = 1 \/ grown[(n + 1) - 1] # "\\"
    <3>1. CASE n = 0
      BY <3>1
    <3>2. CASE n # 0
      <4>1. (n + 1) - 1 = n /\ n \in 1..n
        BY <1>2, <3>2
      <4> QED
        BY <1>2, <1>3, <1>6, <3>2, <4>1
    <3> QED
      BY <3>1, <3>2
  <2> QED
    BY <2>1, <2>2 DEF SegmentDenied
<1>4. ASSUME SegmentDenied(cur) PROVE SegmentDenied(grown)
  <2>1. PICK i \in 1..n : cur[i] = "-w" /\ (i = 1 \/ cur[i - 1] # "\\")
    BY <1>2, <1>4 DEF SegmentDenied
  <2>2. i \in DOMAIN grown /\ grown[i] = "-w"
    BY <1>2, <2>1
  <2>3. i = 1 \/ grown[i - 1] # "\\"
    <3>1. CASE i # 1
      <4>1. i - 1 \in 1..n
        BY <1>2, <3>1
      <4> QED
        BY <1>2, <2>1, <3>1, <4>1
    <3> QED
      BY <3>1
  <2> QED
    BY <2>2, <2>3 DEF SegmentDenied
<1> QED
  BY <1>1, <1>2, <1>3, <1>4, <1>5, <1>6 DEF Denies, Heads, cur, n

\* The end of a command takes away none.
LEMMA EndedIsKept ==
  ASSUME NEW S, NEW s \in Splits(S), NEW t \in S, NEW u, Ends(s, t, u)
  PROVE  (Denies(s) => Denies(u)) /\ \A w : Heads(s, w) => Heads(u, w)
<1> DEFINE cur == s.cur
           old == s.segments
           new == u.segments
<1>1. cur \in Seq(S) /\ old \in Seq(Seq(S))
  BY DEF Splits
<1>2. u.cur = <<>> /\ new = IF cur = <<>> THEN old ELSE Append(old, cur)
  BY DEF Ends
<1> HIDE DEF cur, old, new
<1>3. \A j \in 1..Len(old) : j \in 1..Len(new) /\ new[j] = old[j]
  BY <1>1, <1>2
<1>4. cur = <<>> \/ \E j \in 1..Len(new) : new[j] = cur
  <2>1. CASE cur # <<>>
    <3>1. new = Append(old, cur)
      BY <1>2, <2>1
    <3>2. Len(old) + 1 \in 1..Len(new) /\ new[Len(old) + 1] = cur
      BY <1>1, <3>1
    <3> QED
      BY <3>2
  <2> QED
    BY <2>1
<1>5. cur = <<>> => ~SegmentDenied(cur)
  BY DEF SegmentDenied
<1>6. ASSUME Denies(s) PROVE Denies(u)
  <2>1. CASE \E j \in 1..Len(old) : SegmentDenied(old[j])
    BY <1>3, <2>1 DEF Denies, new
  <2>2. CASE SegmentDenied(cur)
    BY <1>4, <1>5, <2>2 DEF Denies, new
  <2> QED
    BY <1>6, <2>1, <2>2 DEF Denies, old, cur
<1>7. ASSUME NEW w, Heads(s, w) PROVE Heads(u, w)
  <2>1. CASE \E j \in 1..Len(old) : old[j] # <<>> /\ old[j][1] = w
    BY <1>3, <2>1 DEF Heads, new
  <2>2. CASE cur # <<>> /\ cur[1] = w
    BY <1>4, <2>2 DEF Heads, new
  <2> QED
    BY <1>7, <2>1, <2>2 DEF Heads, old, cur
<1> QED
  BY <1>6, <1>7

\* Read in full, and vetted, a line is the commands the policy is asked about.
LEMMA CommandsOf ==
  ASSUME NEW S, NEW s \in Splits(S), NEW w,
         NEW all, all = IF s.cur = <<>> THEN s.segments ELSE Append(s.segments, s.cur)
  PROVE  /\ Denies(s) => \E i \in DOMAIN all : SegmentDenied(all[i])
         /\ Heads(s, w) => HeadOfOne(all, w)
<1> DEFINE cur == s.cur
           old == s.segments
<1>1. cur \in Seq(S) /\ old \in Seq(Seq(S))
  BY DEF Splits
<1> HIDE DEF cur, old
<1>2. all = IF cur = <<>> THEN old ELSE Append(old, cur)
  BY DEF cur, old
<1>3. \A j \in 1..Len(old) : j \in DOMAIN all /\ all[j] = old[j]
  <2>1. CASE cur = <<>>
    <3>1. all = old /\ DOMAIN old = 1..Len(old)
      BY <1>1, <1>2, <2>1
    <3> QED
      BY <3>1
  <2>2. CASE cur # <<>>
    <3>1. all = Append(old, cur)
      BY <1>2, <2>2
    <3>2. DOMAIN all = 1..Len(old) + 1 /\ Len(old) \in Nat
      BY <1>1, <3>1
    <3>3. \A j \in 1..Len(old) : all[j] = old[j]
      <4> SUFFICES ASSUME NEW j \in 1..Len(old) PROVE Append(old, cur)[j] = old[j]
        BY <3>1
      <4> DEFINE V == Seq(S)
      <4>1. old \in Seq(V) /\ cur \in V
        BY <1>1
      <4> HIDE DEF V
      <4> QED
        BY <4>1
    <3> QED
      BY <3>2, <3>3
  <2> QED
    BY <2>1, <2>2
<1>4. cur = <<>> \/ \E j \in DOMAIN all : all[j] = cur
  <2>1. CASE cur # <<>>
    <3>1. all = Append(old, cur)
      BY <1>2, <2>1
    <3>2. Len(old) + 1 \in DOMAIN all /\ all[Len(old) + 1] = cur
      BY <1>1, <3>1
    <3> QED
      BY <3>2
  <2> QED
    BY <2>1
<1>5. cur = <<>> => ~SegmentDenied(cur)
  BY DEF SegmentDenied
<1>6. ASSUME Denies(s) PROVE \E i \in DOMAIN all : SegmentDenied(all[i])
  <2>1. (\E j \in 1..Len(old) : SegmentDenied(old[j])) \/ SegmentDenied(cur)
    BY <1>6 DEF Denies, old, cur
  <2> QED
    BY <1>3, <1>4, <1>5, <2>1
<1>7. ASSUME Heads(s, w) PROVE \E i \in DOMAIN all : all[i][1] = w
  <2>1. (\E j \in 1..Len(old) : old[j] # <<>> /\ old[j][1] = w) \/ (cur # <<>> /\ cur[1] = w)
    BY <1>7 DEF Heads, old, cur
  <2> QED
    BY <1>3, <1>4, <2>1
<1> QED
  BY <1>6, <1>7 DEF HeadOfOne

\* There is such a split.
LEMMA SplitFollows ==
  ASSUME NEW S, NEW line \in Seq(S)
  PROVE  \E read : SplitUpto(line, read)
<1> DEFINE n == Len(line)
           V == Splits(S)
           next == [i \in 1..n |-> [b \in V |-> SplitStep(b, line[i])]]
<1>0. n \in Nat /\ \A i \in 1..n : line[i] \in S
  OBVIOUS
<1>1. \A i \in 1..n, b \in V : SplitStep(b, line[i]) \in V
  BY <1>0, SplitStepKinds
<1>2. SplitBase \in V
  BY DEF SplitBase, Splits, OpenQuotes
<1> HIDE DEF n, V
<1>3. next \in Steps(n, V)
  BY <1>1 DEF Steps
<1>4. \A i \in 1..n, b \in V : next[i][b] = SplitStep(b, line[i])
  OBVIOUS
<1> HIDE DEF next
<1>5. PICK g : Takes(g, n, V, SplitBase, next)
  BY <1>0, <1>2, <1>3, RecursionExists
<1>6. \A i \in 1..n : g[i] = SplitStep(g[i - 1], line[i])
  <2> SUFFICES ASSUME NEW i \in 1..n PROVE g[i] = SplitStep(g[i - 1], line[i])
    OBVIOUS
  <2>1. i - 1 \in 0..n
    BY <1>0
  <2> QED
    BY <1>4, <1>5, <2>1 DEF Takes
<1>7. ASSUME NEW i \in 0..n
      PROVE  g[i] = IF i = 0 THEN SplitBase ELSE SplitStep(g[i - 1], line[i])
  <2>1. CASE i = 0
    BY <1>5, <2>1, Zenon DEF Takes
  <2>2. CASE i # 0
    <3>1. i \in 1..n
      BY <1>0, <2>2
    <3> QED
      BY <1>6, <2>2, <3>1, Zenon
  <2> QED
    BY <2>1, <2>2
<1>8. g \in [0..n -> V]
  BY <1>5 DEF Takes
<1>9. g = [i \in 0..n |-> IF i = 0 THEN SplitBase ELSE SplitStep(g[i - 1], line[i])]
  BY <1>7, <1>8, Zenon
<1> QED
  BY <1>9 DEF n, SplitUpto

\* A token leaves a state of the quotes.
LEMMA LexStepType ==
  ASSUME NEW b \in Lexes, NEW t
  PROVE  LexStep(b, t) \in Lexes
BY DEF LexStep, Lexes, OpenQuotes

\* There is such a reading of the quotes.
LEMMA LexFollows ==
  ASSUME NEW S, NEW line \in Seq(S)
  PROVE  \E before : LexedUpto(line, before)
<1> DEFINE n == Len(line)
           next == [i \in 1..n |-> [b \in Lexes |-> LexStep(b, line[i])]]
<1>0. n \in Nat
  OBVIOUS
<1>2. LexBase \in Lexes
  BY DEF LexBase, Lexes, OpenQuotes
<1> HIDE DEF n
<1>3. next \in Steps(n, Lexes)
  BY LexStepType DEF Steps
<1>4. \A i \in 1..n, b \in Lexes : next[i][b] = LexStep(b, line[i])
  OBVIOUS
<1> HIDE DEF next
<1>5. PICK g : Takes(g, n, Lexes, LexBase, next)
  BY <1>0, <1>2, <1>3, RecursionExists
<1>6. \A i \in 1..n : g[i] = LexStep(g[i - 1], line[i])
  <2> SUFFICES ASSUME NEW i \in 1..n PROVE g[i] = LexStep(g[i - 1], line[i])
    OBVIOUS
  <2>1. i - 1 \in 0..n
    BY <1>0
  <2> QED
    BY <1>4, <1>5, <2>1 DEF Takes
<1> DEFINE h == [i \in 1..n |-> g[i - 1]]
<1>7. ASSUME NEW i \in 1..n
      PROVE  h[i] = IF i = 1 THEN LexBase ELSE LexStep(h[i - 1], line[i - 1])
  <2>1. CASE i = 1
    <3>1. h[i] = g[0]
      BY <2>1
    <3>2. g[0] = LexBase
      BY <1>5, Zenon DEF Takes
    <3> QED
      BY <2>1, <3>1, <3>2
  <2>2. CASE i # 1
    <3>1. i - 1 \in 1..n
      BY <1>0, <2>2
    <3>2. h[i] = g[i - 1] /\ h[i - 1] = g[(i - 1) - 1]
      BY <3>1
    <3>3. g[i - 1] = LexStep(g[(i - 1) - 1], line[i - 1])
      BY <1>6, <3>1
    <3> HIDE DEF h
    <3> QED
      BY <2>2, <3>2, <3>3
  <2> QED
    BY <2>1, <2>2
<1>8. h = [i \in 1..n |-> h[i]]
  OBVIOUS
<1> HIDE DEF h
<1>9. h = [i \in 1..n |-> IF i = 1 THEN LexBase ELSE LexStep(h[i - 1], line[i - 1])]
  BY <1>7, <1>8, Zenon
<1> QED
  BY <1>9 DEF n, LexedUpto

\* The split as the policy makes it.
LEMMA SplitIs ==
  ASSUME NEW S, NEW line \in Seq(S)
  PROVE  \E read : /\ SplitUpto(line, read)
                   /\ splitCompound(line) =
                        LET last == read[Len(line)]
                        IN IF last.refused \/ last.quote # "none" THEN None
                           ELSE IF last.cur = <<>> THEN last.segments
                           ELSE Append(last.segments, last.cur)
<1> DEFINE read == CHOOSE r : SplitUpto(line, r)
<1>1. SplitUpto(line, read)
  BY SplitFollows
<1>2. read = CHOOSE r : r = [i \in 0..Len(line) |-> IF i = 0 THEN SplitBase
                                 ELSE SplitStep(r[i - 1], line[i])]
  BY Zenon DEF SplitUpto
<1>3. splitCompound(line) =
        LET last == read[Len(line)]
        IN IF last.refused \/ last.quote # "none" THEN None
           ELSE IF last.cur = <<>> THEN last.segments
           ELSE Append(last.segments, last.cur)
  BY Zenon DEF splitCompound, SplitBase, SplitUpto
<1> HIDE DEF read
<1> QED
  BY <1>1, <1>3, Zenon

\* The quotes as the shell sees them.
LEMMA LexedIs ==
  ASSUME NEW S, NEW line \in Seq(S)
  PROVE  LexedUpto(line, Lexed(line))
<1> DEFINE before == CHOOSE r : LexedUpto(line, r)
<1>1. LexedUpto(line, before)
  BY LexFollows
<1>2. Lexed(line) = before
  BY Zenon DEF Lexed, LexStep, LexBase, LexedUpto
<1> HIDE DEF before
<1> QED
  BY <1>1, <1>2, Zenon

\* One more token.
LEMMA VettedNext ==
  ASSUME NEW S, NEW line \in Seq(S), NEW k \in 1..Len(line), NEW s \in Splits(S),
         QuotesMatch(line, k - 1, s), Vetted(line, k - 1, s),
         ~SplitStep(s, line[k]).refused
  PROVE  Vetted(line, k, SplitStep(s, line[k]))
<1> DEFINE t == line[k]
           u == SplitStep(s, t)
           n == Len(line)
           lex == Lexed(line)
           bare == Bare(line)
           begins == Begins(line)
<1>1. n \in Nat /\ DOMAIN line = 1..n /\ t \in S /\ k \in 1..n
  OBVIOUS
<1>2. (k - 1) + 1 = k /\ k - 1 < n
  BY <1>1
<1>3. SameQuote(s, lex[k])
  BY <1>1, <1>2 DEF QuotesMatch
<1>4. Adds(s, t, u) \/ Ends(s, t, u)
  BY <1>1, SplitStepKinds
<1>5. bare \subseteq 1..n /\ \A i \in 1..n : i \in bare <=> lex[i].quote = "none" /\ ~lex[i].escaped
  BY <1>1 DEF Bare
<1>6. k \in bare <=> s.quote = "none" /\ ~s.escaped
  BY <1>1, <1>3, <1>5 DEF SameQuote
<1>7. (Denies(s) => Denies(u)) /\ \A w : Heads(s, w) => Heads(u, w)
  BY <1>1, <1>4, AddedIsKept, EndedIsKept
<1>8. \A i \in begins :
        /\ i \in 1..n
        /\ \/ i = 1
           \/ i - 1 \in bare /\ line[i - 1] \in Separators \cup {"(", "&"}
           \/ /\ line[i - 1] \in Substitutions
              /\ lex[i - 1].quote # "'" /\ ~lex[i - 1].escaped
  BY <1>1 DEF Begins
<1>9. /\ \A i \in bare : i <= k - 1 => line[i] \notin Unvetted
      /\ \A i \in 1..k - 1 : KnownOption(line, i) => Denies(s)
      /\ \A i \in 1..k - 1 : line[i] \in Substitutions => lex[i].quote = "'" \/ lex[i].escaped
      /\ \A i \in begins : i <= k - 1 => line[i] \in Separators \/ Heads(s, line[i])
      /\ k - 1 = 0 \/ (k - 1 \in bare /\ line[k - 1] \in Separators) => s.cur = <<>>
      /\ s.cur # <<>> => s.cur[Len(s.cur)] = line[k - 1]
  BY DEF Vetted
<1> HIDE DEF u, lex, bare, begins, n
<1>10. ASSUME NEW i \in bare, i <= k
       PROVE  line[i] \notin Unvetted
  <2>1. CASE i = k
    <3>1. CASE Adds(s, t, u)
      <4>1. t \notin Separators \cup Unvetted
        BY <1>6, <2>1, <3>1 DEF Adds
      <4> QED
        BY <2>1, <4>1
    <3>2. CASE Ends(s, t, u)
      <4>1. t \in Separators
        BY <3>2 DEF Ends
      <4>2. t \notin Unvetted
        BY <4>1 DEF Separators, Unvetted
      <4> QED
        BY <2>1, <4>1, <4>2
    <3> QED
      BY <1>4, <3>1, <3>2
  <2>2. CASE i # k
    <3>1. i \in 1..n /\ i <= k - 1
      BY <1>1, <1>5, <1>10, <2>2
    <3> QED
      BY <1>9, <3>1
  <2> QED
    BY <2>1, <2>2
<1>11. ASSUME NEW i \in 1..k, line[i] \in Substitutions
       PROVE  lex[i].quote = "'" \/ lex[i].escaped
  <2>1. CASE i = k
    <3>1. ~Ends(s, t, u)
      BY <1>11, <2>1 DEF Ends, Separators, Substitutions
    <3>2. s.quote = "'" \/ s.escaped
      BY <1>4, <1>11, <2>1, <3>1 DEF Adds
    <3> QED
      BY <1>3, <2>1, <3>2 DEF SameQuote
  <2>2. CASE i # k
    <3>1. i \in 1..k - 1
      BY <1>1, <2>2
    <3> QED
      BY <1>9, <1>11, <3>1
  <2> QED
    BY <2>1, <2>2
<1>12. ASSUME NEW i \in begins, i <= k PROVE line[i] \in Separators \/ Heads(u, line[i])
  <2>1. CASE i = k /\ Ends(s, t, u)
    BY <2>1 DEF Ends
  <2>3. CASE i = k /\ Adds(s, t, u)
    <3>3. s.cur = <<>>
      <4>1. CASE k = 1
        BY <1>9, <4>1
      <4>2. CASE k # 1
        <5>1. k - 1 \in 1..k - 1 /\ k - 1 \in 1..n /\ k - 1 <= k - 1
          BY <1>1, <4>2
        <5>2. \/ k - 1 \in bare /\ line[k - 1] \in Separators \cup {"(", "&"}
              \/ /\ line[k - 1] \in Substitutions
                 /\ lex[k - 1].quote # "'" /\ ~lex[k - 1].escaped
          BY <1>8, <2>3, <4>2
        <5>3. line[k - 1] \in Substitutions => lex[k - 1].quote = "'" \/ lex[k - 1].escaped
          BY <1>9, <5>1
        <5>4. k - 1 \in bare /\ line[k - 1] \in Separators \cup {"(", "&"}
          BY <5>2, <5>3
        <5>5. line[k - 1] \notin Unvetted
          BY <1>9, <5>1, <5>4
        <5>6. line[k - 1] \in Separators
          BY <5>4, <5>5 DEF Unvetted
        <5> QED
          BY <1>9, <5>4, <5>6
      <4> QED
        BY <4>1, <4>2
    <3>4. Heads(u, t)
      BY <1>1, <2>3, <3>3, AddedIsKept
    <3> QED
      BY <2>3, <3>4
  <2>2. CASE i # k
    <3>1. i \in 1..n /\ i <= k - 1
      BY <1>1, <1>8, <1>12, <2>2
    <3> QED
      BY <1>7, <1>9, <3>1
  <2> QED
    BY <1>4, <2>1, <2>2, <2>3
<1>15. ASSUME NEW i \in 1..k, KnownOption(line, i) PROVE Denies(u)
  <2>1. CASE i = k
    <3>1. t = "-w" /\ (k = 1 \/ line[k - 1] # "\\")
      BY <1>15, <2>1 DEF KnownOption
    <3>2. Adds(s, t, u)
      BY <1>4, <3>1 DEF Ends, Separators
    <3>3. s.cur = <<>> \/ s.cur[Len(s.cur)] # "\\"
      BY <1>9, <3>1
    <3> QED
      BY <1>1, <3>1, <3>2, <3>3, AddedIsKept
  <2>2. CASE i # k
    <3>1. i \in 1..k - 1
      BY <1>1, <2>2
    <3> QED
      BY <1>7, <1>9, <1>15, <3>1
  <2> QED
    BY <2>1, <2>2
<1>16. u.cur # <<>> => u.cur[Len(u.cur)] = t
  <2>1. CASE Adds(s, t, u)
    BY <1>1, <2>1, AddedIsKept
  <2>2. CASE Ends(s, t, u)
    BY <2>2 DEF Ends
  <2> QED
    BY <1>4, <2>1, <2>2
<1>13. k \in bare /\ line[k] \in Separators => u.cur = <<>>
  BY <1>4, <1>6 DEF Adds, Ends
<1>14. k # 0
  BY <1>1
<1> QED
  BY <1>10, <1>11, <1>12, <1>13, <1>14, <1>15, <1>16 DEF Vetted, lex, bare, begins, u

\* As far as it was read without a refusal, a line is vetted.
LEMMA ReadIsVetted ==
  ASSUME NEW S, NEW line \in Seq(S), NEW read, SplitUpto(line, read),
         ~read[Len(line)].refused
  PROVE  read[Len(line)] \in Splits(S) /\ Vetted(line, Len(line), read[Len(line)])
<1> DEFINE n == Len(line)
           lex == Lexed(line)
           Fine(k) == /\ read[k] \in Splits(S)
                      /\ ~read[k].refused =>
                           QuotesMatch(line, k, read[k]) /\ Vetted(line, k, read[k])
           T == { k \in 0..n : Fine(k) }
<1>1. n \in Nat /\ DOMAIN line = 1..n /\ \A k \in 1..n : line[k] \in S
  OBVIOUS
<1>2. LexedUpto(line, lex)
  BY LexedIs
<1>3. /\ read[0] = SplitBase
      /\ \A k \in 1..n : read[k] = SplitStep(read[k - 1], line[k])
  <2>1. 0 \in 0..n
    BY <1>1
  <2>2. read[0] = SplitBase
    BY <2>1, Zenon DEF SplitUpto, n
  <2>3. ASSUME NEW k \in 1..n PROVE read[k] = SplitStep(read[k - 1], line[k])
    <3>1. k \in 0..n /\ k # 0
      BY <1>1
    <3> QED
      BY <3>1, Zenon DEF SplitUpto, n
  <2> QED
    BY <2>2, <2>3
<1>4. /\ n # 0 => lex[1] = LexBase
      /\ \A k \in 1..n : k # n => lex[k + 1] = LexStep(lex[k], line[k])
  <2>1. ASSUME n # 0 PROVE lex[1] = LexBase
    <3>1. 1 \in 1..n
      BY <1>1, <2>1
    <3> QED
      BY <1>2, <3>1, Zenon DEF LexedUpto, n
  <2>2. ASSUME NEW k \in 1..n, k # n PROVE lex[k + 1] = LexStep(lex[k], line[k])
    <3>1. k + 1 \in 1..n /\ k + 1 # 1 /\ (k + 1) - 1 = k
      <4> HIDE DEF n, lex
      <4> QED
        BY <1>1, <2>2
    <3>2. lex[k + 1] = LexStep(lex[(k + 1) - 1], line[(k + 1) - 1])
      BY <1>2, <3>1, Zenon DEF LexedUpto, n
    <3> QED
      BY <3>1, <3>2
  <2> QED
    BY <2>1, <2>2
<1>5. Fine(0)
  <2>1. read[0] \in Splits(S)
    BY <1>3 DEF SplitBase, Splits, OpenQuotes
  <2>2. QuotesMatch(line, 0, read[0])
    <3>1. CASE n = 0
      BY <1>1, <3>1 DEF QuotesMatch
    <3>2. CASE n # 0
      <4>1. lex[0 + 1] \in Lexes /\ SameQuote(read[0], lex[0 + 1])
        <5>1. LexBase \in Lexes /\ LexBase.quote = "none" /\ ~LexBase.escaped
          BY DEF LexBase, Lexes, OpenQuotes
        <5>2. SplitBase.quote = "none" /\ ~SplitBase.escaped
          BY DEF SplitBase
        <5>3. SplitBase.escaped = LexBase.escaped
          BY DEF SplitBase, LexBase
        <5> QED
          BY <1>3, <1>4, <3>2, <5>1, <5>2, <5>3 DEF SameQuote
      <4> QED
        BY <4>1 DEF QuotesMatch
    <3> QED
      BY <3>1, <3>2
  <2>3. Vetted(line, 0, read[0])
    <3>1. \A i \in 1..n : ~(i <= 0)
      BY <1>1
    <3>2. \A i \in Bare(line) : i \in 1..n
      BY <1>1 DEF Bare
    <3>3. \A i \in Begins(line) : i \in 1..n
      BY <1>1 DEF Begins
    <3>4. read[0].cur = <<>>
      BY <1>3 DEF SplitBase
    <3>5. 1..0 = {}
      OBVIOUS
    <3> HIDE DEF n
    <3> QED
      BY <3>1, <3>2, <3>3, <3>4, <3>5 DEF Vetted
  <2> QED
    BY <2>1, <2>2, <2>3
<1>6. ASSUME NEW k \in 1..n, Fine(k - 1) PROVE Fine(k)
  <2> DEFINE s == read[k - 1]
             u == read[k]
  <2>1. u = SplitStep(s, line[k]) /\ line[k] \in S /\ s \in Splits(S)
    BY <1>1, <1>3, <1>6
  <2>2. u \in Splits(S) /\ (~u.refused => ~s.refused)
    BY <2>1, SplitStepKinds
  <2>3. ASSUME ~u.refused PROVE QuotesMatch(line, k, u) /\ Vetted(line, k, u)
    <3>1. QuotesMatch(line, k - 1, s) /\ Vetted(line, k - 1, s)
      BY <1>6, <2>2, <2>3
    <3> HIDE DEF s, u, lex, n
    <3>2. Vetted(line, k, u)
      BY <2>1, <2>3, <3>1, VettedNext DEF n
    <3>3. QuotesMatch(line, k, u)
      <4>1. CASE k = n
        BY <4>1, <1>1 DEF QuotesMatch, n
      <4>2. CASE k # n
        <5>1. (k - 1) + 1 = k /\ k - 1 < n
          BY <1>1
        <5>2. lex[k] \in Lexes /\ SameQuote(s, lex[k])
          BY <3>1, <5>1 DEF QuotesMatch, n, lex
        <5>3. lex[k + 1] = LexStep(lex[k], line[k])
          BY <1>4, <4>2
        <5>4. lex[k + 1] \in Lexes /\ SameQuote(u, lex[k + 1])
          BY <2>1, <2>3, <5>2, <5>3, SplitFollowsShell
        <5> QED
          BY <5>4 DEF QuotesMatch, lex
      <4> QED
        BY <4>1, <4>2
    <3> QED
      BY <3>2, <3>3
  <2> QED
    BY <2>2, <2>3
<1> HIDE DEF Fine
<1>7. 0 \in T /\ \A k \in 1..n : k - 1 \in T => k \in T
  <2>1. 0 \in T
    BY <1>1, <1>5
  <2>2. ASSUME NEW k \in 1..n, k - 1 \in T PROVE k \in T
    <3>1. Fine(k - 1) /\ k \in 0..n
      BY <1>1, <2>2
    <3> QED
      BY <1>6, <3>1
  <2> QED
    BY <2>1, <2>2
<1>8. n \in T
  <2> HIDE DEF T
  <2>1. 0..n \subseteq T
    BY <1>1, <1>7, UptoInduction
  <2>2. n \in 0..n
    BY <1>1
  <2> QED
    BY <2>1, <2>2
<1>9. Fine(n)
  BY <1>8
<1> QED
  BY <1>9 DEF Fine

\* What the read-only policy makes sure of, however a line is quoted and escaped:
\* each program a shell starts for it is on the list, nothing is redirected, and no
\* option stands in it but one that a backslash touches.
LEMMA ReadonlyIsListed ==
  ASSUME NEW S, NEW line \in Seq(S), checkReadonly(line)
  PROVE  /\ \A i \in Starts(line) : line[i] = "look"
         /\ \A i \in Bare(line) : line[i] # ">"
         /\ \A i \in DOMAIN line : ~KnownOption(line, i)
<1> DEFINE all == splitCompound(line)
           n == Len(line)
<1>1. /\ line # <<>> /\ all # None
      /\ \A i \in DOMAIN all : Allowed(all[i]) /\ ~SegmentDenied(all[i])
  BY Zenon DEF checkReadonly, checkCommand
<1>2. PICK read : /\ SplitUpto(line, read)
                  /\ all = LET last == read[n]
                           IN IF last.refused \/ last.quote # "none" THEN None
                              ELSE IF last.cur = <<>> THEN last.segments
                              ELSE Append(last.segments, last.cur)
  BY SplitIs
<1> DEFINE s == read[n]
<1>3. /\ ~s.refused
      /\ all = IF s.cur = <<>> THEN s.segments ELSE Append(s.segments, s.cur)
  <2> HIDE DEF all
  <2> QED
    BY <1>1, <1>2
<1>4. s \in Splits(S) /\ Vetted(line, n, s)
  BY <1>2, <1>3, ReadIsVetted
<1>5. DOMAIN line = 1..n /\ n \in Nat
  OBVIOUS
<1> HIDE DEF s, all, n
<1>6. ASSUME NEW i \in Begins(line), line[i] \notin Separators PROVE line[i] = "look"
  <2>1. i \in 1..n
    BY <1>5 DEF Begins
  <2>2. Heads(s, line[i])
    BY <1>4, <1>5, <1>6, <2>1 DEF Vetted
  <2> DEFINE w == line[i]
  <2>3. HeadOfOne(all, w)
    <3> HIDE DEF w
    <3>1. Heads(s, w)
      BY <2>2 DEF w
    <3> QED
      BY <1>3, <1>4, <3>1, CommandsOf
  <2> QED
    BY <1>1, <2>3 DEF Allowed, HeadOfOne
<1>7. ASSUME NEW i \in Starts(line) PROVE line[i] = "look"
  <2>1. CASE i \in Begins(line)
    <3>1. line[i] \notin Separators
      BY DEF Starts, Programs, Separators
    <3> QED
      BY <1>6, <2>1, <3>1
  <2>2. CASE i - 1 \in Begins(line) /\ line[i - 1] = "\\"
    <3>1. line[i - 1] \notin Separators
      BY <2>2 DEF Separators
    <3>2. line[i - 1] = "look"
      BY <1>6, <2>2, <3>1
    <3> QED
      BY <2>2, <3>2
  <2> QED
    BY <2>1, <2>2 DEF Starts
<1>8. ASSUME NEW i \in Bare(line) PROVE line[i] # ">"
  <2>1. i \in 1..n
    BY <1>5 DEF Bare
  <2> QED
    BY <1>4, <1>5, <2>1 DEF Vetted, Unvetted
<1>9. ASSUME NEW i \in DOMAIN line, KnownOption(line, i) PROVE FALSE
  <2>1. Denies(s)
    BY <1>4, <1>5, <1>9 DEF Vetted
  <2> QED
    BY <1>1, <1>3, <1>4, <2>1, CommandsOf
<1> QED
  BY <1>7, <1>8, <1>9

(***************************************************************************)
(* A line of any length that the read-only policy lets pass only reads,     *)
(* however it is put together: each program a shell starts for it is on the *)
(* list, nothing is redirected, and no option makes one write.  The last    *)
(* needs that no option is quoted or escaped: the patterns for options in   *)
(* command-policy.ts are held against the raw text, which the lemma above   *)
(* keeps apart from what holds of every line.                               *)
(***************************************************************************)
THEOREM ReadonlyOnlyReads ==
  ASSUME NEW S, NEW line \in Seq(S), checkReadonly(line), ~EscapedOption(line)
  PROVE  OnlyReads(line)
<1>1. ASSUME NEW i \in DOMAIN line, line[i] = "-w" PROVE FALSE
  <2>1. KnownOption(line, i)
    BY <1>1 DEF EscapedOption, KnownOption
  <2> QED
    BY <2>1, ReadonlyIsListed
<1> QED
  BY <1>1, ReadonlyIsListed DEF OnlyReads

-----------------------------------------------------------------------------
(* Paths: how the allow-list reads one, and how the server does.             *)

\* They stay together over one more segment.
LEMMA StepsTogether ==
  ASSUME NEW o, NEW s, KeepsStep(o, s), NEW g \in Segments, Plain(g)
  PROVE  KeepsStep(CanonStep(o, g), ServeStep(s, g))
<1>0. g.name # Empty /\ (g.name \in {".", ".."} => g.encoded <= 1)
  BY DEF Plain
<1>1. g.name \in Names /\ g.encoded \in Nat
  BY DEF Segments, Names
<1>2. /\ o \in Seq(Names) /\ s \in Seq(Names) /\ Len(o) = Len(s) /\ Len(s) \in Nat
      /\ \A i \in 1..Len(s) : s[i] = o[i] \/ s[i] = "unknown"
  BY DEF KeepsStep
<1>3. CASE g.name = "."
  <2>1. CanonStep(o, g) = o /\ ServeStep(s, g) = s
    BY <1>0, <1>3 DEF CanonStep, ServeStep
  <2> QED
    BY <2>1
<1>4. CASE g.name = ".."
  <2>1. CASE o = <<>>
    <3>1. s = <<>>
      BY <1>2, <2>1
    <3>2. CanonStep(o, g) = <<>> /\ ServeStep(s, g) = <<>>
      BY <1>0, <1>4, <2>1, <3>1 DEF CanonStep, ServeStep
    <3> QED
      BY <2>1, <3>1, <3>2
  <2>2. CASE o # <<>>
    <3>1. s # <<>> /\ Len(s) - 1 \in Nat
      BY <1>2, <2>2
    <3> DEFINE p == SubSeq(o, 1, Len(o) - 1)
               q == SubSeq(s, 1, Len(s) - 1)
    <3>2. CanonStep(o, g) = p /\ ServeStep(s, g) = q
      BY <1>0, <1>4, <2>2, <3>1 DEF CanonStep, ServeStep
    <3>3. /\ p \in Seq(Names) /\ q \in Seq(Names)
          /\ Len(p) = Len(s) - 1 /\ Len(q) = Len(s) - 1
      BY <1>2, <3>1
    <3>4. \A i \in 1..Len(s) - 1 : p[i] = o[i] /\ q[i] = s[i] /\ i \in 1..Len(s)
      BY <1>2, <3>1
    <3> HIDE DEF p, q
    <3> QED
      BY <1>2, <3>2, <3>3, <3>4 DEF KeepsStep
  <2> QED
    BY <2>1, <2>2
<1>5. CASE g.name \notin {".", ".."}
  <2> DEFINE x == IF g.encoded > 1 \/ g.name = "%" THEN "unknown" ELSE g.name
             p == Append(o, g.name)
             q == Append(s, x)
  <2>1. CanonStep(o, g) = p /\ ServeStep(s, g) = q
    BY <1>0, <1>5 DEF CanonStep, ServeStep
  <2>2. x \in Names /\ (x = g.name \/ x = "unknown")
    <3>1. x = g.name \/ x = "unknown"
      OBVIOUS
    <3>2. "unknown" \in Names
      BY DEF Names
    <3> QED
      BY <1>1, <3>1, <3>2
  <2> HIDE DEF x
  <2>3. /\ p \in Seq(Names) /\ q \in Seq(Names)
        /\ Len(p) = Len(s) + 1 /\ Len(q) = Len(s) + 1
        /\ p[Len(s) + 1] = g.name /\ q[Len(s) + 1] = x
    BY <1>1, <1>2, <2>2
  <2>4. \A i \in 1..Len(s) : p[i] = o[i] /\ q[i] = s[i]
    BY <1>1, <1>2, <2>2
  <2>5. \A i \in 1..Len(s) + 1 : i \in 1..Len(s) \/ i = Len(s) + 1
    BY <1>2
  <2> HIDE DEF p, q
  <2> QED
    BY <1>2, <2>1, <2>2, <2>3, <2>4, <2>5 DEF KeepsStep
<1> QED
  BY <1>3, <1>4, <1>5

\* Both stay with sequences of names.
LEMMA StepsStay ==
  ASSUME NEW o \in Seq(Names), NEW g \in Segments
  PROVE  CanonStep(o, g) \in Seq(Names) /\ ServeStep(o, g) \in Seq(Names)
<1>1. g.name \in Names /\ "unknown" \in Names
  BY DEF Segments, Names
<1>2. o # <<>> => SubSeq(o, 1, Len(o) - 1) \in Seq(Names)
  <2>1. ASSUME o # <<>> PROVE SubSeq(o, 1, Len(o) - 1) \in Seq(Names)
    <3>1. Len(o) - 1 \in Nat
      BY <2>1
    <3> QED
      BY <3>1
  <2> QED
    BY <2>1
<1>3. Append(o, g.name) \in Seq(Names) /\ Append(o, "unknown") \in Seq(Names)
  BY <1>1
<1>4. <<>> \in Seq(Names)
  OBVIOUS
<1> QED
  BY <1>2, <1>3, <1>4 DEF CanonStep, ServeStep

\* There is such a reading by the list.
LEMMA CanonFollows ==
  ASSUME NEW path \in Seq(Segments)
  PROVE  \E out : CanonUpto(path, out)
<1> DEFINE n == Len(path)
           V == Seq(Names)
           next == [i \in 1..n |-> [b \in V |-> CanonStep(b, path[i])]]
<1>0. n \in Nat /\ \A i \in 1..n : path[i] \in Segments
  OBVIOUS
<1>1. \A i \in 1..n, b \in V : CanonStep(b, path[i]) \in V
  BY <1>0, StepsStay
<1>2. <<>> \in V
  OBVIOUS
<1> HIDE DEF n, V
<1>3. next \in Steps(n, V)
  BY <1>1 DEF Steps
<1>4. \A i \in 1..n, b \in V : next[i][b] = CanonStep(b, path[i])
  OBVIOUS
<1> HIDE DEF next
<1>5. PICK g : Takes(g, n, V, <<>>, next)
  BY <1>0, <1>2, <1>3, RecursionExists
<1>6. \A i \in 1..n : g[i] = CanonStep(g[i - 1], path[i])
  <2> SUFFICES ASSUME NEW i \in 1..n PROVE g[i] = CanonStep(g[i - 1], path[i])
    OBVIOUS
  <2>1. i - 1 \in 0..n
    BY <1>0
  <2> QED
    BY <1>4, <1>5, <2>1 DEF Takes
<1>7. ASSUME NEW i \in 0..n
      PROVE  g[i] = IF i = 0 THEN <<>> ELSE CanonStep(g[i - 1], path[i])
  <2>1. CASE i = 0
    BY <1>5, <2>1, Zenon DEF Takes
  <2>2. CASE i # 0
    <3>1. i \in 1..n
      BY <1>0, <2>2
    <3> QED
      BY <1>6, <2>2, <3>1, Zenon
  <2> QED
    BY <2>1, <2>2
<1>8. g \in [0..n -> V]
  BY <1>5 DEF Takes
<1>9. g = [i \in 0..n |-> IF i = 0 THEN <<>> ELSE CanonStep(g[i - 1], path[i])]
  BY <1>7, <1>8, Zenon
<1> QED
  BY <1>9 DEF n, CanonUpto

\* There is such a reading by the server.
LEMMA ServedFollows ==
  ASSUME NEW path \in Seq(Segments)
  PROVE  \E out : ServedUpto(path, out)
<1> DEFINE n == Len(path)
           V == Seq(Names)
           next == [i \in 1..n |-> [b \in V |-> ServeStep(b, path[i])]]
<1>0. n \in Nat /\ \A i \in 1..n : path[i] \in Segments
  OBVIOUS
<1>1. \A i \in 1..n, b \in V : ServeStep(b, path[i]) \in V
  BY <1>0, StepsStay
<1>2. <<>> \in V
  OBVIOUS
<1> HIDE DEF n, V
<1>3. next \in Steps(n, V)
  BY <1>1 DEF Steps
<1>4. \A i \in 1..n, b \in V : next[i][b] = ServeStep(b, path[i])
  OBVIOUS
<1> HIDE DEF next
<1>5. PICK g : Takes(g, n, V, <<>>, next)
  BY <1>0, <1>2, <1>3, RecursionExists
<1>6. \A i \in 1..n : g[i] = ServeStep(g[i - 1], path[i])
  <2> SUFFICES ASSUME NEW i \in 1..n PROVE g[i] = ServeStep(g[i - 1], path[i])
    OBVIOUS
  <2>1. i - 1 \in 0..n
    BY <1>0
  <2> QED
    BY <1>4, <1>5, <2>1 DEF Takes
<1>7. ASSUME NEW i \in 0..n
      PROVE  g[i] = IF i = 0 THEN <<>> ELSE ServeStep(g[i - 1], path[i])
  <2>1. CASE i = 0
    BY <1>5, <2>1, Zenon DEF Takes
  <2>2. CASE i # 0
    <3>1. i \in 1..n
      BY <1>0, <2>2
    <3> QED
      BY <1>6, <2>2, <3>1, Zenon
  <2> QED
    BY <2>1, <2>2
<1>8. g \in [0..n -> V]
  BY <1>5 DEF Takes
<1>9. g = [i \in 0..n |-> IF i = 0 THEN <<>> ELSE ServeStep(g[i - 1], path[i])]
  BY <1>7, <1>8, Zenon
<1> QED
  BY <1>9 DEF n, ServedUpto

\* The path the allow-list looks at.
LEMMA CanonIs ==
  ASSUME NEW path \in Seq(Segments)
  PROVE  \E out : CanonUpto(path, out) /\ canonicalizePath(path) = out[Len(path)]
<1> DEFINE out == CHOOSE r : CanonUpto(path, r)
<1>1. CanonUpto(path, out)
  BY CanonFollows
<1>2. canonicalizePath(path) = out[Len(path)]
  BY Zenon DEF canonicalizePath, CanonUpto, CanonStep, Empty
<1> HIDE DEF out
<1> QED
  BY <1>1, <1>2, Zenon

\* The path that is served.
LEMMA ServedIs ==
  ASSUME NEW path \in Seq(Segments)
  PROVE  \E out : ServedUpto(path, out) /\ Served(path) = out[Len(path)]
<1> DEFINE out == CHOOSE r : ServedUpto(path, r)
<1>1. ServedUpto(path, out)
  BY ServedFollows
<1>2. Served(path) = out[Len(path)]
  BY Zenon DEF Served, ServedUpto, ServeStep
<1> HIDE DEF out
<1> QED
  BY <1>1, <1>2, Zenon

\* It holds as long as the two keep step,
LEMMA StepIsLate ==
  ASSUME NEW o, NEW s, KeepsStep(o, s)
  PROVE  Late(o, s)
<1>1. /\ o \in Seq(Names) /\ s \in Seq(Names) /\ Len(o) = Len(s) /\ Len(s) \in Nat
      /\ \A i \in 1..Len(s) : s[i] = o[i] \/ s[i] = "unknown"
  BY DEF KeepsStep
<1>2. ASSUME Len(s) >= 2, s[2] = "webhook" PROVE o[2] = "webhook"
  <2>1. 2 \in 1..Len(s)
    BY <1>1, <1>2
  <2> QED
    BY <1>1, <1>2, <2>1
<1> QED
  BY <1>1, <1>2 DEF Late

\* and over one more segment that takes nothing away.
LEMMA LateStays ==
  ASSUME NEW o, NEW s, Late(o, s), NEW g \in Segments, g.name # ".."
  PROVE  Late(CanonStep(o, g), ServeStep(s, g))
<1>1. g.name \in Names /\ "unknown" \in Names
  BY DEF Segments, Names
<1>2. /\ o \in Seq(Names) /\ s \in Seq(Names) /\ Len(o) \in Nat /\ Len(s) \in Nat
      /\ Len(s) >= 2 /\ s[1] = "api" /\ s[2] = "webhook" => Len(o) >= 2 /\ o[2] = "webhook"
      /\ Len(s) < 2 /\ (Len(s) = 1 => s[1] = "api") => Len(o) = Len(s)
  BY DEF Late
<1>3. "api" # Empty /\ "webhook" # Empty
  BY Zenon DEF Empty
<1>4. CASE g.name = "." /\ g.encoded <= 1
  <2>1. CanonStep(o, g) = o /\ ServeStep(s, g) = s
    BY <1>4 DEF CanonStep, ServeStep
  <2> QED
    BY <2>1
<1>5. CASE ~(g.name = "." /\ g.encoded <= 1)
  <2> DEFINE x == IF g.encoded > 1 \/ g.name = "%" THEN "unknown" ELSE g.name
             p == Append(o, g.name)
             q == Append(s, x)
             u == CanonStep(o, g)
  <2>1. ServeStep(s, g) = q
    BY <1>5 DEF ServeStep
  <2>2. (u = o /\ g.name \in {Empty, "."}) \/ u = p
    BY DEF CanonStep
  <2>3. x \in Names /\ (x = g.name \/ x = "unknown")
    BY <1>1
  <2>4. x \in {"api", "webhook"} => u = p /\ x = g.name
    BY <1>3, <2>2, <2>3
  <2> HIDE DEF x, u
  <2>5. /\ p \in Seq(Names) /\ Len(p) = Len(o) + 1 /\ p[Len(o) + 1] = g.name
        /\ \A i \in 1..Len(o) : p[i] = o[i]
    BY <1>1, <1>2
  <2>6. /\ q \in Seq(Names) /\ Len(q) = Len(s) + 1 /\ q[Len(s) + 1] = x
        /\ \A i \in 1..Len(s) : q[i] = s[i]
    BY <1>1, <1>2, <2>3
  <2> HIDE DEF p, q
  <2>7. u \in Seq(Names)
    BY <1>2, <2>2, <2>5
  <2>8. ASSUME Len(q) >= 2, q[1] = "api", q[2] = "webhook"
        PROVE  Len(u) >= 2 /\ u[2] = "webhook"
    <3>1. CASE Len(s) >= 2
      <4>1. q[1] = s[1] /\ q[2] = s[2]
        <5>1. 1 \in 1..Len(s) /\ 2 \in 1..Len(s)
          BY <1>2, <3>1
        <5> QED
          BY <2>6, <5>1
      <4>2. Len(o) >= 2 /\ o[2] = "webhook"
        BY <1>2, <2>8, <3>1, <4>1
      <4>3. Len(p) >= 2 /\ p[2] = o[2]
        <5>1. 2 \in 1..Len(o)
          BY <1>2, <4>2
        <5> QED
          BY <1>2, <2>5, <4>2, <5>1
      <4> QED
        BY <2>2, <4>2, <4>3
    <3>2. CASE Len(s) < 2
      <4>1. Len(s) = 1
        <5>1. Len(s) + 1 >= 2
          BY <2>6, <2>8
        <5> DEFINE k == Len(s)
        <5>2. k \in Nat /\ k + 1 >= 2 /\ k < 2
          BY <1>2, <3>2, <5>1
        <5> HIDE DEF k
        <5>3. k = 1
          BY <5>2
        <5> QED
          BY <5>3 DEF k
      <4>2. q[1] = s[1] /\ x = "webhook"
        BY <2>6, <2>8, <4>1
      <4>3. Len(o) = 1
        BY <1>2, <2>8, <4>1, <4>2
      <4> QED
        BY <2>4, <2>5, <4>2, <4>3
    <3> QED
      BY <1>2, <3>1, <3>2
  <2>9. ASSUME Len(q) < 2, Len(q) = 1 => q[1] = "api"
        PROVE  Len(u) = Len(q)
    <3>1. Len(s) = 0 /\ Len(q) = 1 /\ x = "api"
      BY <1>2, <2>6, <2>9
    <3>2. Len(o) = 0
      BY <1>2, <3>1
    <3> QED
      BY <2>4, <2>5, <3>1, <3>2
  <2>10. Late(u, q)
    BY <2>6, <2>7, <2>8, <2>9 DEF Late
  <2> QED
    BY <2>1, <2>10 DEF u
<1> QED
  BY <1>4, <1>5

\* On a path that is read in step, the two keep step up to the last "..", and what is
\* needed holds to the end.
LEMMA ServedIsLate ==
  ASSUME NEW path \in Seq(Segments), InStep(path)
  PROVE  Late(canonicalizePath(path), Served(path))
<1> DEFINE n == Len(path)
<1>1. PICK canon : CanonUpto(path, canon) /\ canonicalizePath(path) = canon[n]
  BY CanonIs
<1>2. PICK served : ServedUpto(path, served) /\ Served(path) = served[n]
  BY ServedIs
<1> DEFINE Fine(k) == /\ Late(canon[k], served[k])
                      /\ Ahead(path, k) => KeepsStep(canon[k], served[k])
           T == { k \in 0..n : Fine(k) }
<1>3. n \in Nat /\ DOMAIN path = 1..n /\ \A k \in 1..n : path[k] \in Segments
  OBVIOUS
<1>4. \A k \in 0..n : /\ canon[k] = IF k = 0 THEN <<>> ELSE CanonStep(canon[k - 1], path[k])
                      /\ served[k] = IF k = 0 THEN <<>> ELSE ServeStep(served[k - 1], path[k])
  BY <1>1, <1>2, Zenon DEF CanonUpto, ServedUpto
<1>5. \A i, j \in 1..n : j <= i /\ path[i].name = ".." => Plain(path[j])
  BY <1>3, Zenon DEF InStep, Plain, Empty
<1> HIDE DEF n
<1>6. 0 \in T
  <2>1. 0 \in 0..n /\ canon[0] = <<>> /\ served[0] = <<>>
    BY <1>3, <1>4
  <2>2. KeepsStep(<<>>, <<>>)
    BY DEF KeepsStep
  <2> QED
    BY <2>1, <2>2, StepIsLate
<1>7. ASSUME NEW k \in 1..n, k - 1 \in T PROVE k \in T
  <2> DEFINE o == canon[k - 1]
             s == served[k - 1]
             g == path[k]
  <2>1. k \in 0..n /\ k # 0 /\ k \in Nat
    BY <1>3
  <2>2. canon[k] = CanonStep(o, g) /\ served[k] = ServeStep(s, g)
    BY <1>4, <2>1
  <2>3. Late(o, s) /\ (Ahead(path, k - 1) => KeepsStep(o, s)) /\ g \in Segments
    BY <1>3, <1>7
  <2> HIDE DEF o, s
  <2>4. CASE g.name = ".." \/ Ahead(path, k)
    <3>1. PICK i \in 1..n : k <= i /\ path[i].name = ".."
      BY <1>3, <2>1, <2>4 DEF Ahead
    <3>2. Plain(g)
      BY <1>5, <3>1
    <3>3. i > k - 1
      BY <2>1, <3>1
    <3>4. KeepsStep(o, s)
      BY <1>3, <2>3, <3>1, <3>3 DEF Ahead
    <3>5. KeepsStep(canon[k], served[k])
      BY <2>2, <2>3, <3>2, <3>4, StepsTogether
    <3> QED
      BY <2>1, <3>5, StepIsLate
  <2>5. CASE g.name # ".." /\ ~Ahead(path, k)
    <3>1. Late(canon[k], served[k])
      BY <2>2, <2>3, <2>5, LateStays
    <3> QED
      BY <2>1, <2>5, <3>1
  <2> QED
    BY <2>4, <2>5
<1>8. n \in T
  <2> HIDE DEF T
  <2>1. 0..n \subseteq T
    BY <1>3, <1>6, <1>7, UptoInduction
  <2>2. n \in 0..n
    BY <1>3
  <2> QED
    BY <2>1, <2>2
<1> QED
  BY <1>1, <1>2, <1>8

(***************************************************************************)
(* A path of any length that the allow-list lets through fires no           *)
(* automation when it is served, encoded or not, empty segments or not, as  *)
(* long as the two agree on what each ".." of it takes away: after the last *)
(* one nothing is asked of it.                                              *)
(***************************************************************************)
THEOREM AllowedPathFiresNothing ==
  ASSUME NEW path \in Seq(Segments), InStep(path), isAllowedReadPath(path)
  PROVE  ~FiresAutomation(path)
<1> DEFINE o == canonicalizePath(path)
           s == Served(path)
<1>1. Late(o, s)
  BY ServedIsLate
<1>2. o = <<"api">> \/ IsPrefix(<<"api", "states">>, o)
  BY DEF isAllowedReadPath, HA_GET_ALLOW_PREFIXES
<1>3. FiresAutomation(path) <=> IsPrefix(<<"api", "webhook">>, s)
  BY DEF FiresAutomation
<1> HIDE DEF o, s
<1>4. SUFFICES ASSUME IsPrefix(<<"api", "webhook">>, s) PROVE FALSE
  BY <1>3
<1>5. Len(s) >= 2 /\ s[1] = "api" /\ s[2] = "webhook"
  <2>1. s \in Seq(Names) /\ Len(s) \in Nat
    BY <1>1 DEF Late
  <2>2. Len(s) >= 2 /\ SubSeq(<<"api", "webhook">>, 1, 2) = SubSeq(s, 1, 2)
    BY <1>4 DEF IsPrefix
  <2>3. /\ SubSeq(s, 1, 2)[1] = s[1] /\ SubSeq(<<"api", "webhook">>, 1, 2)[1] = "api"
        /\ SubSeq(s, 1, 2)[2] = s[2] /\ SubSeq(<<"api", "webhook">>, 1, 2)[2] = "webhook"
    BY <2>1, <2>2
  <2> QED
    BY <2>2, <2>3
<1>6. Len(o) >= 2 /\ o[2] = "webhook" /\ o \in Seq(Names)
  BY <1>1, <1>5 DEF Late
<1>7. o # <<"api">>
  BY <1>6
<1>8. SubSeq(<<"api", "states">>, 1, 2) = SubSeq(o, 1, 2)
  BY <1>2, <1>7 DEF IsPrefix
<1>9. SubSeq(o, 1, 2)[2] = o[2] /\ SubSeq(<<"api", "states">>, 1, 2)[2] = "states"
  BY <1>6
<1> QED
  BY <1>6, <1>8, <1>9

-----------------------------------------------------------------------------
(* What is done is what was asked.                                            *)

\* A step that changes nothing outside.
LEMMA AskedSame ==
  ASSUME NEW c \in Calls, NEW w \in Watches,
         Asked(c, w), at[c] # "done", at'[c] # "done", touched' = touched,
         answer' = answer, at[c] = "idle" \/ args' = args,
         at'[c] \in w.places => at[c] \in w.places
  PROVE  Asked(c, w)'
<1>1. Quiet(c)' = Quiet(c)
  BY DEF Quiet
<1>2. at[c] = "idle" => Quiet(c)
  BY DEF Asked, Watches
<1> QED
  BY <1>1, <1>2 DEF Asked

\* The steps by kind: it begins.
LEMMA AskedBegin ==
  ASSUME FrameOK, NEW c \in Calls, NEW w \in Watches,
         Asked(c, w), NEW accepted, Begin(c, accepted)
  PROVE  Asked(c, w)'
<1>1. /\ at[c] = "idle" /\ at'[c] = "begin" /\ touched' = touched /\ answer' = answer
  BY BeginStep
<1> QED
  BY <1>1, AskedSame DEF Watches

\* It learns something.
LEMMA AskedLearn ==
  ASSUME FrameOK, NEW c \in Calls, NEW w \in Watches,
         Asked(c, w), NEW here, NEW value, NEW there,
         here # "done", there # "done", there \in w.places => here \in w.places,
         Learn(c, here, value, there)
  PROVE  Asked(c, w)'
<1>1. /\ at[c] = here /\ at'[c] = there /\ touched' = touched /\ answer' = answer
      /\ args' = args
  BY LearnStep
<1> QED
  BY <1>1, AskedSame

\* It waits elsewhere.
LEMMA AskedMove ==
  ASSUME FrameOK, NEW c \in Calls, NEW w \in Watches,
         Asked(c, w), NEW here, NEW there,
         here # "done", there # "done", there \in w.places => here \in w.places,
         Move(c, here, there)
  PROVE  Asked(c, w)'
<1>1. /\ at[c] = here /\ at'[c] = there /\ touched' = touched /\ answer' = answer
      /\ args' = args
  BY MoveStep
<1> QED
  BY <1>1, AskedSame

\* A step of a session.
LEMMA AskedStep ==
  ASSUME FrameOK, NEW c \in Calls, NEW w \in Watches,
         Asked(c, w), NEW here, NEW new, NEW mine, NEW there,
         here # "done", there # "done", there \in w.places => here \in w.places,
         Step(c, here, new, mine, there)
  PROVE  Asked(c, w)'
<1>1. /\ at[c] = here /\ at'[c] = there /\ touched' = touched /\ answer' = answer
      /\ args' = args
  BY SessionStep
<1> QED
  BY <1>1, AskedSame

\* It returns: what says that nothing was done is said in time.
LEMMA AskedReply ==
  ASSUME FrameOK, NEW c \in Calls, NEW w \in Watches,
         Asked(c, w), NEW here, NEW said, here # "idle",
         said \in Declined => here \in w.places \/ Stopped(c), Reply(c, here, said)
  PROVE  Asked(c, w)'
<1>1. /\ at[c] = here /\ at'[c] = "done" /\ answer'[c] = said
      /\ UNCHANGED <<remote, args, touched>>
  BY ReplyStep
<1>2. Quiet(c)' = Quiet(c) /\ Stopped(c)' = Stopped(c)
  BY <1>1 DEF Quiet, Stopped
<1>3. "done" \notin w.places
  BY DEF Before, Watches
<1> QED
  BY <1>1, <1>2, <1>3 DEF Asked

\* It changes something: its tool is one that does, and it is past the steps that
\* only look.
LEMMA AskedEffect ==
  ASSUME FrameOK, NEW c \in Calls, NEW w \in Watches,
         Asked(c, w), NEW here, NEW new, NEW effect, NEW body,
         NEW there, here \notin {"idle", "done"}, there \notin w.places, there # "done",
         "destroyed" \notin effect \/ "destroyed" \notin w.harm, "inside" \notin effect,
         "http" \notin effect, effect = {} \/ args[c].tool \notin w.tools,
         Change(c, here, new, effect, body, there)
  PROVE  Asked(c, w)'
<1>1. /\ at[c] = here /\ at'[c] = there /\ touched'[c] = touched[c] \cup effect
      /\ answer' = answer /\ args' = args
  BY ChangeStep
<1>2. touched'[c] \cap w.harm = {}
  BY <1>1 DEF Asked, Harm, Watches
<1>3. args'[c].tool \in w.tools => Quiet(c)'
  BY <1>1 DEF Asked, Quiet
<1> QED
  BY <1>1, <1>2, <1>3 DEF Asked

\* No harm is done by it.
LEMMA AskedChange ==
  ASSUME FrameOK, NEW c \in Calls, NEW w \in Watches,
         Asked(c, w), NEW here, NEW new, NEW effect, NEW body,
         NEW there, here \notin {"idle", "done"}, there \notin w.places, there # "done",
         "destroyed" \notin effect, "inside" \notin effect, "http" \notin effect,
         effect = {} \/ args[c].tool \notin w.tools,
         Change(c, here, new, effect, body, there)
  PROVE  Asked(c, w)'
BY AskedEffect

\* UniFi.
LEMMA UniFiAsked ==
  ASSUME FrameOK, NEW c \in Calls, NEW w \in Watches,
         Asked(c, w), w.places = Before, UniFiStep(c)
  PROVE  Asked(c, w)'
<1>1. CASE unifiNotReady(c)
  BY <1>1, AskedReply DEF unifiNotReady, Before, Declined
<1>2. CASE setNetworkIpv6(c)
  <2>1. args[c].tool \notin w.tools
    BY <1>2 DEF setNetworkIpv6, Does, ReadTools, Watches
  <2> DEFINE updated == Patched(args[c].set, got[c])
             new == [remote EXCEPT !.net = updated]
  <2> HIDE DEF updated, new
  <2>2. CASE Change(c, "have", new, {"net"}, updated, "put")
    BY <2>1, <2>2, AskedChange DEF Before
  <2> QED
    BY <1>2, <2>2, AskedLearn, AskedReply DEF setNetworkIpv6, updated, new, Before, Declined
<1>3. CASE setGatewayFeature(c) \/ setRemoteLogging(c)
  <2>1. args[c].tool \notin w.tools
    BY <1>3 DEF setGatewayFeature, setRemoteLogging, Does, ReadTools, Watches
  <2> DEFINE updated == Patched(args[c].set, got[c].first)
             new == [remote EXCEPT ![args[c].group] = updated]
  <2> HIDE DEF updated, new
  <2>2. CASE RewriteGroup(c)
    <3>1. CASE Change(c, "fresh", new, {"group"}, updated, "put")
      BY <2>1, <3>1, AskedChange DEF Before
    <3> QED
      BY <2>2, <3>1, AskedLearn, AskedReply DEF RewriteGroup, updated, new, Before, Declined
  <2> QED
    BY <1>3, <2>2, AskedReply DEF setGatewayFeature, setRemoteLogging, Before, Declined
<1>4. CASE createPortForward(c)
  <2>1. args[c].tool \notin w.tools
    BY <1>4 DEF createPortForward, Does, ReadTools, Watches
  <2>2. ASSUME NEW new, Change(c, "have", new, {"rule"}, None, "put")
        PROVE  Asked(c, w)'
    BY <2>1, <2>2, AskedChange DEF Before
  <2> QED
    BY <1>4, <2>2, AskedLearn, AskedReply DEF createPortForward, Before, Declined
<1>5. CASE updatePortForward(c)
  <2>1. args[c].tool \notin w.tools
    BY <1>5 DEF updatePortForward, Does, ReadTools, Watches
  <2> DEFINE updated(r) == Patched(args[c].set, got[c][r])
             new(r) == [remote EXCEPT !.rules[r] = updated(r), !.live = FALSE]
  <2> HIDE DEF updated, new
  <2>2. ASSUME NEW r, Change(c, "have", new(r), {"rule"}, updated(r), "put")
        PROVE  Asked(c, w)'
    BY <2>1, <2>2, AskedChange DEF Before
  <2> QED
    BY <1>5, <2>2, AskedLearn, AskedReply DEF updatePortForward, updated, new, Before, Declined
<1>6. CASE deletePortForward(c)
  <2>1. args[c].tool \notin w.tools
    BY <1>6 DEF deletePortForward, Does, ReadTools, Watches
  <2>2. ASSUME NEW new, Change(c, "have", new, {"rule"}, None, "put")
        PROVE  Asked(c, w)'
    BY <2>1, <2>2, AskedChange DEF Before
  <2> QED
    BY <1>6, <2>2, AskedLearn, AskedReply DEF deletePortForward, Before, Declined
<1>7. CASE forceProvision(c)
  <2>1. ASSUME NEW new, Change(c, "have", new, {}, None, "put") PROVE Asked(c, w)'
    BY <2>1, AskedChange DEF Before
  <2> QED
    BY <1>7, <2>1, AskedLearn, AskedReply DEF forceProvision, Before, Declined
<1>8. CASE unifiReads(c)
  BY <1>8, AskedLearn, AskedReply, AskedChange DEF unifiReads, Before, Declined
<1>9. CASE unifiSnapshot(c)
  BY <1>9, AskedLearn, AskedReply, AskedChange DEF unifiSnapshot, Before, Declined
<1>10. CASE Breaks(c, UniFiTools)
  BY <1>10, AskedReply DEF Breaks, Running, Declined
<1>11. CASE Begin(c, UniFiCalls)
  BY <1>11, AskedBegin
<1> QED
  BY <1>1, <1>2, <1>3, <1>4, <1>5, <1>6, <1>7, <1>8, <1>9, <1>10, <1>11 DEF UniFiStep

\* Portainer.
LEMMA PortainerAsked ==
  ASSUME FrameOK, NEW c \in Calls, NEW w \in Watches,
         Asked(c, w), w.places = Before, PortainerStep(c)
  PROVE  Asked(c, w)'
<1>1. CASE createStack(c)
  <2>1. args[c].tool \notin w.tools
    BY <1>1 DEF createStack, Does, ReadTools, Watches
  <2> DEFINE stack == [name |-> args[c].name, marked |-> TRUE, made |-> TRUE,
                       env |-> mergeEnv(<<>>, args[c].env, args[c].secret)]
             new(s) == [remote EXCEPT !.stacks[s] = stack, !.unused = @ \ {s}]
  <2> HIDE DEF new
  <2>2. ASSUME NEW s, Change(c, "have", new(s), {"stack"}, None, "put")
        PROVE  Asked(c, w)'
    BY <2>1, <2>2, AskedChange DEF Before
  <2> QED
    BY <1>1, <2>2, AskedLearn, AskedReply DEF createStack, new, Before, Declined
<1>2. CASE updateStack(c)
  <2>1. args[c].tool \notin w.tools
    BY <1>2 DEF updateStack, Does, ReadTools, Watches
  <2> DEFINE a == args[c]
             merged == mergeEnv(got[c].env, a.env, a.secret)
             new == [remote EXCEPT !.stacks[a.id].marked = a.marked,
                                   !.stacks[a.id].env = merged]
  <2> HIDE DEF merged, new
  <2>2. CASE Change(c, "have", new, {"stack"}, merged, "put")
    BY <2>1, <2>2, AskedChange DEF Before
  <2> QED
    BY <1>2, <2>2, AskedLearn, AskedReply DEF updateStack, merged, new, Before, Declined
<1>3. CASE removeStack(c)
  <2>1. args[c].tool \notin w.tools
    BY <1>3 DEF removeStack, Does, ReadTools, Watches
  <2> DEFINE new == [remote EXCEPT !.stacks[args[c].id] = None]
  <2> HIDE DEF new
  <2>2. CASE Change(c, "file", new, {"stack"}, None, "put")
    BY <2>1, <2>2, AskedChange DEF Before
  <2> QED
    BY <1>3, <2>2, AskedLearn, AskedReply DEF removeStack, new, Before, Declined
<1>4. CASE containerAction(c)
  <2>1. args[c].tool \notin w.tools
    BY <1>4 DEF containerAction, ReadTools, Watches
  <2> DEFINE new(s) == [remote EXCEPT !.container = s]
  <2> HIDE DEF new
  <2>2. ASSUME NEW s, Change(c, "have", new(s), {"container"}, None, "put")
        PROVE  Asked(c, w)'
    BY <2>1, <2>2, AskedChange DEF Before
  <2> QED
    BY <1>4, <2>2, AskedLearn, AskedReply DEF containerAction, new, Before, Declined
<1>5. CASE exec(c)
  <2>1. args[c].tool \notin w.tools
    BY <1>5 DEF exec, Does, ReadTools, Watches
  <2> DEFINE new == [remote EXCEPT !.ran = TRUE]
  <2> HIDE DEF new
  <2>2. CASE Change(c, "created", new, {"command"}, None, "put")
    BY <2>1, <2>2, AskedChange DEF Before
  <2> QED
    BY <1>5, <2>2, AskedLearn, AskedReply DEF exec, new, Before, Declined
<1>6. CASE portainerReads(c)
  BY <1>6, AskedLearn, AskedReply DEF portainerReads, Before, Declined
<1>7. CASE containerLogs(c)
  BY <1>7, AskedLearn, AskedReply DEF containerLogs, Before, Declined
<1>8. CASE portainerSnapshot(c)
  BY <1>8, AskedLearn, AskedReply DEF portainerSnapshot, Before, Declined
<1>9. CASE Breaks(c, PortainerTools)
  BY <1>9, AskedReply DEF Breaks, Running, Declined
<1>10. CASE Begin(c, PortainerCalls)
  BY <1>10, AskedBegin
<1> QED
  BY <1>1, <1>2, <1>3, <1>4, <1>5, <1>6, <1>7, <1>8, <1>9, <1>10 DEF PortainerStep

\* Proxmox.
LEMMA ProxmoxAsked ==
  ASSUME FrameOK, NEW c \in Calls, NEW w \in Watches,
         Asked(c, w), w.places = Before, ProxmoxStep(c)
  PROVE  Asked(c, w)'
<1>1. CASE proxmoxNotReady(c)
  BY <1>1, AskedReply DEF proxmoxNotReady, Before, Declined
<1>2. CASE guestPower(c)
  <2>1. args[c].tool \notin w.tools
    BY <1>2 DEF guestPower, Does, ReadTools, Watches
  <2> DEFINE new == [remote EXCEPT !.guests[args[c].vmid].state =
                       IF args[c].action = "start" THEN "running" ELSE "stopped"]
  <2> HIDE DEF new
  <2>2. CASE Change(c, "have", new, {"power"}, None, "put")
    BY <2>1, <2>2, AskedChange DEF Before
  <2> QED
    BY <1>2, <2>2, AskedLearn, AskedReply DEF guestPower, new, Before, Declined
<1>3. CASE proxmoxTimesOut(c)
  BY <1>3, AskedReply DEF proxmoxTimesOut, Declined
<1>4. CASE proxmoxReads(c)
  BY <1>4, AskedLearn, AskedReply DEF proxmoxReads, Before, Declined
<1>5. CASE proxmoxSnapshot(c)
  BY <1>5, AskedLearn, AskedReply DEF proxmoxSnapshot, Before, Declined
<1>6. CASE Breaks(c, ProxmoxTools)
  BY <1>6, AskedReply DEF Breaks, Running, Declined
<1>7. CASE Begin(c, GuestCalls) \/ Begin(c, ProxmoxReadCalls)
  BY <1>7, AskedBegin
<1> QED
  BY <1>1, <1>2, <1>3, <1>4, <1>5, <1>6, <1>7 DEF ProxmoxStep

\* Home Assistant: of the reads by path this says nothing.
LEMMA HomeAssistantAsked ==
  ASSUME FrameOK, NEW c \in Calls, NEW w \in Watches,
         Asked(c, w), w.places = Before \ {"have"}, "ha_get" \notin w.tools,
         HomeAssistantStep(c)
  PROVE  Asked(c, w)'
<1>1. CASE getRaw(c)
  <2> DEFINE effect == IF FiresAutomation(args[c].path) THEN {"automation"} ELSE {}
  <2>1. args[c].tool \notin w.tools
    BY <1>1 DEF getRaw, Does
  <2>2. effect \subseteq {"automation"}
    OBVIOUS
  <2> HIDE DEF effect
  <2>3. ASSUME Change(c, "begin", remote, effect, None, "have")
        PROVE  Asked(c, w)'
    BY <2>1, <2>2, <2>3, AskedChange DEF Before
  <2> QED
    BY <1>1, <2>3, AskedReply DEF getRaw, effect, Before, Declined
<1>2. CASE statesOrLogbook(c)
  BY <1>2, AskedLearn, AskedReply DEF statesOrLogbook, Before, Declined
<1>3. CASE callService(c)
  <2>1. args[c].tool \notin w.tools
    BY <1>3 DEF callService, ReadTools, Watches
  <2>2. ASSUME NEW new, Change(c, "begin", new, {"service"}, None, "served")
        PROVE  Asked(c, w)'
    BY <2>1, <2>2, AskedChange DEF Before
  <2> QED
    BY <1>3, <2>2, AskedMove, AskedReply DEF callService, Before, Declined
<1>4. CASE serviceAnswered(c)
  BY <1>4, AskedReply DEF serviceAnswered, Declined
<1>5. CASE homeAssistantTimesOut(c)
  BY <1>5, AskedReply DEF homeAssistantTimesOut, Running, Declined
<1>6. CASE haSnapshot(c)
  BY <1>6, AskedLearn DEF haSnapshot, Before
<1>7. CASE haSnapshotDone(c)
  BY <1>7, AskedReply DEF haSnapshotDone, Declined
<1>8. CASE Breaks(c, HomeAssistantTools)
  BY <1>8, AskedReply DEF Breaks, Running, Declined
<1>9. CASE Begin(c, HomeAssistantCalls)
  BY <1>9, AskedBegin
<1> QED
  BY <1>1, <1>2, <1>3, <1>4, <1>5, <1>6, <1>7, <1>8, <1>9 DEF HomeAssistantStep

\* The path a read is given is one of Paths.
LEMMA HomeAssistantGot ==
  ASSUME FrameOK, NEW c \in Calls, NEW w \in Watches, Asked(c, w), Got(c),
         HomeAssistantStep(c),
         Does(c, "ha_get") /\ InStep(args[c].path) /\ isAllowedReadPath(args[c].path) =>
           ~FiresAutomation(args[c].path)
  PROVE  Got(c)'
<1>0. ASSUME touched' = touched, at[c] = "idle" \/ args' = args PROVE Got(c)'
  <2>1. Quiet(c)' = Quiet(c)
    BY <1>0 DEF Quiet
  <2>2. at[c] = "idle" => Quiet(c)
    BY DEF Asked, Watches
  <2>3. at[c] # "idle" => InStep(args[c].path)' = InStep(args[c].path)
    BY <1>0
  <2> QED
    BY <1>0, <2>1, <2>2, <2>3 DEF Got
<1>1. ASSUME NEW here, NEW said, Reply(c, here, said) PROVE Got(c)'
  BY <1>0, <1>1, ReplyStep
<1>2. ASSUME NEW here, NEW value, NEW there, Learn(c, here, value, there) PROVE Got(c)'
  BY <1>0, <1>2, LearnStep
<1>3. ASSUME NEW here, NEW there, Move(c, here, there) PROVE Got(c)'
  BY <1>0, <1>3, MoveStep
<1>4. CASE getRaw(c)
  <2> DEFINE effect == IF FiresAutomation(args[c].path) THEN {"automation"} ELSE {}
  <2>1. InStep(args[c].path) /\ isAllowedReadPath(args[c].path) => effect = {}
    BY <1>4 DEF getRaw
  <2> HIDE DEF effect
  <2>2. ASSUME isAllowedReadPath(args[c].path),
               Change(c, "begin", remote, effect, None, "have")
        PROVE  Got(c)'
    <3>1. /\ at[c] = "begin" /\ touched'[c] = touched[c] \cup effect /\ args' = args
      BY <2>2, ChangeStep
    <3>2. InStep(args[c].path) => touched'[c] = touched[c]
      BY <2>1, <2>2, <3>1
    <3>3. InStep(args[c].path)' = InStep(args[c].path)
      BY <3>1
    <3> QED
      BY <3>1, <3>2, <3>3 DEF Got, Quiet
  <2> QED
    BY <1>1, <1>4, <2>2 DEF getRaw, effect
<1>5. CASE callService(c)
  <2>1. args[c].tool # "ha_get"
    BY <1>5 DEF callService
  <2>2. ASSUME NEW here, NEW new, NEW effect, NEW body, NEW there,
               Change(c, here, new, effect, body, there)
        PROVE  Got(c)'
    <3>1. args' = args
      BY <2>2, ChangeStep
    <3> QED
      BY <2>1, <3>1 DEF Got
  <2> QED
    BY <1>1, <1>3, <1>5, <2>2 DEF callService
<1>6. CASE statesOrLogbook(c) \/ haSnapshot(c)
  BY <1>1, <1>2, <1>6 DEF statesOrLogbook, haSnapshot
<1>7. CASE \/ serviceAnswered(c) \/ homeAssistantTimesOut(c) \/ haSnapshotDone(c)
           \/ Breaks(c, HomeAssistantTools)
  BY <1>1, <1>7 DEF serviceAnswered, homeAssistantTimesOut, haSnapshotDone, Breaks
<1>8. CASE Begin(c, HomeAssistantCalls)
  BY <1>0, <1>8, BeginStep
<1> QED
  BY <1>4, <1>5, <1>6, <1>7, <1>8 DEF HomeAssistantStep

\* Uptime Kuma: no step of it has an effect that counts.
LEMMA UptimeKumaAsked ==
  ASSUME FrameOK, NEW c \in Calls, NEW w \in Watches,
         Asked(c, w), w.places = Before, UptimeKumaStep(c)
  PROVE  Asked(c, w)'
<1>0. ASSUME NEW new, NEW mine, Step(c, "resuming", new, mine, "resuming")
      PROVE  Asked(c, w)'
  BY <1>0, AskedStep
<1>1. CASE pauseMonitor(c)
  BY <1>1, AskedLearn, AskedReply, AskedStep
     DEF pauseMonitor, openSession, pause, SetMonitor, Before, Declined
<1>2. CASE resumeMonitor(c)
  BY <1>2, AskedLearn, AskedReply, AskedStep
     DEF resumeMonitor, openSession, resume, SetMonitor, Before, Declined
<1>3. CASE maintenance(c)
  BY <1>3, AskedLearn, AskedReply, AskedStep
     DEF maintenance, openSession, pause, resume, add, SetMonitor, Before, Declined
<1>4. CASE endMaintenance(c)
  <2>1. ASSUME resume(c, "resuming", "resuming") PROVE Asked(c, w)'
    BY <1>0, <2>1 DEF resume
  <2>2. ASSUME NEW new, NEW mine, Step(c, "resuming", new, mine, "closed")
        PROVE  Asked(c, w)'
    BY <2>2, AskedStep DEF Before
  <2>3. ASSUME NEW value, Learn(c, "begin", value, "open") \/ Learn(c, "open", value, "resuming")
        PROVE  Asked(c, w)'
    BY <2>3, AskedLearn DEF Before
  <2>4. ASSUME NEW here \in {"resuming", "closed"}, NEW said \in {"ok", "error", "partial"},
               Reply(c, here, said)
        PROVE  Asked(c, w)'
    BY <2>4, AskedReply DEF Declined
  <2>5. ASSUME NEW said, Reply(c, "begin", said) PROVE Asked(c, w)'
    BY <2>5, AskedReply DEF Before
  <2> QED
    BY <1>4, <2>1, <2>2, <2>3, <2>4, <2>5 DEF endMaintenance, openSession, resumeExactly
<1>5. CASE kumaReads(c)
  BY <1>5, AskedLearn, AskedReply DEF kumaReads, Before, Declined
<1>6. CASE whiteGlovePause(c)
  BY <1>6, AskedLearn, AskedReply, AskedStep
     DEF whiteGlovePause, openSession, pause, resume, SetMonitor, Before, Declined
<1>7. CASE powerAction(c)
  BY <1>7, AskedStep DEF powerAction, Before
<1>8. CASE waitForPowerState(c)
  BY <1>8, AskedLearn, AskedMove DEF waitForPowerState, Before
<1>9. CASE safeResume(c)
  <2>1. ASSUME resume(c, "resuming", "resuming") PROVE Asked(c, w)'
    BY <1>0, <2>1 DEF resume
  <2>2. ASSUME NEW value, Learn(c, "acted", value, "resuming") PROVE Asked(c, w)'
    BY <2>2, AskedLearn DEF Before
  <2>3. ASSUME NEW said \in {"ok", "error", "partial"}, Reply(c, "resuming", said)
        PROVE  Asked(c, w)'
    BY <2>3, AskedReply DEF Declined
  <2> QED
    BY <1>9, <2>1, <2>2, <2>3 DEF safeResume, resumeExactly
<1>10. CASE SessionFails(c)
  BY <1>10, AskedReply DEF SessionFails, Declined
<1>11. CASE Begin(c, UptimeKumaCalls)
  BY <1>11, AskedBegin
<1> QED
  BY <1>1, <1>2, <1>3, <1>4, <1>5, <1>6, <1>7, <1>8, <1>9, <1>10, <1>11 DEF UptimeKumaStep

\* SSH: what is sent to read only reads, and no command that is sent destroys, as far
\* as the policy sees its options and programs.
LEMMA SshAsked ==
  ASSUME FrameOK, NEW c \in Calls, NEW w \in Watches,
         Asked(c, w), w.places = Before, SshStep(c),
         EscapedOption(remote.line) => "run_readonly" \notin w.tools,
         EscapedProgram(remote.line) => "destroyed" \notin w.harm,
         checkReadonly(remote.line) /\ ~EscapedOption(remote.line) =>
           OnlyReads(remote.line)
  PROVE  Asked(c, w)'
<1> DEFINE line == LineOf(args[c].tool)
           effect == IF OnlyReads(line) THEN {}
                     ELSE {IF Destroys(line) THEN "destroyed" ELSE "wrote"}
           new == [remote EXCEPT !.ran = @ \cup {wrapCommand(line, remote.sudo)}]
<1>1. ASSUME NEW tool, policyFor(tool), Destroys(LineOf(tool))
      PROVE  "destroyed" \notin w.harm
  <2>1. Mentions(LineOf(tool), "wipe") \/ Mentions(LineOf(tool), "wi\\pe")
    BY <1>1 DEF Destroys, Starts, Mentions
  <2>2. LineOf(tool) \in {remote.line, <<"edit">>, <<"look">>}
    BY DEF LineOf
  <2>3. \A p \in {"wipe", "wi\\pe"} : ~Mentions(<<"edit">>, p) /\ ~Mentions(<<"look">>, p)
    BY DEF Mentions
  <2>4. LineOf(tool) = remote.line
    BY <2>1, <2>2, <2>3
  <2>5. CASE tool \in {"run_readonly", "run_command", "ssh_snapshot"}
    <3>1. ~Mentions(remote.line, "wipe")
      BY <1>1, <2>5 DEF policyFor, checkReadonly, checkCommand
    <3> QED
      BY <2>1, <2>4, <3>1 DEF EscapedProgram
  <2>6. CASE tool \notin {"run_readonly", "run_command", "ssh_snapshot"}
    BY <2>1, <2>3, <2>6 DEF LineOf
  <2> QED
    BY <2>5, <2>6
<1>2. OnlyReads(<<"look">>)
  <2>1. \A i \in DOMAIN <<"look">> : <<"look">>[i] = "look"
    OBVIOUS
  <2> QED
    BY <2>1 DEF OnlyReads, Starts, Bare
<1>3. \A tool \in w.tools : policyFor(tool) => OnlyReads(LineOf(tool))
  <2>1. ASSUME NEW tool \in w.tools, policyFor(tool) PROVE OnlyReads(LineOf(tool))
    <3>1. tool \in ReadTools
      BY DEF Watches
    <3>2. CASE tool = "run_readonly"
      BY <2>1, <3>2 DEF policyFor, LineOf
    <3>3. CASE tool # "run_readonly"
      BY <1>2, <3>1, <3>3 DEF ReadTools, LineOf
    <3> QED
      BY <3>2, <3>3
  <2> QED
    BY <2>1
<1>4. policyFor(args[c].tool) => "destroyed" \notin effect \/ "destroyed" \notin w.harm
  BY <1>1
<1>5. policyFor(args[c].tool) => effect = {} \/ args[c].tool \notin w.tools
  BY <1>3
<1>6. effect \subseteq {"destroyed", "wrote"}
  OBVIOUS
<1>7. runSsh(c, "begin", "sent") => Change(c, "begin", new, effect, None, "sent")
  BY DEF runSsh
<1> HIDE DEF line, effect, new
<1>8. ASSUME policyFor(args[c].tool), runSsh(c, "begin", "sent")
      PROVE  Asked(c, w)'
  <2>1. /\ "destroyed" \notin effect \/ "destroyed" \notin w.harm
        /\ "inside" \notin effect /\ "http" \notin effect
    BY <1>4, <1>6, <1>8
  <2> QED
    BY <1>5, <1>7, <1>8, <2>1, AskedEffect DEF Before
<1>9. CASE execSsh(c)
  BY <1>8, <1>9, AskedReply DEF execSsh, Before, Declined
<1>10. CASE sshSnapshot(c)
  BY <1>8, <1>10, AskedLearn, AskedReply DEF sshSnapshot, Does, Before, Declined
<1>11. CASE Breaks(c, SshTools)
  BY <1>11, AskedReply DEF Breaks, Running, Declined
<1>12. CASE Begin(c, SshCalls)
  BY <1>12, AskedBegin
<1> QED
  BY <1>9, <1>10, <1>11, <1>12 DEF SshStep

\* A look at a public address.
LEMMA AskedLook ==
  ASSUME FrameOK, NEW c \in Calls, NEW w \in Watches,
         Asked(c, w), NEW here, NEW new, NEW body, NEW there,
         here \in w.places \ {"idle"}, there # "done",
         Change(c, here, new, {"public"}, body, there)
  PROVE  Asked(c, w)'
<1>1. /\ at[c] = here /\ at'[c] = there /\ touched'[c] = touched[c] \cup {"public"}
      /\ answer' = answer /\ args' = args
  BY ChangeStep
<1>2. Quiet(c)
  BY <1>1 DEF Asked
<1>3. Quiet(c)' /\ touched'[c] \cap w.harm = {}
  BY <1>1, <1>2 DEF Quiet, Harm, Watches
<1> QED
  BY <1>1, <1>3 DEF Asked, Before, Watches

\* A step that leaves the answer and adds an effect of its own.
LEMMA AskedOwn ==
  ASSUME FrameOK, NEW c \in Calls, NEW w \in Watches,
         Asked(c, w), NEW x, x \notin Harm,
         args[c].tool \notin w.tools, touched' = Now(touched, c, touched[c] \cup {x}),
         at[c] # "done", at'[c] \notin w.places \cup {"done"}, UNCHANGED <<args, answer>>
  PROVE  Asked(c, w)'
<1>1. touched'[c] = touched[c] \cup {x}
  BY NowEntry DEF FrameOK
<1>2. touched'[c] \cap w.harm = {}
  BY <1>1 DEF Asked, Watches
<1> QED
  BY <1>2 DEF Asked

\* The panel.
LEMMA PelicanPanelAsked ==
  ASSUME FrameOK, NEW c \in Calls, NEW w \in Watches,
         Asked(c, w), w.places = Before, PelicanPanelStep(c)
  PROVE  Asked(c, w)'
<1>1. CASE panelNotReady(c)
  BY <1>1, AskedReply DEF panelNotReady, Before, Declined
<1>2. CASE updateServerBuild(c)
  <2>1. args[c].tool \notin w.tools
    BY <1>2 DEF updateServerBuild, Ready, Does, ReadTools, Watches
  <2> DEFINE whole == Patched(args[c].set, got[c])
             new == [remote EXCEPT !.build = whole]
  <2> HIDE DEF whole, new
  <2>2. CASE Change(c, "have", new, {"build"}, whole, "put")
    BY <2>1, <2>2, AskedChange DEF Before
  <2> QED
    BY <1>2, <2>2, AskedLearn, AskedReply DEF updateServerBuild, whole, new, Before, Declined
<1>3. CASE updateServerStartup(c)
  <2>1. args[c].tool \notin w.tools
    BY <1>3 DEF updateServerStartup, Ready, Does, ReadTools, Watches
  <2> DEFINE environment == Merged(got[c], args[c].set)
             new == [remote EXCEPT !.env = PanelStores(environment)]
  <2> HIDE DEF environment, new
  <2>2. CASE Change(c, "variables", new, {"env"}, environment, "put")
    BY <2>1, <2>2, AskedChange DEF Before
  <2> QED
    BY <1>3, <2>2, AskedLearn, AskedMove, AskedReply
       DEF updateServerStartup, environment, new, Before, Declined
<1>4. CASE updateStartupVariables(c)
  <2>1. args[c].tool \notin w.tools
    BY <1>4 DEF updateStartupVariables, Ready, Does, ReadTools, Watches
  <2>2. ASSUME NEW v \in DOMAIN EggDefaults, at[c] = "next",
               touched' = Now(touched, c, touched[c] \cup {v}),
               UNCHANGED <<args, at, answer>>
        PROVE  Asked(c, w)'
    <3>1. v \notin Harm
      BY PanelAssumption DEF Harm
    <3> QED
      BY <2>1, <2>2, <3>1, AskedOwn DEF Before
  <2> QED
    BY <1>4, <2>2, AskedLearn, AskedReply DEF updateStartupVariables, Before, Declined
<1>5. CASE createSchedule(c)
  <2>1. args[c].tool \notin w.tools
    BY <1>5 DEF createSchedule, Ready, Does, ReadTools, Watches
  <2>2. ASSUME at[c] = "begin", at' = Now(at, c, "made"),
               touched' = Now(touched, c, touched[c] \cup {"schedule"}),
               UNCHANGED <<args, answer>>
        PROVE  Asked(c, w)'
    <3>1. at'[c] = "made"
      BY <2>2, NowEntry DEF FrameOK
    <3> QED
      BY <2>1, <2>2, <3>1, AskedOwn DEF Before, Harm
  <2> DEFINE new == [remote EXCEPT !.schedules[got[c]].tasks = 1]
  <2> HIDE DEF new
  <2>3. CASE Change(c, "made", new, {"task"}, None, "put")
    BY <2>1, <2>3, AskedChange DEF Before
  <2> QED
    BY <1>5, <2>2, <2>3, AskedReply DEF createSchedule, new, Before, Declined
<1>6. CASE updateSchedule(c)
  <2>1. args[c].tool \notin w.tools
    BY <1>6 DEF updateSchedule, Ready, Does, ReadTools, Watches
  <2> DEFINE i == args[c].id
             whole == Patched(args[c].set, got[c])
             new == [remote EXCEPT !.schedules[i] =
                       [whole EXCEPT !.tasks = remote.schedules[i].tasks]]
  <2> HIDE DEF whole, new
  <2>2. CASE Change(c, "have", new, {"schedule"}, whole, "put")
    BY <2>1, <2>2, AskedChange DEF Before
  <2> QED
    BY <1>6, <2>2, AskedLearn, AskedReply DEF updateSchedule, whole, new, Before, Declined
<1>7. CASE deleteSchedule(c)
  <2>1. args[c].tool \notin w.tools
    BY <1>7 DEF deleteSchedule, Ready, Does, ReadTools, Watches
  <2> DEFINE new == [remote EXCEPT !.schedules[args[c].id] = None]
  <2> HIDE DEF new
  <2>2. CASE Change(c, "have", new, {"schedule"}, None, "put")
    BY <2>1, <2>2, AskedChange DEF Before
  <2> QED
    BY <1>7, <2>2, AskedLearn, AskedReply DEF deleteSchedule, new, Before, Declined
<1>8. CASE createAllocations(c)
  <2>1. args[c].tool \notin w.tools
    BY <1>8 DEF createAllocations, Ready, Does, ReadTools, Watches
  <2> DEFINE ports == expandPorts(args[c].ports)
             new == [remote EXCEPT !.alloc = Patched([p \in ports |-> "free"], @)]
  <2> HIDE DEF ports, new
  <2>2. CASE Change(c, "have", new, {"allocations"}, None, "put")
    BY <2>1, <2>2, AskedChange DEF Before
  <2> QED
    BY <1>8, <2>2, AskedLearn, AskedReply DEF createAllocations, ports, new, Before, Declined
<1>9. CASE assignAllocation(c)
  <2>1. args[c].tool \notin w.tools
    BY <1>9 DEF assignAllocation, Ready, Does, ReadTools, Watches
  <2> DEFINE new(p) == [remote EXCEPT !.alloc[p] = "used"]
  <2> HIDE DEF new
  <2>2. ASSUME NEW p, Change(c, "begin", new(p), {"allocations"}, None, "put")
        PROVE  Asked(c, w)'
    BY <2>1, <2>2, AskedChange DEF Before
  <2> QED
    BY <1>9, <2>2, AskedReply DEF assignAllocation, new, Before, Declined
<1>10. CASE createServer(c)
  <2>1. args[c].tool \notin w.tools
    BY <1>10 DEF createServer, Ready, Does, ReadTools, Watches
  <2> DEFINE s == args[c].server
             environment == buildEnvironment(s.set)
             ports == {s.default} \cup s.extras
             new == [remote EXCEPT !.alloc = Patched([p \in ports |-> "used"], @),
                                   !.env = PanelStores(environment)]
  <2> HIDE DEF environment, new
  <2>2. CASE Change(c, "extras", new, {"server"}, environment, "put")
    BY <2>1, <2>2, AskedChange DEF Before
  <2> QED
    BY <1>10, <2>2, AskedLearn, AskedReply DEF createServer, environment, new, Before, Declined
<1>11. CASE importEgg(c)
  <2>1. args[c].tool \notin w.tools
    BY <1>11 DEF importEgg, Ready, Does, ReadTools, Watches
  <2> DEFINE hop == args[c].egg.hops[got[c]]
             new == [remote EXCEPT !.eggs = @ \cup {args[c].egg.uuid}]
             done == IF args[c].egg.uuid \in remote.eggs THEN "overwrote" ELSE "imported"
  <2>2. ASSUME assertEggSourceUrl(hop), Change(c, "fetch", remote, {hop}, None, "answered")
        PROVE  Asked(c, w)'
    BY <2>2, AskedLook DEF assertEggSourceUrl, Before
  <2>3. done \in {"overwrote", "imported"}
    OBVIOUS
  <2> HIDE DEF hop, new, done
  <2>4. CASE Change(c, "have", new, {done}, None, "put")
    BY <2>1, <2>3, <2>4, AskedChange DEF Before
  <2> QED
    BY <1>11, <2>2, <2>4, AskedLearn, AskedMove, AskedReply
       DEF importEgg, hop, new, done, Before, Declined
<1>12. CASE fileOperation(c)
  <2>1. args[c].tool \notin w.tools
    BY <1>12 DEF fileOperation, FileOps, ReadTools, Watches
  <2>2. CASE Change(c, "begin", remote, {"files"}, None, "put")
    BY <2>1, <2>2, AskedChange DEF Before
  <2> QED
    BY <1>12, <2>2, AskedReply DEF fileOperation, Before, Declined
<1>13. CASE pullFile(c)
  <2>1. args[c].tool \notin w.tools
    BY <1>13 DEF pullFile, Ready, Does, ReadTools, Watches
  <2>2. ASSUME at[c] = "begin", at' = Now(at, c, "poll"),
               touched' = Now(touched, c, touched[c] \cup {"files"}),
               UNCHANGED <<args, answer>>
        PROVE  Asked(c, w)'
    <3>1. at'[c] = "poll"
      BY <2>2, NowEntry DEF FrameOK
    <3> QED
      BY <2>1, <2>2, <3>1, AskedOwn DEF Before, Harm
  <2> QED
    BY <1>13, <2>2, AskedReply DEF pullFile, Before, Declined
<1>14. CASE waitForFile(c)
  BY <1>14, AskedLearn, AskedReply DEF waitForFile, Before, Declined
<1>15. CASE readFile(c)
  BY <1>15, AskedLearn, AskedReply DEF readFile, Before, Declined
<1>16. CASE list(c)
  BY <1>16, AskedLearn, AskedReply DEF list, Before, Declined
<1>17. CASE pelicanSnapshot(c)
  BY <1>17, AskedLearn, AskedReply DEF pelicanSnapshot, Before, Declined
<1>18. CASE Breaks(c, PanelTools)
  BY <1>18, AskedReply DEF Breaks, Running, Declined
<1>19. CASE Begin(c, PanelCalls)
  BY <1>19, AskedBegin
<1> QED
  BY <1>1, <1>2, <1>3, <1>4, <1>5, <1>6, <1>7, <1>8, <1>9, <1>10, <1>11, <1>12, <1>13, <1>14,
     <1>15, <1>16, <1>17, <1>18, <1>19
     DEF PelicanPanelStep

\* The panel's host.
LEMMA PelicanHostAsked ==
  ASSUME FrameOK, RunsOK, remote.system = "host", NEW c \in Calls, NEW w \in Watches,
         Asked(c, w), w.places = Before, Blank(c),
         PelicanHostStep(c)
  PROVE  Asked(c, w)' /\ Blank(c)'
<1> DEFINE Goal == Asked(c, w)' /\ Blank(c)'
<1> SUFFICES Goal
  OBVIOUS
<1>1. ASSUME UNCHANGED remote PROVE Blank(c)'
  BY <1>1 DEF Blank
<1>2. ASSUME NEW job \in {"panel-upgrade", "php-prepare", "wings-update"}, NEW why,
             args[c].tool \notin w.tools, helperCommand(c, "ready", job, why)
      PROVE  Goal
  <2> DEFINE new == [remote EXCEPT !.run[c] = [job |-> job, n |-> 0, state |-> "runs"]]
  <2>1. new.run[c].state # "refused"
    BY DEF RunsOK
  <2>2. Change(c, "ready", new, {job}, why, "helper")
    BY <1>2 DEF helperCommand
  <2> HIDE DEF new
  <2>3. Asked(c, w)'
    BY <1>2, <2>2, AskedChange DEF Before
  <2>4. remote' = new
    BY <2>2, ChangeStep
  <2> QED
    BY <2>1, <2>3, <2>4 DEF Blank
<1>3. ASSUME NEW here, NEW said, here # "idle", Reply(c, here, said),
             said \in Declined => here \in w.places \/ Stopped(c)
      PROVE  Goal
  BY <1>1, <1>3, ReplyStep, AskedReply
<1>4. ASSUME NEW here, NEW value, NEW there, here # "done", there # "done",
             there \in w.places => here \in w.places, Learn(c, here, value, there)
      PROVE  Goal
  BY <1>1, <1>4, LearnStep, AskedLearn
<1>5. ASSUME NEW here, NEW there, here # "done", there # "done",
             there \in w.places => here \in w.places, Move(c, here, there)
      PROVE  Goal
  BY <1>1, <1>5, MoveStep, AskedMove
<1> HIDE DEF Goal
<1>6. CASE panelUpgrade(c)
  <2>1. args[c].tool \notin w.tools
    BY <1>6 DEF panelUpgrade, Does, ReadTools, Watches
  <2>2. parseUpgradeResult(remote.run[c]) \in Declined => Stopped(c)
    BY DEF parseUpgradeResult, Declined, Stopped, Blank
  <2>3. CASE at[c] = "helper" /\ Reply(c, "helper", parseUpgradeResult(remote.run[c]))
    BY <1>3, <2>2, <2>3
  <2> QED
    BY <1>2, <1>3, <1>4, <1>5, <1>6, <2>1, <2>3 DEF panelUpgrade, Before
<1>7. CASE panelPrepareRuntime(c)
  <2>1. args[c].tool \notin w.tools
    BY <1>7 DEF panelPrepareRuntime, Does, ReadTools, Watches
  <2> QED
    BY <1>2, <1>3, <1>4, <1>5, <1>7, <2>1 DEF panelPrepareRuntime, Before
<1>8. CASE panelPatchRuntime(c)
  <2>1. args[c].tool \notin w.tools
    BY <1>8 DEF panelPatchRuntime, Does, ReadTools, Watches
  <2> QED
    BY <1>2, <1>3, <1>4, <1>8, <2>1 DEF panelPatchRuntime, Before
<1>9. CASE wingsUpdate(c)
  <2>1. args[c].tool \notin w.tools
    BY <1>9 DEF wingsUpdate, Does, ReadTools, Watches
  <2> QED
    BY <1>2, <1>3, <1>5, <1>9, <2>1 DEF wingsUpdate, Before
<1>10. CASE panelHost(c) \/ helperAnswers(c) \/ Breaks(c, HostTools)
  BY <1>3, <1>10 DEF panelHost, helperAnswers, Breaks, Running, Before, Declined
<1>11. CASE panelVersion(c)
  BY <1>3, <1>4, <1>11 DEF panelVersion, Before, Declined
<1>12. CASE Begin(c, HostCalls)
  BY <1>1, <1>12, BeginStep, AskedBegin DEF Goal
<1> QED
  BY <1>6, <1>7, <1>8, <1>9, <1>10, <1>11, <1>12 DEF PelicanHostStep

\* A turn of the helper takes up no call that it has stopped.
LEMMA HelperStops ==
  ASSUME HostKnown, remote'.system = remote.system, NEW c \in Calls, helperRuns(c),
         NEW d \in Calls, Blank(d)
  PROVE  Blank(d)' /\ (Stopped(d) => Stopped(d)')
<1> DEFINE Goal == Blank(d)' /\ (Stopped(d) => Stopped(d)')
           old == remote.run[c]
<1> SUFFICES Goal
  OBVIOUS
<1>1. /\ "run" \in DOMAIN remote /\ DOMAIN remote.run = Calls
      /\ {"job", "n", "state"} \subseteq DOMAIN old
  BY DEF HostKnown, HostTypeOK, Job
<1>2. old.state = "runs"
  BY DEF helperRuns, cmdPanelUpgrade, cmdPhpPrepare, cmdWingsUpdate
<1>3. ASSUME NEW new, NEW run, helperTurns(c, new, run), "run" \in DOMAIN new,
             new.run = remote.run, run.state = "refused" => run.n = 0
      PROVE  Goal
  <2>1. remote'.run[c] = run /\ \A x \in Calls \ {c} : remote'.run[x] = remote.run[x]
    BY <1>1, <1>3 DEF helperTurns
  <2> QED
    BY <1>2, <1>3, <2>1 DEF Blank, Stopped
<1>4. /\ \A s \in {"failed", "done", "runs"} : [old EXCEPT !.state = s].state # "refused"
      /\ \A s \in {"done", "runs"} : [old EXCEPT !.n = @ + 1, !.state = s].state # "refused"
      /\ \A w : Patched([switched |-> w], [old EXCEPT !.n = @ + 1]).state # "refused"
      /\ [old EXCEPT !.n = @ + 1].state # "refused"
      /\ [[old EXCEPT !.n = @ + 1] EXCEPT !.state = "done"].state # "refused"
      /\ [old EXCEPT !.state = "refused"].n = old.n
  BY <1>1, <1>2 DEF Patched
<1>5. CASE cmdPanelUpgrade(c)
  <2> DEFINE more == [old EXCEPT !.n = @ + 1,
                        !.state = IF old.n + 1 = Len(PANEL_UPGRADE_STEP_NAMES) THEN "done"
                                  ELSE "runs"]
  <2>1. more.state # "refused"
    BY <1>4
  <2>2. "run" \in DOMAIN step(old.n + 1) /\ step(old.n + 1).run = remote.run
    BY <1>1 DEF step
  <2> HIDE DEF Goal, more
  <2>3. CASE helperTurns(c, step(old.n + 1), more)
    BY <1>3, <2>1, <2>2, <2>3
  <2>4. CASE helperTurns(c, remote, [old EXCEPT !.state = "failed"])
    BY <1>1, <1>3, <1>4, <2>4
  <2>5. CASE old.n = 0 /\ helperTurns(c, remote, [old EXCEPT !.state = "refused"])
    BY <1>1, <1>3, <1>4, <2>5
  <2> QED
    BY <1>5, <2>3, <2>4, <2>5 DEF cmdPanelUpgrade, more
<1>6. CASE cmdPhpPrepare(c)
  <2> HIDE DEF Goal
  <2>1. ASSUME NEW new, NEW run, run.state # "refused", "run" \in DOMAIN new,
               new.run = remote.run, helperTurns(c, new, run)
        PROVE  Goal
    BY <1>3, <2>1
  <2> DEFINE minor == args[c].minor
             next == [old EXCEPT !.n = @ + 1]
             patched == Patched([switched |-> remote.socket # minor], next)
  <2>2. /\ "run" \in DOMAIN remote
        /\ "run" \in DOMAIN SocketRestored /\ SocketRestored.run = remote.run
        /\ "run" \in DOMAIN SocketSwitched(minor) /\ SocketSwitched(minor).run = remote.run
    BY <1>1 DEF SocketRestored, SocketSwitched
  <2> DEFINE set == [remote EXCEPT !.php = <<8, minor, 2>>]
             done == [next EXCEPT !.state = "done"]
             failed == [old EXCEPT !.state = "failed"]
  <2>3. "run" \in DOMAIN set /\ set.run = remote.run
    BY <1>1
  <2>4. /\ patched.state # "refused" /\ next.state # "refused" /\ done.state # "refused"
        /\ failed.state # "refused"
    BY <1>4
  <2> HIDE DEF minor, next, patched, set, done, failed
  <2>5. \/ helperTurns(c, remote, next) \/ helperTurns(c, remote, failed)
        \/ helperTurns(c, set, next) \/ helperTurns(c, SocketSwitched(minor), patched)
        \/ helperTurns(c, IF old.switched THEN SocketRestored ELSE remote, failed)
        \/ helperTurns(c, remote, done)
    BY <1>6 DEF cmdPhpPrepare, minor, next, patched, set, done, failed
  <2> QED
    BY <2>1, <2>2, <2>3, <2>4, <2>5
<1>7. CASE cmdWingsUpdate(c)
  <2>1. ASSUME NEW x, NEW y, NEW run, run.state # "refused",
               NEW new \in {remote, [remote EXCEPT !.wings = x, !.prev = y]},
               helperTurns(c, new, run)
        PROVE  Goal
    <3>1. "run" \in DOMAIN new /\ new.run = remote.run
      BY <1>1, <2>1
    <3> QED
      BY <1>3, <2>1, <3>1
  <2> HIDE DEF Goal
  <2> QED
    BY <1>4, <1>7, <2>1 DEF cmdWingsUpdate
<1> QED
  BY <1>5, <1>6, <1>7 DEF helperRuns

\* So no path a caller may pass does that is read in step.
LEMMA ListedPathIsSafe ==
  ASSUME NEW path \in Paths, InStep(path), isAllowedReadPath(path)
  PROVE  ~FiresAutomation(path)
<1>1. path \in Seq(Segments)
  BY HomeAssistantAssumption DEF Segments
<1> QED
  BY <1>1, AllowedPathFiresNothing

\* The line of the target stays.
LEMMA LineStays ==
  ASSUME FrameOK, "line" \in DOMAIN remote, NEW c \in Calls, SshStep(c)
  PROVE  remote'.line = remote.line
<1>1. ASSUME NEW ran, NEW effect, NEW body, NEW there,
             Change(c, "begin", [remote EXCEPT !.ran = ran], effect, body, there)
      PROVE  remote'.line = remote.line
  BY <1>1 DEF Change
<1>2. ASSUME NEW there, runSsh(c, "begin", there) PROVE remote'.line = remote.line
  BY <1>1, <1>2 DEF runSsh
<1>3. CASE execSsh(c)
  BY <1>2, <1>3 DEF execSsh, Reply
<1>4. CASE sshSnapshot(c)
  BY <1>2, <1>4 DEF sshSnapshot, Reply, Learn
<1>5. CASE Breaks(c, SshTools)
  BY <1>5 DEF Breaks, Reply
<1>6. CASE Begin(c, SshCalls)
  BY <1>6 DEF Begin
<1> QED
  BY <1>3, <1>4, <1>5, <1>6 DEF SshStep

\* There is a watch that fits.
LEMMA WatchExists == \E w \in Watches : Fitting(w)
<1> DEFINE harm == IF Disguised THEN Harm \ {"destroyed"} ELSE Harm
           tools == IF remote.system = "home-assistant" THEN ReadTools \ {"ha_get"}
                    ELSE IF remote.system = "ssh" /\ EscapedOption(remote.line)
                    THEN ReadTools \ {"run_readonly"} ELSE ReadTools
           places == IF remote.system = "home-assistant" THEN Before \ {"have"} ELSE Before
           w == [harm |-> harm, tools |-> tools, places |-> places]
<1>1. harm \in SUBSET Harm /\ tools \in SUBSET ReadTools /\ places \in SUBSET Before
  BY Zenon
<1>2. "idle" \in places
  BY DEF Before
<1>3. w.harm = harm /\ w.tools = tools /\ w.places = places
  OBVIOUS
<1>4. Fitting(w)
  <2> HIDE DEF w
  <2> QED
    BY <1>3 DEF Fitting
<1> HIDE DEF harm, tools, places
<1>5. w \in Watches
  BY <1>1, <1>2 DEF Watches
<1> QED
  BY <1>4, <1>5

\* And it goes on fitting, for the target and its line stay.
LEMMA FittingStays ==
  ASSUME NEW w, Fitting(w), remote'.system = remote.system,
         remote.system = "ssh" => remote'.line = remote.line
  PROVE  Fitting(w)'
<1>1. Disguised' <=> Disguised
  <2>1. CASE remote.system = "ssh"
    BY <2>1 DEF Disguised
  <2>2. CASE remote.system # "ssh"
    BY <2>2 DEF Disguised
  <2> QED
    BY <2>1, <2>2
<1>2. CASE remote.system = "ssh"
  BY <1>1, <1>2 DEF Fitting
<1>3. CASE remote.system # "ssh"
  BY <1>1, <1>3 DEF Fitting
<1> QED
  BY <1>2, <1>3

\* At first nothing has been done.
LEMMA UnaskedStart == ConnectorsInit => UnaskedInv
<1> SUFFICES ASSUME ConnectorsInit PROVE UnaskedInv
  OBVIOUS
<1>0. ASSUME NEW c \in Calls PROVE Got(c) /\ \A w : Asked(c, w)
  BY DEF ConnectorsInit, CallInit, Asked, Quiet, Got
<1>1. /\ \E w \in Watches : Fitting(w) /\ \A c \in Calls : Asked(c, w)
      /\ \A c \in Calls : Got(c)
  BY <1>0, WatchExists
<1>2. CASE PelicanHostInit
  <2>1. /\ remote \in InitialHosts /\ remote.system = "host"
        /\ remote.run = [c \in Calls |-> Idle]
    BY <1>2, HostAssumption DEF PelicanHostInit
  <2>2. \A c \in Calls : remote.run[c].state = "idle"
    BY <2>1 DEF Idle
  <2> QED
    BY <1>1, <2>1, <2>2 DEF UnaskedInv, Blank
<1>3. CASE SshInit
  BY <1>1, <1>3 DEF SshInit, UnaskedInv
<1>4. CASE UniFiInit
  BY <1>1, <1>4, UniFiAssumption DEF UniFiInit, UnaskedInv
<1>5. CASE PelicanPanelInit
  BY <1>1, <1>5, PanelAssumption DEF PelicanPanelInit, UnaskedInv
<1>6. CASE PortainerInit
  BY <1>1, <1>6 DEF PortainerInit, UnaskedInv
<1>7. CASE ProxmoxInit
  BY <1>1, <1>7 DEF ProxmoxInit, UnaskedInv
<1>8. CASE HomeAssistantInit
  BY <1>1, <1>8 DEF HomeAssistantInit, UnaskedInv
<1>9. CASE UptimeKumaInit
  BY <1>1, <1>9 DEF UptimeKumaInit, UnaskedInv
<1> QED
  BY <1>2, <1>3, <1>4, <1>5, <1>6, <1>7, <1>8, <1>9 DEF ConnectorsInit

\* A call that takes no step keeps what it has done, and its helper's refusal.
LEMMA AskedKept ==
  ASSUME NEW d \in Calls, NEW w, Asked(d, w), Stopped(d) => Stopped(d)',
         args'[d] = args[d], at'[d] = at[d], answer'[d] = answer[d],
         touched'[d] = touched[d]
  PROVE  Asked(d, w)'
BY DEF Asked, Quiet

\* And what it has read.
LEMMA GotKept ==
  ASSUME NEW d \in Calls, Got(d), args'[d] = args[d], at'[d] = at[d],
         touched'[d] = touched[d]
  PROVE  Got(d)'
<1>1. InStep(args[d].path)' = InStep(args[d].path)
  OBVIOUS
<1> QED
  BY <1>1 DEF Got, Quiet

\* A step of a call of a target other than the panel's host.
LEMMA AskedCallStep ==
  ASSUME BaseInv, UnaskedInv, NEW c \in Calls, CallStep(c), remote.system # "host",
         NEW w \in Watches, Fitting(w), Asked(c, w)
  PROVE  Asked(c, w)'
<1>1. FrameOK
  BY DEF BaseInv
<1>2. CASE remote.system = "home-assistant"
  <2>1. w.places = Before \ {"have"} /\ "ha_get" \notin w.tools
    BY <1>2 DEF Fitting
  <2>2. HomeAssistantStep(c)
    BY <1>2 DEF CallStep
  <2> QED
    BY <1>1, <2>1, <2>2, HomeAssistantAsked
<1>3. CASE remote.system = "ssh"
  <2>1. /\ w.places = Before
        /\ EscapedOption(remote.line) => "run_readonly" \notin w.tools
        /\ EscapedProgram(remote.line) => "destroyed" \notin w.harm
    BY <1>3 DEF Fitting, Disguised
  <2>2. checkReadonly(remote.line) /\ ~EscapedOption(remote.line) => OnlyReads(remote.line)
    <3>1. remote.line \in Seq(STRING)
      BY <1>3, SshAssumption DEF UnaskedInv
    <3> QED
      BY <3>1, ReadonlyOnlyReads
  <2>3. SshStep(c)
    BY <1>3 DEF CallStep
  <2> QED
    BY <1>1, <2>1, <2>2, <2>3, SshAsked
<1>4. CASE remote.system \notin {"home-assistant", "ssh"}
  <2>1. w.places = Before
    BY <1>4 DEF Fitting
  <2> QED
    BY <1>1, <1>4, <2>1, UniFiAsked, PortainerAsked, ProxmoxAsked, UptimeKumaAsked,
       PelicanPanelAsked DEF CallStep
<1> QED
  BY <1>2, <1>3, <1>4

\* A step of a call.
LEMMA UnaskedCallStep ==
  ASSUME BaseInv, RuntimeInv, UnaskedInv, NEW c \in Calls, CallStep(c)
  PROVE  UnaskedInv'
<1>1. Proper(c, Accepted)
  BY StepProper
<1>2. remote'.system = remote.system /\ DOMAIN remote' = DOMAIN remote /\ FrameOK
  BY <1>1 DEF Proper, SameKind, BaseInv
<1>3. PICK w \in Watches : Fitting(w) /\ \A d \in Calls : Asked(d, w)
  BY DEF UnaskedInv
<1>4. CASE remote.system = "host"
  <2>1. /\ PelicanHostStep(c) /\ HostTypeOK /\ HostFits /\ RunsOK /\ Blank(c)
        /\ \A d \in Calls : Job(d) /\ Found(d)
        /\ at[c] # "idle" => args[c] \in HostCalls
    BY <1>4 DEF CallStep, RuntimeInv, HostTypeOK, RunsOK, UnaskedInv, BaseInv, Accepted
  <2>5. w.places = Before /\ Asked(c, w)
    BY <1>3, <1>4 DEF Fitting
  <2>2. Asked(c, w)' /\ Blank(c)'
    BY <1>2, <1>4, <2>1, <2>5, PelicanHostAsked
  <2>3. \A d \in Calls \ {c} : remote'.run[d] = remote.run[d]
    BY <1>2, <2>1, HandlerFinds
  <2>4. ASSUME NEW d \in Calls \ {c} PROVE Asked(d, w)' /\ Blank(d)'
    <3>1. /\ Asked(d, w) /\ args'[d] = args[d] /\ at'[d] = at[d] /\ answer'[d] = answer[d]
          /\ touched'[d] = touched[d] /\ remote'.run[d] = remote.run[d] /\ Blank(d)
      BY <1>1, <1>3, <1>4, <2>3 DEF Proper, Only, UnaskedInv
    <3>2. Stopped(d)' = Stopped(d) /\ Blank(d)'
      BY <1>2, <3>1 DEF Stopped, Blank
    <3> QED
      BY <3>1, <3>2, AskedKept
  <2>6. Fitting(w)'
    BY <1>2, <1>3, <1>4, FittingStays
  <2> QED
    BY <1>2, <1>4, <2>2, <2>4, <2>6 DEF UnaskedInv
<1>5. CASE remote.system # "host"
  <2>1. ASSUME NEW d \in Calls \ {c} PROVE Asked(d, w)' /\ (Got(d) => Got(d)')
    <3>1. /\ Asked(d, w) /\ args'[d] = args[d] /\ at'[d] = at[d] /\ answer'[d] = answer[d]
          /\ touched'[d] = touched[d] /\ ~Stopped(d)
      BY <1>1, <1>3, <1>5 DEF Proper, Only, Stopped
    <3> QED
      BY <3>1, AskedKept, GotKept
  <2>2. ASSUME remote.system = "home-assistant" PROVE Got(c)'
    <3>1. ASSUME Does(c, "ha_get"), InStep(args[c].path), isAllowedReadPath(args[c].path)
          PROVE  ~FiresAutomation(args[c].path)
      <4>1. args[c] \in HomeAssistantCalls /\ args[c].tool = "ha_get"
        BY <2>2, <3>1 DEF Does, Running, BaseInv, Accepted
      <4>2. args[c].path \in Paths
        BY <4>1 DEF HomeAssistantCalls, HAGetCalls, HAServiceCalls, HAReadCalls
      <4> QED
        BY <3>1, <4>2, ListedPathIsSafe
    <3>2. HomeAssistantStep(c) /\ Got(c) /\ Asked(c, w)
      BY <1>3, <2>2 DEF CallStep, UnaskedInv
    <3> QED
      BY <1>2, <3>1, <3>2, HomeAssistantGot
  <2>4. Asked(c, w)'
    BY <1>3, <1>5, AskedCallStep
  <2>5. ASSUME remote.system = "ssh" PROVE remote'.line = remote.line
    BY <1>2, <2>5, LineStays DEF UnaskedInv, CallStep
  <2>6. Fitting(w)' /\ \A d \in Calls : Asked(d, w)'
    BY <1>2, <1>3, <2>1, <2>4, <2>5, FittingStays
  <2>7. remote.system = "home-assistant" => \A d \in Calls : Got(d)'
    BY <2>1, <2>2 DEF UnaskedInv
  <2>8. remote.system = "ssh" => "line" \in DOMAIN remote' /\ remote'.line \in CommandLines
    BY <1>2, <2>5 DEF UnaskedInv
  <2> QED
    BY <1>2, <1>5, <2>6, <2>7, <2>8 DEF UnaskedInv
<1> QED
  BY <1>4, <1>5

\* Of the others only the helpers' processes touch what the invariant speaks of.
LEMMA UnaskedOthers ==
  ASSUME BaseInv, RuntimeInv, UnaskedInv, Others
  PROVE  UnaskedInv'
<1>1. /\ remote'.system = remote.system /\ DOMAIN remote' = DOMAIN remote
      /\ UNCHANGED <<args, at, got, sent, answer, touched>>
  BY OthersFrame DEF BaseInv, SameKind
<1>5. PICK w \in Watches : Fitting(w) /\ \A d \in Calls : Asked(d, w)
  BY DEF UnaskedInv
<1>6. remote.system # "ssh"
  BY DEF Others
<1>7. Fitting(w)'
  BY <1>1, <1>5, <1>6, FittingStays
<1>2. ASSUME NEW d \in Calls, Stopped(d) => Stopped(d)' PROVE Asked(d, w)'
  BY <1>1, <1>2, <1>5, AskedKept
<1>3. CASE remote.system = "host"
  <2>1. PICK c \in Calls : helperRuns(c)
    BY <1>3 DEF Others
  <2>2. HostKnown
    BY <1>3 DEF HostKnown, RuntimeInv, BaseInv, Accepted
  <2>3. \A d \in Calls : Blank(d)' /\ (Stopped(d) => Stopped(d)')
    BY <1>1, <1>3, <2>1, <2>2, HelperStops DEF UnaskedInv
  <2> QED
    BY <1>1, <1>2, <1>3, <1>7, <2>3 DEF UnaskedInv
<1>4. CASE remote.system # "host"
  <2>1. \A d \in Calls : Asked(d, w)'
    BY <1>2, <1>4 DEF Stopped
  <2>2. remote.system = "home-assistant" => \A d \in Calls : Got(d)'
    BY <1>1, GotKept DEF UnaskedInv
  <2> QED
    BY <1>1, <1>4, <1>6, <1>7, <2>1, <2>2 DEF UnaskedInv
<1> QED
  BY <1>3, <1>4

\* What was done was asked for, in every reachable state.
THEOREM UnaskedInvariant == ConnectorsSpec => [](BaseInv /\ UnaskedInv)
<1>1. ASSUME BaseInv, RuntimeInv, UnaskedInv, [ConnectorsNext]_callVars
      PROVE  UnaskedInv'
  <2>1. CASE UNCHANGED callVars
    <3>1. PICK w \in Watches : Fitting(w) /\ \A c \in Calls : Asked(c, w)
      BY <1>1 DEF UnaskedInv
    <3>2. remote' = remote /\ UNCHANGED <<args, at, answer, touched>>
      BY <2>1 DEF callVars
    <3>3. Fitting(w)'
      BY <3>1, <3>2, FittingStays
    <3>4. \A c \in Calls : Asked(c, w)'
      BY <3>1, <3>2, AskedKept DEF Stopped
    <3>5. remote.system = "home-assistant" => \A c \in Calls : Got(c)'
      BY <1>1, <3>2, GotKept DEF UnaskedInv
    <3> QED
      BY <1>1, <3>2, <3>3, <3>4, <3>5 DEF UnaskedInv, Blank
  <2> QED
    BY <1>1, <2>1, UnaskedCallStep, UnaskedOthers DEF ConnectorsNext, AllAnswered
<1>2. ConnectorsSpec => [](BaseInv /\ RuntimeInv)
  BY RuntimeInvariant
<1> QED
  BY <1>1, <1>2, UnaskedStart, PTL DEF ConnectorsSpec

\* A call that declined has changed nothing, a call of a tool that reads has changed
\* nothing, and no call has destroyed anything or looked inside the network, but for
\* the paths and the command lines that the checks misread.
THEOREM NothingIsDoneUnasked == ConnectorsSpec => []NothingUnasked
<1>1. ASSUME BaseInv, UnaskedInv, NEW c \in Calls, at[c] # "idle"
      PROVE  LET effects == touched[c] \ {"public"}
                 stopped == remote.system = "host" /\ remote.run[c].n = 0
             IN /\ "destroyed" \in effects => Disguised
                /\ {"inside", "http"} \cap effects = {}
                /\ \/ answer[c] \in {"refused", "nothing to do"}
                   \/ args[c].tool \in ReadTools /\ ~Misread(c)
                   => effects = {} \/ stopped
  <2>1. PICK w \in Watches : Fitting(w) /\ Asked(c, w)
    BY <1>1 DEF UnaskedInv
  <2>2. answer[c] \in {"refused", "nothing to do"} => Quiet(c) \/ Stopped(c)
    BY <2>1, CallAssumption DEF Asked, Answers, Declined
  <2>3. ASSUME args[c].tool \in ReadTools, ~Misread(c) PROVE Quiet(c)
    <3>1. CASE args[c].tool \in w.tools
      BY <1>1, <2>1, <3>1 DEF Asked
    <3>2. CASE remote.system = "home-assistant" /\ args[c].tool = "ha_get"
      BY <1>1, <2>3, <3>2 DEF UnaskedInv, Got, Misread
    <3>3. CASE EscapedOption(remote.line) /\ args[c].tool = "run_readonly"
      BY <2>3, <3>3 DEF Misread
    <3> QED
      BY <2>1, <2>3, <3>1, <3>2, <3>3 DEF Fitting
  <2>4. touched[c] \cap {"inside", "http"} = {} /\ ("destroyed" \in touched[c] => Disguised)
    BY <2>1 DEF Asked, Fitting, Harm
  <2> QED
    BY <2>2, <2>3, <2>4 DEF Quiet, Stopped
<1>2. BaseInv /\ UnaskedInv => NothingUnasked
  BY <1>1 DEF NothingUnasked
<1> QED
  BY <1>2, UnaskedInvariant, PTL
=============================================================================
