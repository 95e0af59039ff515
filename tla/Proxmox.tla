------------------------------- MODULE Proxmox -------------------------------
(***************************************************************************)
(* The Proxmox connector: guests of a cluster, and the change of a guest's  *)
(* power state, which the cluster starts as a task.                         *)
(***************************************************************************)
EXTENDS ToolCall, TLC

CONSTANTS Vmids, Nodes, GuestNames, InitialGuests

GUEST_ACTIONS == {"start", "stop"}

GuestCalls ==
  { [tool |-> "guest_power", vmid |-> v, name |-> n, node |-> d, action |-> x] :
      v \in Vmids, n \in GuestNames, d \in Nodes, x \in GUEST_ACTIONS }

ProxmoxReadCalls ==
  { [tool |-> t] : t \in {"list_nodes", "list_guests", "node_status",
       "guest_status", "list_tasks", "task_log", "proxmox_snapshot"} }

ProxmoxTools == { a.tool : a \in GuestCalls \cup ProxmoxReadCalls }

\* A whole token in any of its usual places, else its two halves, else a
\* username and password exchanged for a ticket.
authHeaders == remote.cred \in {"token", "split token", "password"}

proxmoxNotReady(c) ==
  /\ Running(c) /\ args[c].tool \in ProxmoxTools
  /\ ~authHeaders
  /\ Reply(c, "begin", "refused")

findGuest(vmid) == { v \in {vmid} : remote.guests[v] # None }

SameGuest(guest, a) == guest.name = a.name /\ guest.node = a.node

guestPower(c) ==
  LET a == args[c] IN
  /\ Does(c, "guest_power")
  /\ \/ /\ authHeaders
        /\ IF findGuest(a.vmid) = {} THEN Reply(c, "begin", "refused")
           ELSE Learn(c, "begin", remote.guests[a.vmid], "have")
     \/ /\ at[c] = "have"
        /\ IF SameGuest(got[c], a)
           THEN /\ \A v \in findGuest(a.vmid) :
                     remote.guests[v].node = got[c].node
                /\ findGuest(a.vmid) # {}
                /\ Change(c, "have",
                     [remote EXCEPT !.guests[a.vmid].state =
                        IF a.action = "start" THEN "running" ELSE "stopped"],
                     {"power"}, None, "put")
           ELSE Reply(c, "have", "refused")
     \/ Reply(c, "put", "ok")

\* The abort after REQUEST_TIMEOUT_MS of a request that may have been served:
\* the answer says that the outcome is unknown.
proxmoxTimesOut(c) ==
  /\ Does(c, "guest_power")
  /\ \/ /\ at[c] = "have" /\ SameGuest(got[c], args[c])
        /\ Reply(c, "have", "unknown")
     \/ Reply(c, "put", "unknown")

proxmoxReads(c) ==
  /\ Running(c)
  /\ args[c].tool \in {a.tool : a \in ProxmoxReadCalls} \ {"proxmox_snapshot"}
  /\ \/ authHeaders /\ Learn(c, "begin", remote.guests, "have")
     \/ Reply(c, "have", "ok")

\* Nodes, storage and the inventory are needed; a node's network or a guest's
\* configuration that cannot be read is left out.
proxmoxSnapshot(c) ==
  /\ Does(c, "proxmox_snapshot")
  /\ \/ authHeaders /\ Learn(c, "begin", {"nodes", "storage", "guests"}, "have")
     \/ \E read \in SUBSET Nodes : Learn(c, "have", got[c] \cup read, "networks")
     \/ \E read \in SUBSET {v \in Vmids : findGuest(v) # {}} :
          Learn(c, "networks", got[c] \cup read, "put")
     \/ Reply(c, "put", "ok")

\* A guest is migrated, renamed, or its id is given to another.
proxmoxEdit ==
  \E v \in Vmids : /\ remote.guests[v] # None
                   /\ \/ \E d \in Nodes : Edit([remote EXCEPT !.guests[v].node = d])
                      \/ \E n \in GuestNames :
                           Edit([remote EXCEPT !.guests[v].name = n])
                      \/ Edit([remote EXCEPT !.guests[v] = None])

ProxmoxStep(c) ==
  \/ remote.topic = "guests" /\ Begin(c, GuestCalls)
  \/ remote.topic = "reads" /\ Alone(c) /\ Begin(c, ProxmoxReadCalls)
  \/ proxmoxNotReady(c)
  \/ guestPower(c)
  \/ proxmoxTimesOut(c)
  \/ proxmoxReads(c)
  \/ proxmoxSnapshot(c)
  \/ Breaks(c, ProxmoxTools)

ProxmoxInit ==
  \E guests \in InitialGuests, topic \in {"guests", "reads"},
     cred \in {"token", "absent"} :
    remote = [system |-> "proxmox", topic |-> topic, cred |-> cred,
              guests |-> guests]
=============================================================================
