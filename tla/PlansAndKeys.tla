---------------------------- MODULE PlansAndKeys ----------------------------
(***************************************************************************)
(* The plan of one user and the provider keys of the Advance plan          *)
(* (modules/catalog: plan_selection, byok, services).  A change of plan    *)
(* locks the selection and logs an event; keys and model selections are    *)
(* read and written without locks.  A session starts from a snapshot of    *)
(* the plan and, for Advance, of models whose keys are active.             *)
(***************************************************************************)
EXTENDS Integers, Sequences

CONSTANTS
  Requests, Keys,
  MaxRevision,    \* policies that are published of a plan
  MaxChanges      \* plan_change_events

Plans        == {"vip", "advance"}
Capabilities == {"llm", "stt"}

VARIABLES
  policy,     \* plans.policy_version, published
  selection,  \* user_plan_selections, plan "none" for no row
  events,     \* plan_change_events
  keys,       \* user_ai_credentials.status, "none": not registered
  models,     \* user_ai_selections: the keys that each capability uses, at most one
  openWork,   \* invocations or reservations that are not final (Wallet)
  snapshots,  \* runtime_snapshots
  change      \* what each request is at

vars == <<policy, selection, events, keys, models, openWork, snapshots, change>>

NoPlan == [plan |-> "none", revision |-> 0]
Idle   == [step |-> "idle", to |-> NoPlan, saw |-> NoPlan, on |-> {}, about |-> {}]

Init ==
  /\ policy = [p \in Plans |-> 1]
  /\ selection = NoPlan /\ events = <<>>
  /\ keys = [k \in Keys |-> "none"] /\ models = [c \in Capabilities |-> {}]
  /\ openWork = FALSE /\ snapshots = {}
  /\ change = [q \in Requests |-> Idle]

Finish(q) == change' = [change EXCEPT ![q] = Idle]

-----------------------------------------------------------------------------
(* Plans *)

Publish(p) ==
  /\ policy[p] < MaxRevision /\ policy' = [policy EXCEPT ![p] = @ + 1]
  /\ UNCHANGED <<selection, events, keys, models, openWork, snapshots, change>>

\* Mutant: the selection is read without FOR UPDATE
NotLocked == TRUE
SelectionFree ==
  \A q \in Requests : ~(change[q].step = "changing" /\ change[q].saw # NoPlan)

\* The keys of selections that can be used
Usable(c) == {k \in models[c] : keys[k] = "active"}

AdvanceReady == \A c \in Capabilities : Usable(c) # {}

\* select_plan, up to what it writes: the row is locked if there is one, a choice
\* of the plan that it has changes nothing, and open work is looked for without
\* the lock of the wallet
Choose(q, p) ==
  /\ change[q].step = "idle"
  /\ selection # NoPlan => SelectionFree
  /\ selection.plan # p
  /\ selection # NoPlan => ~openWork
  /\ p = "advance" => AdvanceReady
  /\ change' = [change EXCEPT ![q] = [Idle EXCEPT !.step = "changing", !.saw = selection,
                                        !.to = [plan |-> p, revision |-> policy[p]]]]
  /\ UNCHANGED <<policy, selection, events, keys, models, openWork, snapshots>>

\* The insert of a first selection meets the primary key
Change(q) ==
  LET r == change[q]
  IN  /\ r.step = "changing" /\ Len(events) < MaxChanges
      /\ IF r.saw = NoPlan /\ selection # NoPlan
         THEN UNCHANGED <<selection, events>>
         ELSE /\ selection' = r.to
              /\ events' = Append(events, [old |-> r.saw.plan, new |-> r.to])
      /\ Finish(q)
      /\ UNCHANGED <<policy, keys, models, openWork, snapshots>>

\* Invocations are authorized and settled meanwhile, as in Wallet
Work ==
  /\ openWork' = ~openWork /\ (openWork' => selection # NoPlan)
  /\ UNCHANGED <<policy, selection, events, keys, models, snapshots, change>>

\* build_for_user
BuildSnapshot ==
  /\ selection # NoPlan
  /\ selection.plan = "advance" => AdvanceReady
  /\ snapshots' = snapshots \cup {selection}
  /\ UNCHANGED <<policy, selection, events, keys, models, openWork, change>>

-----------------------------------------------------------------------------
(* Keys *)

\* register_credential: what the provider does not accept is rolled back
Register(k) ==
  /\ keys[k] = "none" /\ keys' = [keys EXCEPT ![k] = "active"]
  /\ UNCHANGED <<policy, selection, events, models, openWork, snapshots, change>>

\* revoke_credential sets the status, looks for the selections of the key and
\* deletes them by their primary key, which is that of the capability
ReadSelections(q, k) ==
  /\ change[q].step = "idle" /\ keys[k] = "active"
  /\ change' = [change EXCEPT ![q] = [Idle EXCEPT !.step = "revoking", !.on = {k},
                                        !.about = {c \in Capabilities : k \in models[c]}]]
  /\ UNCHANGED <<policy, selection, events, keys, models, openWork, snapshots>>

Revoke(q) ==
  /\ change[q].step = "revoking"
  /\ keys' = [k \in Keys |-> IF k \in change[q].on THEN "revoked" ELSE keys[k]]
  /\ models' = [c \in Capabilities |-> IF c \in change[q].about THEN {} ELSE models[c]]
  /\ Finish(q)
  /\ UNCHANGED <<policy, selection, events, openWork, snapshots>>

\* select_model
ReadKey(q, k, c) ==
  /\ change[q].step = "idle" /\ keys[k] = "active"
  /\ change' = [change EXCEPT ![q] = [Idle EXCEPT !.step = "selecting", !.on = {k}, !.about = {c}]]
  /\ UNCHANGED <<policy, selection, events, keys, models, openWork, snapshots>>

SelectModel(q) ==
  /\ change[q].step = "selecting"
  /\ models' = [c \in Capabilities |-> IF c \in change[q].about THEN change[q].on ELSE models[c]]
  /\ Finish(q)
  /\ UNCHANGED <<policy, selection, events, keys, openWork, snapshots>>

\* A request that ends without a commit
Fail(q) ==
  /\ change[q].step # "idle" /\ Finish(q)
  /\ UNCHANGED <<policy, selection, events, keys, models, openWork, snapshots>>

Next ==
  \/ \E p \in Plans : Publish(p) \/ \E q \in Requests : Choose(q, p)
  \/ \E k \in Keys, q \in Requests :
       ReadSelections(q, k) \/ \E c \in Capabilities : ReadKey(q, k, c)
  \/ \E k \in Keys : Register(k)
  \/ \E q \in Requests : Change(q) \/ Revoke(q) \/ SelectModel(q) \/ Fail(q)
  \/ Work \/ BuildSnapshot

Spec == Init /\ [][Next]_vars

-----------------------------------------------------------------------------

\* The rows: plans and their policies, user_plan_selections, plan_change_events,
\* user_ai_credentials, user_ai_selections, runtime_snapshots
Policies        == [Plans -> 1..MaxRevision]
SelectionRows   == [plan : Plans, revision : 1..MaxRevision]
ChangeEvents    == [old : Plans \cup {"none"}, new : SelectionRows]
Credentials     == [Keys -> {"none", "active", "revoked"}]
ModelSelections == [Capabilities -> {{}} \cup {{k} : k \in Keys}]
Snapshots       == SelectionRows

\* The state keeps its types
TypeOK ==
  /\ policy \in Policies
  /\ selection \in SelectionRows \cup {NoPlan}
  /\ events \in Seq(ChangeEvents)
  /\ keys \in Credentials /\ models \in ModelSelections
  /\ openWork \in BOOLEAN
  /\ snapshots \subseteq Snapshots
  /\ \A q \in Requests : change[q].step \in {"idle", "changing", "revoking", "selecting"}

\* The log of plan changes tells the plan that the user has had, without a gap:
\* each change starts from the plan of the one before and the last is the current
\* plan, however many choices are made at once (select_plan); and no session ran
\* under a plan and revision that is not in the log (build_for_user).
ChangesChain ==
  /\ \A i \in DOMAIN events : events[i].old = IF i = 1 THEN "none" ELSE events[i - 1].new.plan
  /\ selection = IF events = <<>> THEN NoPlan ELSE events[Len(events)].new
  /\ \A s \in snapshots : \E i \in DOMAIN events : events[i].new = s
=============================================================================
