----------------------- MODULE IntentDelivery_proofs -----------------------
(***************************************************************************)
(* Proofs about IntentDelivery for any number of request threads,          *)
(* messages, intents, revisions and faults.  IInv is the inductive         *)
(* invariant.  What a thread remembers is a key and a receipt: it says     *)
(* what these are worth after others have come in between.                 *)
(* IntentResolution follows: what a message makes of a request.            *)
(***************************************************************************)
EXTENDS IntentDelivery, Integers, SequenceTheorems, FiniteSetTheorems, TLAPS

Receipts == {"none", "accepted", "completed"}
Places == {"idle", "resolve", "dispatch", "lookup", "submit", "save", "evidence", "keep", "execute", "report"}
CallerType == [pc : Places, msg : Message \cup {None}, key : Key \cup {None}, saved : Receipts, got : Receipts]
PlanType == [status : {"absent", "draft", "executing", "completed", "cancelled"}, version : 0..4]

(* Revision k has been committed.                                          *)
Known(k) == k[2] <= head[k[1]]

TypeInv ==
    /\ head \in [Intent -> 0..MaxRevisions] /\ faults \in Nat
    /\ request \in [Key -> Request \cup {None}]
    /\ message \in [Message -> [1..2 -> Key \cup {None}]]
    /\ context \in [Message -> Context \cup {None}]
    /\ outbox \in [Key -> {"none", "pending", "superseded", "accepted", "completed"}]
    /\ receipt \in [Key -> Receipts] /\ delivery \in [Key -> Receipts]
    /\ effects \in [Key -> Nat]
    /\ plan \in [Plan -> PlanType]
    /\ execution \in [Plan -> {"none", "open", "completed", "cancelled"}]
    /\ run \in {"running", "cancel_requested", "ended", "lost"}
    /\ caller \in [Caller -> CallerType]

(* A message makes a revision in its first context, and another one of the *)
(* same intent, a plan, if it was rerouted.  Only a cancel names a task.   *)
MessageInv ==
    /\ \A k \in Key : request[k] # None <=> Known(k)
    /\ \A k \in Key : request[k] # None /\ request[k].route # "cancel" => request[k].task = None
    /\ \A m \in Message, v \in 1..2 : message[m][v] # None => Known(message[m][v])
    /\ \A m \in Message : message[m][2] # None =>
          /\ message[m][1] # None
          /\ message[m][1][1] = message[m][2][1] /\ message[m][1][2] < message[m][2][2]
          /\ request[message[m][2]].route = "plan"
    /\ \A m \in Message : context[m] # None /\ context[m].version = 2 => message[m][2] # None

(* A completed receipt of a control of the runtime is no lie.              *)
EndedIfCompleted(k, r) == r = "completed" /\ request[k].task = Run => run = "ended"

DeliveryInv ==
    /\ \A k \in Key : outbox[k] # "none" \/ receipt[k] # "none" \/ delivery[k] # "none" => Known(k)
    /\ \A k \in Key : outbox[k] = "completed" => receipt[k] = "completed"
    /\ \A k \in Key : EndedIfCompleted(k, receipt[k]) /\ EndedIfCompleted(k, delivery[k])
    /\ \A k \in Key : effects[k] = IF delivery[k] = "none" THEN 0 ELSE 1
    /\ \A k \in Key : plan[k].status # "absent" => delivery[k] # "none"

(* The status of a plan, its version and its run go together.              *)
PlanInv ==
    \A p \in Plan :
        \/ plan[p].status = "absent" /\ plan[p].version = 0 /\ execution[p] = "none"
        \/ plan[p].status = "draft" /\ plan[p].version = 1 /\ execution[p] = "none"
        \/ plan[p].status = "executing" /\ plan[p].version = 2 /\ execution[p] \in {"open", "completed"}
        \/ plan[p].status = "completed" /\ plan[p].version = 3 /\ execution[p] = "completed"
        \/ plan[p].status = "cancelled" /\ plan[p].version \in 2..4

(* What a thread has in hand at each of its places.                        *)
CallerOK(x) ==
    /\ x.pc = "resolve" => x.msg \in Message /\ context[x.msg] # None
    /\ x.pc \in {"dispatch", "lookup", "submit", "save", "evidence", "keep"} =>
          /\ x.msg \in Message /\ context[x.msg] # None /\ x.key \in Key
          /\ x.key = message[x.msg][1] \/ x.key = message[x.msg][2]
    /\ x.pc = "evidence" => x.key = message[x.msg][1] /\ request[x.key].route = "direct_answer"
    /\ x.pc = "keep" => x.key = message[x.msg][2]
    /\ x.pc \in {"lookup", "submit"} => EndedIfCompleted(x.key, x.saved)
    /\ x.pc = "save" => x.got # "none" /\ EndedIfCompleted(x.key, x.got)
    /\ x.pc = "execute" => x.key \in Plan /\ execution[x.key] # "none"
    /\ x.pc = "report" => x.key \in Plan /\ execution[x.key] \in {"completed", "cancelled"}

CallerInv == \A c \in Caller : CallerOK(caller[c])

IInv == TypeInv /\ MessageInv /\ DeliveryInv /\ PlanInv /\ CallerInv /\ PendingIsLatest /\ PendingIsRetried
-----------------------------------------------------------------------------
(* What is committed stays                                                 *)

LEMMA Constants ==
    /\ MaxRevisions \in Nat /\ Run \notin Plan /\ Run \in Task /\ Plan = Key
    /\ None \notin Key /\ None \notin Task /\ None \notin Request /\ None \notin Context
    /\ \A k \in Key : k \in Task /\ k[1] \in Intent /\ k[2] \in 1..MaxRevisions /\ k = <<k[1], k[2]>>
BY DeliveryAssumption DEF Task, Plan, Key

(* Whatever step is taken: revisions, messages and contexts are kept, the  *)
(* runtime does not come back and a run of a plan is not opened again.     *)
Grows ==
    /\ \A k \in Key : Known(k) => k[2] <= head'[k[1]]
    /\ \A k \in Key : request[k] # None => request'[k] = request[k]
    /\ \A m \in Message, v \in 1..2 : message[m][v] # None => message'[m][v] = message[m][v]
    /\ \A m \in Message : context[m] # None => context'[m] # None
    /\ run = "ended" => run' = "ended"
    /\ \A p \in Plan : /\ execution[p] # "none" => execution'[p] # "none"
                       /\ execution[p] \in {"completed", "cancelled"} => execution'[p] \in {"completed", "cancelled"}

LEMMA Rows ==
    ASSUME IInv
    PROVE  /\ \A c \in Caller : caller[c] \in CallerType /\ CallerOK(caller[c])
           /\ \A k \in Key : request[k] \in Request \cup {None} /\ plan[k] \in PlanType
           /\ \A m \in Message : context[m] \in Context \cup {None} /\ message[m] \in [1..2 -> Key \cup {None}]
           /\ \A m \in Message, v \in 1..2 : message[m][v] \in Key \cup {None}
           /\ \A i \in Intent : head[i] \in 0..MaxRevisions
BY Constants DEF IInv, TypeInv, CallerInv

(* Before it is delivered a thread's revision has been committed.          *)
LEMMA InHand ==
    ASSUME IInv, NEW x \in CallerType, CallerOK(x), x.pc \in {"dispatch", "lookup", "submit", "save", "evidence", "keep"}
    PROVE  /\ x.key \in Key /\ x.msg \in Message /\ context[x.msg] \in Context /\ context[x.msg] # None
           /\ Known(x.key) /\ request[x.key] # None /\ request[x.key] \in Request
           /\ x.key = message[x.msg][1] \/ x.key = message[x.msg][2]
<1>1. x.key \in Key /\ x.msg \in Message /\ context[x.msg] # None /\ (x.key = message[x.msg][1] \/ x.key = message[x.msg][2])
    BY DEF CallerOK
<1>2. x.key # None
    BY <1>1, Constants
<1>3. Known(x.key)
    BY <1>1, <1>2 DEF IInv, MessageInv
<1> QED BY <1>1, <1>2, <1>3, Rows DEF IInv, MessageInv

LEMMA HandStays ==
    ASSUME IInv, Grows, NEW x \in CallerType, CallerOK(x)
    PROVE  CallerOK(x)'
<1>1. x.pc \in {"dispatch", "lookup", "submit", "save", "evidence", "keep"} =>
          /\ x.key \in Key /\ x.msg \in Message /\ context[x.msg] # None
          /\ request[x.key] # None /\ x.key # None
          /\ x.key = message[x.msg][1] \/ x.key = message[x.msg][2]
    BY InHand, Constants
<1>2. x.pc \in {"dispatch", "lookup", "submit", "save", "evidence", "keep"} =>
          /\ context'[x.msg] # None /\ request'[x.key] = request[x.key]
          /\ x.key = message[x.msg][1] => x.key = message'[x.msg][1]
          /\ x.key = message[x.msg][2] => x.key = message'[x.msg][2]
    BY <1>1 DEF Grows
<1>3. x.pc \in {"lookup", "submit"} => EndedIfCompleted(x.key, x.saved)'
    BY <1>2 DEF CallerOK, EndedIfCompleted, Grows
<1>4. x.pc = "save" => x.got # "none" /\ EndedIfCompleted(x.key, x.got)'
    BY <1>2 DEF CallerOK, EndedIfCompleted, Grows
<1>5. x.pc \in {"execute", "report"} => x.key \in Plan
    BY DEF CallerOK
<1>6. /\ x.pc = "execute" => execution'[x.key] # "none"
      /\ x.pc = "report" => execution'[x.key] \in {"completed", "cancelled"}
    BY <1>5 DEF CallerOK, Grows
<1>7. x.pc = "resolve" => x.msg \in Message /\ context'[x.msg] # None
    BY DEF CallerOK, Grows
<1>8. /\ x.pc = "evidence" => x.key = message'[x.msg][1] /\ request'[x.key].route = "direct_answer"
      /\ x.pc = "keep" => x.key = message'[x.msg][2]
    BY <1>2 DEF CallerOK
<1> QED BY <1>1, <1>2, <1>3, <1>4, <1>5, <1>6, <1>7, <1>8 DEF CallerOK

LEMMA CallersStep ==
    ASSUME IInv, Grows, NEW c \in Caller, NEW rec \in CallerType, caller' = [caller EXCEPT ![c] = rec], CallerOK(rec)'
    PROVE  CallerInv' /\ caller' \in [Caller -> CallerType]
<1>1. caller'[c] = rec /\ (\A d \in Caller \ {c} : caller'[d] = caller[d]) /\ caller' \in [Caller -> CallerType]
    BY DEF IInv, TypeInv
<1>2. \A d \in Caller \ {c} : CallerOK(caller[d])'
    BY HandStays, Rows
<1>3. ASSUME NEW d \in Caller PROVE CallerOK(caller[d])'
    BY <1>1, <1>2
<1> QED BY <1>1, <1>3 DEF CallerInv

LEMMA CallersStay ==
    ASSUME IInv, Grows, caller' = caller
    PROVE  CallerInv' /\ caller' \in [Caller -> CallerType]
BY HandStays, Rows DEF CallerInv, IInv, TypeInv

(* Revision k will be delivered by its message, when that is sent again.   *)
Retried(k) ==
    \/ \E m \in Message : context[m] # None /\ Replayed(m, context[m]) = k
    \/ \E m \in Message : message[m][2] = k /\ faults > 0
    \/ \E c \in Caller : At(c, "keep") /\ caller[c].key = k

LEMMA RetriedStays ==
    ASSUME IInv, Grows, \A m \in Message : context[m] # None => context'[m] = context[m],
           faults' \in Nat, faults' >= faults,
           \A c \in Caller : caller[c].pc = "keep" => caller'[c] = caller[c] \/ faults' > 0
    PROVE  \A k \in Key : Retried(k) => Retried(k)'
<1> SUFFICES ASSUME NEW k \in Key, Retried(k)
             PROVE  \/ \E m \in Message : context'[m] # None /\ message'[m][context'[m].version] = k
                    \/ \E m \in Message : message'[m][2] = k /\ faults' > 0
                    \/ \E c \in Caller : caller'[c].pc = "keep" /\ caller'[c].key = k
    BY DEF Retried, Replayed, At
<1>1. k # None /\ faults \in Nat
    BY Constants DEF IInv, TypeInv
<1>2. CASE \E m \in Message : context[m] # None /\ Replayed(m, context[m]) = k
    <2>1. PICK m \in Message : context[m] # None /\ message[m][context[m].version] = k
        BY <1>2 DEF Replayed
    <2>2. context[m].version \in 1..2
        BY <2>1, Rows DEF Context
    <2> QED BY <1>1, <2>1, <2>2 DEF Grows
<1>3. CASE \E m \in Message : message[m][2] = k /\ faults > 0
    BY <1>1, <1>3 DEF Grows
<1>4. CASE \E c \in Caller : At(c, "keep") /\ caller[c].key = k
    <2>1. PICK c \in Caller : caller[c].pc = "keep" /\ caller[c].key = k
        BY <1>4 DEF At
    <2>2. caller[c].msg \in Message /\ message[caller[c].msg][2] = k
        BY <2>1, Rows DEF CallerOK
    <2> QED BY <1>1, <2>1, <2>2 DEF Grows
<1> QED BY <1>2, <1>3, <1>4 DEF Retried

-----------------------------------------------------------------------------
(* Steps of one thread                                                     *)

(* A thread goes on, ends or fails, and writes nothing.                    *)
LEMMA MoveStep ==
    ASSUME IInv, NEW c \in Caller, NEW rec \in CallerType, caller' = [caller EXCEPT ![c] = rec], CallerOK(rec),
           UNCHANGED <<head, request, message, context, outbox, receipt, delivery, plan, execution, effects, run>>,
           faults' = faults + 1 \/ (faults' = faults /\ caller[c].pc # "keep")
    PROVE  IInv'
<1> faults' \in Nat /\ faults' >= faults /\ (caller[c].pc = "keep" => faults' > 0)
    BY DEF IInv, TypeInv
<1>1. UNCHANGED <<head, request, message, context, outbox, receipt, delivery, plan, execution, effects, run>>
    OBVIOUS
<1>2. Grows
    BY <1>1, Rows, Constants DEF Grows, Known, IInv, TypeInv
<1>3. CallerOK(rec)'
    BY <1>2, HandStays
<1>4. CallerInv' /\ caller' \in [Caller -> CallerType]
    BY <1>2, <1>3, CallersStep
<1>5. PendingIsRetried'
    <2>1. \A d \in Caller : caller[d].pc = "keep" => caller'[d] = caller[d] \/ faults' > 0
        BY DEF IInv, TypeInv
    <2> QED BY <1>1, <1>2, <2>1, RetriedStays DEF IInv, PendingIsRetried, Retried
<1>6. TypeInv' /\ PendingIsLatest'
    BY <1>1, <1>4 DEF IInv, TypeInv, PendingIsLatest, IsHead
<1>7. MessageInv' /\ DeliveryInv' /\ PlanInv'
    BY <1>1 DEF IInv, MessageInv, Known, DeliveryInv, EndedIfCompleted, PlanInv
<1> QED BY <1>4, <1>5, <1>6, <1>7 DEF IInv

LEMMA IdleIsTyped == Idle \in CallerType /\ CallerOK(Idle)
BY DEF Idle, CallerType, CallerOK, Places, Receipts

LEMMA FailRequestStep == ASSUME IInv, NEW c \in Caller, FailRequest(c) PROVE IInv'
<1> faults' = faults + 1
    BY DEF FailRequest, Fault
<1> UNCHANGED <<head, request, message, context, outbox, receipt, delivery, plan, execution, effects, run>>
    BY DEF FailRequest, intents, routes
<1> caller' = [caller EXCEPT ![c] = Idle]
    BY DEF FailRequest, Return
<1> QED BY IdleIsTyped, MoveStep

LEMMA DispatchStep == ASSUME IInv, NEW c \in Caller, Dispatch(c) PROVE IInv'
<1> DEFINE x == caller[c]
           k == caller[c].key
<1>1. x \in CallerType /\ CallerOK(x) /\ x.pc = "dispatch" /\ caller \in [Caller -> CallerType] /\ faults \in Nat
    BY Rows DEF Dispatch, At, IInv, TypeInv
<1>2. k \in Key /\ receipt[k] \in Receipts /\ EndedIfCompleted(k, receipt[k])
    BY <1>1, InHand DEF IInv, TypeInv, DeliveryInv
<1> UNCHANGED <<head, request, message, context, outbox, receipt, delivery, plan, execution, effects, run>> /\ faults' = faults
    BY DEF Dispatch, intents, routes
<1>3. CASE caller' = [caller EXCEPT ![c].pc = "lookup", ![c].saved = receipt[k]]
    <2>1. PICK rec : rec = [x EXCEPT !.pc = "lookup", !.saved = receipt[k]]
        OBVIOUS
    <2>2. caller' = [caller EXCEPT ![c] = rec]
        BY <1>1, <1>3, <2>1
    <2>3. rec \in CallerType /\ rec.pc = "lookup" /\ rec.msg = x.msg /\ rec.key = k /\ rec.saved = receipt[k]
        BY <1>1, <1>2, <2>1 DEF CallerType, Places
    <2>4. CallerOK(rec)
        BY <1>1, <1>2, <2>3 DEF CallerOK
    <2> QED BY <1>1, <2>2, <2>3, <2>4, MoveStep
<1>4. CASE Return(c)
    BY <1>1, <1>4, IdleIsTyped, MoveStep DEF Return
<1> QED BY <1>3, <1>4 DEF Dispatch

LEMMA NeedEvidenceStep == ASSUME IInv, NEW c \in Caller, NeedEvidence(c) PROVE IInv'
<1> DEFINE x == caller[c]
<1>1. x \in CallerType /\ CallerOK(x) /\ x.pc = "submit" /\ caller \in [Caller -> CallerType] /\ faults \in Nat
    BY Rows DEF NeedEvidence, At, IInv, TypeInv
<1>2. x.key = message[x.msg][1] /\ x.key \in Key /\ x.msg \in Message
    <2>1. x.key # message[x.msg][2]
        BY <1>1, InHand, Constants DEF NeedEvidence, IInv, MessageInv
    <2> QED BY <1>1, <2>1, InHand
<1>3. PICK rec : rec = [x EXCEPT !.pc = "evidence"]
    OBVIOUS
<1>4. caller' = [caller EXCEPT ![c] = rec]
    BY <1>1, <1>3 DEF NeedEvidence, Step
<1>5. rec \in CallerType /\ rec.pc = "evidence" /\ rec.msg = x.msg /\ rec.key = x.key
    BY <1>1, <1>3 DEF CallerType, Places
<1>6. CallerOK(rec)
    BY <1>1, <1>2, <1>5 DEF CallerOK, NeedEvidence
<1>7. UNCHANGED <<head, request, message, context, outbox, receipt, delivery, plan, execution, effects, run>> /\ faults' = faults
    BY DEF NeedEvidence, intents, routes
<1> QED BY <1>1, <1>4, <1>5, <1>6, <1>7, MoveStep

(* A new revision: v says in which context of its message m it was made,   *)
(* and the thread that made it goes on to deliver it or to keep the new    *)
(* context first.                                                          *)
LEMMA CommitStep ==
    ASSUME IInv, NEW m \in Message, NEW v \in 1..2, NEW i \in Intent, NEW q \in Request, Commit(m, v, i, q),
           q.route # "cancel" => q.task = None, message[m][v] = None, context[m] # None, v = 1 => context[m].version = 1,
           v = 2 => message[m][1] \in Key /\ message[m][1] = <<i, head[i]>> /\ q.route = "plan",
           NEW c \in Caller, NEW rec \in CallerType, caller' = [caller EXCEPT ![c] = rec], caller[c].pc # "keep",
           rec.msg = m, rec.key = <<i, head[i] + 1>>, rec.pc = IF v = 1 THEN "dispatch" ELSE "keep",
           UNCHANGED <<context, delivery, plan, execution, effects, run, faults>>
    PROVE  IInv'
<1>1. PICK k : k = <<i, head[i] + 1>>
    OBVIOUS
<1>2. /\ head \in [Intent -> 0..MaxRevisions] /\ faults \in Nat
      /\ request \in [Key -> Request \cup {None}] /\ message \in [Message -> [1..2 -> Key \cup {None}]]
      /\ outbox \in [Key -> {"none", "pending", "superseded", "accepted", "completed"}]
      /\ caller \in [Caller -> CallerType]
    BY DEF IInv, TypeInv
<1>3. head[i] \in 0..MaxRevisions /\ head[i] < MaxRevisions /\ k \in Key /\ k[1] = i /\ k[2] = head[i] + 1 /\ k # None
    BY <1>1, <1>2, Constants DEF Commit, Key
<1>4. head' = [head EXCEPT ![i] = @ + 1] /\ request' = [request EXCEPT ![k] = q] /\ message' = [message EXCEPT ![m][v] = k] /\ receipt' = receipt
    BY <1>1 DEF Commit
<1>5. \A n \in Key : outbox'[n] = CASE n = k -> IF q.route = "clarify" THEN "none" ELSE "pending"
                                    [] n # k /\ n[1] = i /\ outbox[n] = "pending" -> "superseded"
                                    [] OTHER -> outbox[n]
    BY <1>1 DEF Commit
<1>6. /\ outbox' \in [Key -> {"none", "pending", "superseded", "accepted", "completed"}]
      /\ outbox'[k] \in {"none", "pending"}
      /\ \A n \in Key \ {k} : outbox'[n] = outbox[n] \/ (outbox[n] = "pending" /\ n[1] = i /\ outbox'[n] = "superseded")
    <2>1. \A n \in Key \ {k} : outbox'[n] = outbox[n] \/ (outbox[n] = "pending" /\ n[1] = i /\ outbox'[n] = "superseded")
        BY <1>5
    <2>2. outbox'[k] \in {"none", "pending"}
        BY <1>3, <1>5
    <2>3. outbox' = [n \in Key |-> outbox'[n]]
        BY DEF Commit
    <2> QED BY <1>2, <2>1, <2>2, <2>3
<1>7. head' \in [Intent -> 0..MaxRevisions] /\ head'[i] = head[i] + 1 /\ \A j \in Intent \ {i} : head'[j] = head[j]
    BY <1>2, <1>3, <1>4, Constants
<1>8. \A n \in Key : n[2] <= head'[n[1]] <=> Known(n) \/ n = k
    <2> SUFFICES ASSUME NEW n \in Key PROVE n[2] <= head'[n[1]] <=> n[2] <= head[n[1]] \/ n = k
        BY DEF Known
    <2>1. n[1] \in Intent /\ n[2] \in Nat /\ n = <<n[1], n[2]>>
        BY Constants
    <2>2. CASE n[1] = i
        <3>1. n = k <=> n[2] = head[i] + 1
            BY <1>1, <2>1, <2>2
        <3> QED BY <1>3, <1>7, <2>1, <2>2, <3>1
    <2>3. CASE n[1] # i
        BY <1>3, <1>7, <2>1, <2>3
    <2> QED BY <2>2, <2>3
<1>9. ~Known(k) /\ request[k] = None /\ q # None
    <2>1. ~Known(k)
        BY <1>3 DEF Known
    <2> QED BY <1>3, <2>1, Constants DEF IInv, MessageInv
<1>10. request' \in [Key -> Request \cup {None}] /\ request'[k] = q /\ \A n \in Key \ {k} : request'[n] = request[n]
    BY <1>2, <1>3, <1>4
<1>11. /\ message' \in [Message -> [1..2 -> Key \cup {None}]] /\ message'[m][v] = k
       /\ \A l \in Message, u \in 1..2 : message'[l][u] = message[l][u] \/ (l = m /\ u = v)
    BY <1>2, <1>3, <1>4
<1>12. Grows
    BY <1>3, <1>8, <1>9, <1>10, <1>11 DEF Grows
<1>13. CallerOK(rec)'
    <2>1. message'[m][v] = k /\ context'[m] # None /\ rec.key = k
        BY <1>1, <1>11
    <2>2. CASE v = 1
        BY <1>3, <2>1, <2>2 DEF CallerOK
    <2>3. CASE v = 2
        BY <1>3, <2>1, <2>3 DEF CallerOK
    <2> QED BY <2>2, <2>3
<1>14. CallerInv' /\ caller' \in [Caller -> CallerType]
    BY <1>12, <1>13, CallersStep
<1>15. TypeInv'
    BY <1>6, <1>7, <1>10, <1>11, <1>14, <1>4 DEF IInv, TypeInv
<1>16. MessageInv'
    <2>1. \A n \in Key : request'[n] # None <=> n[2] <= head'[n[1]]
        BY <1>8, <1>9, <1>10 DEF IInv, MessageInv
    <2>2. \A l \in Message, u \in 1..2 : message'[l][u] # None => message'[l][u][2] <= head'[message'[l][u][1]]
        BY <1>2, <1>3, <1>8, <1>11, Rows DEF IInv, MessageInv
    <2>3. ASSUME NEW l \in Message, message'[l][2] # None
          PROVE  /\ message'[l][1] # None
                 /\ message'[l][1][1] = message'[l][2][1] /\ message'[l][1][2] < message'[l][2][2]
                 /\ request'[message'[l][2]].route = "plan"
        <3>1. CASE l # m \/ v = 1
            <4>1. message'[l][2] = message[l][2] /\ message[l][2] \in Key
                BY <1>11, <2>3, <3>1, Rows
            <4>2. message[l][1] # None
                BY <2>3, <4>1 DEF IInv, MessageInv
            <4>3. message'[l][1] = message[l][1]
                BY <1>11, <3>1, <4>2
            <4>4. message[l][2] # k
                BY <1>9, <2>3, <4>1 DEF IInv, MessageInv
            <4> QED BY <1>10, <2>3, <4>1, <4>2, <4>3, <4>4 DEF IInv, MessageInv
        <3>2. CASE l = m /\ v = 2
            <4>1. message'[m][1] = message[m][1] /\ message[m][1] = <<i, head[i]>> /\ message[m][1] \in Key
                BY <1>11, <3>2
            <4>2. message'[m][2] = k /\ request'[k].route = "plan"
                BY <1>10, <1>11, <3>2
            <4>3. message[m][1] # None /\ message[m][1][1] = i /\ message[m][1][2] = head[i] /\ head[i] < head[i] + 1
                BY <1>3, <4>1, Constants
            <4> QED BY <1>3, <3>2, <4>1, <4>2, <4>3
        <3> QED BY <3>1, <3>2
    <2>4. \A l \in Message : context'[l] # None /\ context'[l].version = 2 => message'[l][2] # None
        BY <1>11, <1>3 DEF IInv, MessageInv
    <2>5. \A n \in Key : request'[n] # None /\ request'[n].route # "cancel" => request'[n].task = None
        BY <1>10 DEF IInv, MessageInv
    <2> QED BY <2>1, <2>2, <2>3, <2>4, <2>5 DEF MessageInv, Known
<1>17. DeliveryInv'
    <2>1. \A n \in Key : outbox'[n] # "none" \/ receipt'[n] # "none" \/ delivery'[n] # "none" => n[2] <= head'[n[1]]
        BY <1>4, <1>6, <1>8 DEF IInv, DeliveryInv
    <2>2. \A n \in Key : outbox'[n] = "completed" => receipt'[n] = "completed"
        BY <1>4, <1>6 DEF IInv, DeliveryInv
    <2>3. \A n \in Key : EndedIfCompleted(n, receipt[n])' /\ EndedIfCompleted(n, delivery[n])'
        BY <1>4, <1>9, <1>10 DEF IInv, DeliveryInv, EndedIfCompleted
    <2> QED BY <2>1, <2>2, <2>3 DEF IInv, DeliveryInv, Known
<1>18. PlanInv'
    BY DEF IInv, PlanInv
<1>19. PendingIsLatest'
    <2> SUFFICES ASSUME NEW n \in Key, outbox'[n] = "pending" PROVE head'[n[1]] = n[2]
        BY DEF PendingIsLatest, IsHead
    <2>1. CASE n = k
        BY <1>3, <1>7, <2>1
    <2>2. CASE n # k
        <3>1. outbox[n] = "pending" /\ n[1] # i /\ n[1] \in Intent
            BY <1>5, <2>2, Constants
        <3> QED BY <1>7, <3>1 DEF IInv, PendingIsLatest, IsHead
    <2> QED BY <2>1, <2>2
<1>20. PendingIsRetried'
    <2>1. \A n \in Key : Retried(n) => Retried(n)'
        <3>1. \A d \in Caller : caller[d].pc = "keep" => caller'[d] = caller[d] \/ faults' > 0
            BY <1>2
        <3> QED BY <1>2, <1>12, <3>1, RetriedStays
    <2>2. Retried(k)'
        <3>1. CASE v = 1
            BY <1>11, <3>1 DEF Retried, Replayed
        <3>2. CASE v = 2
            <4>1. caller'[c] = rec /\ rec.pc = "keep" /\ rec.key = k
                BY <1>1, <1>2, <3>2
            <4> QED BY <4>1 DEF Retried, At
        <3> QED BY <3>1, <3>2
    <2> QED BY <1>6, <2>1, <2>2 DEF IInv, PendingIsRetried, Retried
<1> QED BY <1>14, <1>15, <1>16, <1>17, <1>18, <1>19, <1>20 DEF IInv

(* A context shows every task in a version it has had.                     *)
LEMMA TasksAreTyped == ASSUME IInv PROVE Tasks \in [Task -> Nat \cup {None}]
<1> SUFFICES ASSUME NEW t \in Task PROVE Version(t) \in Nat
    BY DEF Tasks
<1>1. CASE t = Run
    BY <1>1 DEF IInv, TypeInv, Version, RunVersion
<1>2. CASE t # Run
    BY <1>2, Rows, Constants DEF Version, Task, PlanType
<1> QED BY <1>1, <1>2

LEMMA PrepareStep == ASSUME IInv, NEW c \in Caller, NEW m \in Message, Prepare(c, m) PROVE IInv'
<1>1. PICK rec : rec = [Idle EXCEPT !.pc = "resolve", !.msg = m]
    OBVIOUS
<1>2. rec \in CallerType /\ rec.pc = "resolve" /\ rec.msg = m
    BY <1>1 DEF CallerType, Idle, Places, Receipts
<1>3. caller' = [caller EXCEPT ![c] = rec] /\ caller[c].pc = "idle" /\ faults' = faults /\ faults \in Nat
    BY <1>1 DEF Prepare, At, IInv, TypeInv
<1>4. UNCHANGED <<head, request, message, outbox, receipt, delivery, plan, execution, effects, run>>
    BY DEF Prepare, intents, routes
<1>5. CASE context[m] # None /\ UNCHANGED context
    BY <1>2, <1>3, <1>4, <1>5, MoveStep DEF CallerOK
<1>6. CASE /\ context[m] = None
           /\ \E i \in Intent : /\ head[i] < MaxRevisions
                                /\ context' = [context EXCEPT ![m] =
                                       [intent |-> i, expected |-> head[i], tasks |-> Tasks, version |-> 1]]
    <2>1. PICK i \in Intent :
              context' = [context EXCEPT ![m] = [intent |-> i, expected |-> head[i], tasks |-> Tasks, version |-> 1]]
        BY <1>6
    <2>2. PICK x : x = [intent |-> i, expected |-> head[i], tasks |-> Tasks, version |-> 1]
        OBVIOUS
    <2>3. x \in Context /\ x.version = 1 /\ x # None
        BY <2>2, TasksAreTyped, Rows, Constants DEF Context
    <2>4. /\ context' \in [Message -> Context \cup {None}]
          /\ \A l \in Message : context'[l] = IF l = m THEN x ELSE context[l]
        BY <2>1, <2>2, <2>3 DEF IInv, TypeInv
    <2>5. Grows
        BY <1>4, <2>3, <2>4, Rows, Constants DEF Grows, Known, IInv, TypeInv
    <2>6. CallerOK(rec)'
        BY <1>2, <2>3, <2>4 DEF CallerOK
    <2>7. CallerInv' /\ caller' \in [Caller -> CallerType]
        BY <1>2, <1>3, <2>5, <2>6, CallersStep
    <2>8. PendingIsRetried'
        <3>1. \A d \in Caller : caller[d].pc = "keep" => caller'[d] = caller[d] \/ faults' > 0
            BY <1>3 DEF IInv, TypeInv
        <3>2. \A l \in Message : context[l] # None => context'[l] = context[l]
            BY <1>6, <2>4
        <3> QED BY <1>3, <1>4, <2>5, <3>1, <3>2, RetriedStays DEF IInv, PendingIsRetried, Retried
    <2>9. TypeInv' /\ PendingIsLatest'
        BY <1>3, <1>4, <2>4, <2>7 DEF IInv, TypeInv, PendingIsLatest, IsHead
    <2>10. MessageInv'
        BY <1>4, <2>3, <2>4 DEF IInv, MessageInv, Known
    <2>11. DeliveryInv' /\ PlanInv'
        BY <1>4 DEF IInv, Known, DeliveryInv, EndedIfCompleted, PlanInv
    <2> QED BY <2>7, <2>8, <2>9, <2>10, <2>11 DEF IInv
<1> QED BY <1>5, <1>6 DEF Prepare

(* What a message can be resolved to in a prepared context is a request.   *)
LEMMA ResolutionsAreTyped == ASSUME NEW x \in Context PROVE \A q \in Resolutions(x) : q \in Request /\ (q.route # "cancel" => q.task = None)
<1> SUFFICES ASSUME NEW q \in Resolutions(x) PROVE q \in Request /\ (q.route # "cancel" => q.task = None)
    OBVIOUS
<1>1. CASE \E r \in {"plan", "clarify"} : q = [route |-> r, task |-> None, bound |-> None, inherited |-> FALSE]
    BY <1>1 DEF Request
<1>2. CASE \E n \in BOOLEAN : q = [route |-> "direct_answer", task |-> None, bound |-> None, inherited |-> n]
    BY <1>2 DEF Request
<1>3. CASE \E t \in Task : q = [route |-> "cancel", task |-> t, bound |-> x.tasks[t], inherited |-> FALSE]
    BY <1>3 DEF Request, Context
<1> QED BY <1>1, <1>2, <1>3 DEF Resolutions

LEMMA ResolveStep == ASSUME IInv, NEW c \in Caller, Resolve(c) PROVE IInv'
<1> DEFINE m == caller[c].msg
           x == context[m]
           known == message[m][x.version]
<1>1. caller[c] \in CallerType /\ CallerOK(caller[c]) /\ caller[c].pc = "resolve" /\ caller \in [Caller -> CallerType] /\ faults \in Nat
    BY Rows DEF Resolve, At, IInv, TypeInv
<1>2. m \in Message /\ x # None /\ x \in Context /\ x.version \in 1..2 /\ x.intent \in Intent
    BY <1>1, Rows DEF CallerOK, Context
<1>3. UNCHANGED <<context, delivery, plan, execution, effects, run, faults>>
    BY DEF Resolve, routes
<1>4. CASE known # None /\ caller' = [caller EXCEPT ![c].pc = "dispatch", ![c].key = known] /\ UNCHANGED intents
    <2>1. PICK rec : rec = [caller[c] EXCEPT !.pc = "dispatch", !.key = known]
        OBVIOUS
    <2>2. caller' = [caller EXCEPT ![c] = rec]
        BY <1>1, <1>4, <2>1
    <2>3. known \in Key
        BY <1>2, <1>4, Rows
    <2>4. rec \in CallerType /\ rec.pc = "dispatch" /\ rec.msg = m /\ rec.key = known
        BY <1>1, <2>1, <2>3 DEF CallerType, Places
    <2>5. known = message[m][1] \/ known = message[m][2]
        BY <1>2
    <2>6. CallerOK(rec)
        BY <1>2, <2>3, <2>4, <2>5 DEF CallerOK
    <2>7. UNCHANGED <<head, request, message, outbox, receipt>>
        BY <1>4 DEF intents
    <2> QED BY <1>1, <1>3, <2>2, <2>4, <2>6, <2>7, MoveStep
<1>5. CASE /\ known = None /\ \E q \in Resolutions(x) : Commit(m, x.version, x.intent, q)
           /\ caller' = [caller EXCEPT ![c].pc = "dispatch", ![c].key = <<x.intent, head[x.intent] + 1>>]
    <2>1. PICK q \in Request : Commit(m, x.version, x.intent, q) /\ (q.route # "cancel" => q.task = None)
        BY <1>2, <1>5, ResolutionsAreTyped
    <2>2. x.version = 1
        BY <1>2, <1>5 DEF IInv, MessageInv
    <2>3. PICK rec : rec = [caller[c] EXCEPT !.pc = "dispatch", !.key = <<x.intent, head[x.intent] + 1>>]
        OBVIOUS
    <2>4. caller' = [caller EXCEPT ![c] = rec]
        BY <1>1, <1>5, <2>3
    <2>5. <<x.intent, head[x.intent] + 1>> \in Key
        BY SMTT(30), <1>2, <2>1, Rows, Constants DEF Commit, Key
    <2>6. rec \in CallerType /\ rec.pc = "dispatch" /\ rec.msg = m /\ rec.key = <<x.intent, head[x.intent] + 1>>
        BY <1>1, <2>3, <2>5 DEF CallerType, Places
    <2>7. message[m][1] = None /\ Commit(m, 1, x.intent, q) /\ 1 \in 1..2
        BY <1>5, <2>1, <2>2
    <2>8. /\ 1 = 1 => x.version = 1
          /\ 1 = 2 => message[m][1] \in Key /\ message[m][1] = <<x.intent, head[x.intent]>> /\ q.route = "plan"
          /\ rec.pc = IF 1 = 1 THEN "dispatch" ELSE "keep"
          /\ caller[c].pc # "keep"
        BY <1>1, <2>2, <2>6
    <2> HIDE DEF m, x, known
    <2> QED BY <1>2, <1>3, <2>1, <2>4, <2>6, <2>7, <2>8, CommitStep DEF x
<1>6. CASE Return(c) /\ UNCHANGED intents
    <2>1. UNCHANGED <<head, request, message, outbox, receipt>>
        BY <1>6 DEF intents
    <2> QED BY <1>1, <1>3, <1>6, <2>1, IdleIsTyped, MoveStep DEF Return
<1> QED BY <1>4, <1>5, <1>6 DEF Resolve, Replayed

(* A thread learns or writes what became of a revision, or works on a      *)
(* plan: no revision and no context changes, and nothing becomes pending.  *)
LEMMA OutcomeStep ==
    ASSUME IInv, NEW c \in Caller, NEW rec \in CallerType, caller' = [caller EXCEPT ![c] = rec], CallerOK(rec)',
           caller[c].pc # "keep", UNCHANGED <<head, request, message, context, faults>>,
           outbox' \in [Key -> {"none", "pending", "superseded", "accepted", "completed"}],
           \A k \in Key : outbox'[k] = "pending" => outbox[k] = "pending",
           receipt' \in [Key -> Receipts], delivery' \in [Key -> Receipts], effects' \in [Key -> Nat],
           plan' \in [Plan -> PlanType], execution' \in [Plan -> {"none", "open", "completed", "cancelled"}],
           run' \in {"running", "cancel_requested", "ended", "lost"}, run = "ended" => run' = "ended",
           \A p \in Plan : /\ execution[p] # "none" => execution'[p] # "none"
                           /\ execution[p] \in {"completed", "cancelled"} => execution'[p] \in {"completed", "cancelled"},
           DeliveryInv', PlanInv'
    PROVE  IInv'
<1>1. Grows
    BY Rows, Constants DEF Grows, Known
<1>2. CallerInv' /\ caller' \in [Caller -> CallerType]
    BY <1>1, CallersStep
<1>3. PendingIsRetried'
    <2>1. \A d \in Caller : caller[d].pc = "keep" => caller'[d] = caller[d] \/ faults' > 0
        BY DEF IInv, TypeInv
    <2>2. faults' \in Nat /\ faults' >= faults
        BY DEF IInv, TypeInv
    <2> QED BY <1>1, <2>1, <2>2, RetriedStays DEF IInv, PendingIsRetried, Retried
<1>4. TypeInv'
    BY <1>2 DEF IInv, TypeInv
<1>5. PendingIsLatest' /\ MessageInv'
    BY DEF IInv, PendingIsLatest, IsHead, MessageInv, Known
<1> QED BY <1>2, <1>3, <1>4, <1>5 DEF IInv

LEMMA LookupStep == ASSUME IInv, NEW c \in Caller, Lookup(c) PROVE IInv'
<1> DEFINE x == caller[c]
           k == caller[c].key
           r == LookedUp(k)
<1>1. x \in CallerType /\ CallerOK(x) /\ x.pc = "lookup" /\ caller \in [Caller -> CallerType] /\ faults \in Nat
    BY Rows DEF Lookup, At, IInv, TypeInv
<1>2. k \in Key /\ delivery \in [Key -> Receipts] /\ delivery[k] \in Receipts /\ EndedIfCompleted(k, delivery[k]) /\ EndedIfCompleted(k, x.saved)
    BY <1>1, InHand DEF IInv, TypeInv, DeliveryInv, CallerOK
<1>3. UNCHANGED <<head, request, message, context, outbox, receipt, plan, execution, effects, run>> /\ faults' = faults
    BY DEF Lookup, intents
<1>4. CASE /\ x.saved = "completed" /\ caller' = [caller EXCEPT ![c].pc = "save", ![c].got = "completed"]
           /\ UNCHANGED delivery
    <2>1. PICK rec : rec = [x EXCEPT !.pc = "save", !.got = "completed"]
        OBVIOUS
    <2>2. caller' = [caller EXCEPT ![c] = rec]
        BY <1>1, <1>4, <2>1
    <2>3. rec \in CallerType /\ rec.pc = "save" /\ rec.msg = x.msg /\ rec.key = k /\ rec.got = "completed"
        BY <1>1, <2>1 DEF CallerType, Places, Receipts
    <2>4. CallerOK(rec)
        BY <1>1, <1>2, <1>4, <2>3 DEF CallerOK
    <2> QED BY <1>1, <1>3, <1>4, <2>2, <2>3, <2>4, MoveStep
<1>5. CASE /\ delivery[k] # "none" /\ delivery' = [delivery EXCEPT ![k] = r]
           /\ caller' = [caller EXCEPT ![c].pc = "save", ![c].got = r]
    <2>1. r \in {"accepted", "completed"} /\ EndedIfCompleted(k, r)
        BY <1>2, <1>5 DEF LookedUp, EndedIfCompleted, Receipts
    <2>2. PICK rec : rec = [x EXCEPT !.pc = "save", !.got = r]
        OBVIOUS
    <2>3. caller' = [caller EXCEPT ![c] = rec]
        BY <1>1, <1>5, <2>2
    <2>4. rec \in CallerType /\ rec.pc = "save" /\ rec.msg = x.msg /\ rec.key = k /\ rec.got = r
        BY <1>1, <2>1, <2>2 DEF CallerType, Places, Receipts
    <2>5. CallerOK(rec)'
        BY <1>1, <1>3, <2>1, <2>4 DEF CallerOK, EndedIfCompleted
    <2>6. delivery' \in [Key -> Receipts] /\ \A n \in Key : delivery'[n] = IF n = k THEN r ELSE delivery[n]
        BY <1>2, <1>5, <2>1 DEF Receipts
    <2>7. DeliveryInv'
        <3>1. \A n \in Key : EndedIfCompleted(n, delivery[n])'
            BY <1>3, <2>1, <2>6 DEF IInv, DeliveryInv, EndedIfCompleted
        <3>2. \A n \in Key : delivery'[n] = "none" <=> delivery[n] = "none"
            BY <1>5, <2>1, <2>6
        <3> QED BY <1>3, <3>1, <3>2 DEF IInv, DeliveryInv, EndedIfCompleted, Known
    <2>8. PlanInv'
        BY <1>3 DEF IInv, PlanInv
    <2> HIDE DEF r, x
    <2>9. /\ outbox' \in [Key -> {"none", "pending", "superseded", "accepted", "completed"}]
          /\ receipt' \in [Key -> Receipts] /\ effects' \in [Key -> Nat] /\ plan' \in [Plan -> PlanType]
          /\ execution' \in [Plan -> {"none", "open", "completed", "cancelled"}]
          /\ run' \in {"running", "cancel_requested", "ended", "lost"}
        BY <1>3 DEF IInv, TypeInv
    <2> QED BY <1>1, <1>3, <2>3, <2>4, <2>5, <2>6, <2>7, <2>8, <2>9, OutcomeStep DEF x
<1>6. CASE Step(c, "submit") /\ UNCHANGED delivery
    <2>1. PICK rec : rec = [x EXCEPT !.pc = "submit"]
        OBVIOUS
    <2>2. caller' = [caller EXCEPT ![c] = rec]
        BY <1>1, <1>6, <2>1 DEF Step
    <2>3. rec \in CallerType /\ rec.pc = "submit" /\ rec.msg = x.msg /\ rec.key = k /\ rec.saved = x.saved
        BY <1>1, <2>1 DEF CallerType, Places
    <2>4. CallerOK(rec)
        BY <1>1, <1>2, <2>3 DEF CallerOK
    <2> QED BY <1>1, <1>3, <1>6, <2>2, <2>3, <2>4, MoveStep
<1> QED BY <1>4, <1>5, <1>6 DEF Lookup

(* An acceptance does its work once: on a revision that has no delivery    *)
(* yet, and on a target that is as the revision saw it.                    *)
LEMMA EffectStep ==
    ASSUME IInv, NEW k \in Key, request[k] \in Request, request[k] # None, Known(k), Authorized(k, "none"),
           delivery[k] = "none", Effect(k), UNCHANGED <<head, request, outbox, receipt, execution>>
    PROVE  /\ DeliveryInv' /\ PlanInv' /\ delivery' \in [Key -> Receipts] /\ effects' \in [Key -> Nat]
           /\ plan' \in [Plan -> PlanType] /\ run' \in {"running", "cancel_requested", "ended", "lost"}
           /\ run = "ended" => run' = "ended"
           /\ delivery'[k] # "none" /\ EndedIfCompleted(k, delivery[k])'
<1> DEFINE q == request[k]
<1>1. /\ delivery \in [Key -> Receipts] /\ effects \in [Key -> Nat] /\ plan \in [Plan -> PlanType]
      /\ run \in {"running", "cancel_requested", "ended", "lost"}
    BY DEF IInv, TypeInv
<1>2. /\ delivery' \in [Key -> Receipts] /\ delivery'[k] = IF q.task = Run /\ run # "ended" THEN "accepted" ELSE "completed"
      /\ \A n \in Key \ {k} : delivery'[n] = delivery[n]
    BY <1>1 DEF Effect, Receipts
<1>3. run' \in {"running", "cancel_requested", "ended", "lost"} /\ (run = "ended" => run' = "ended")
    BY <1>1 DEF Effect
<1>4. effects' \in [Key -> Nat] /\ effects'[k] = effects[k] + 1 /\ \A n \in Key \ {k} : effects'[n] = effects[n]
    BY <1>1 DEF Effect
<1>5. delivery'[k] # "none" /\ EndedIfCompleted(k, delivery[k])'
    BY <1>2, <1>3 DEF EndedIfCompleted
<1>6. /\ plan' \in [Plan -> PlanType]
      /\ \A p \in Plan : \/ plan'[p] = plan[p]
                         \/ p = k /\ plan'[p].status = "draft" /\ plan'[p].version = 1
                         \/ /\ plan[p].status \notin {"absent", "cancelled"}
                            /\ plan'[p].status = "cancelled" /\ plan'[p].version = plan[p].version + 1
    <2>1. CASE q.route = "plan"
        BY <1>1, <2>1, Constants DEF Effect, PlanType
    <2>2. CASE q.route # "plan" /\ q.task \in Plan /\ plan[q.task].status # "cancelled"
        <3>1. q.route = "cancel" /\ q.task # Run
            BY <2>2, Constants DEF IInv, MessageInv
        <3>2. plan[q.task].version > 0
            BY <3>1 DEF Authorized, Listed
        <3>3. plan[q.task].status \notin {"absent", "cancelled"} /\ plan[q.task].version \in 1..3
            BY <2>2, <3>2 DEF IInv, PlanInv
        <3>4. plan' = [plan EXCEPT ![q.task] = [status |-> "cancelled", version |-> plan[q.task].version + 1]]
            BY <2>2 DEF Effect
        <3> HIDE DEF q
        <3>5. [status |-> "cancelled", version |-> plan[q.task].version + 1] \in PlanType
            BY <3>3 DEF PlanType
        <3> QED BY <1>1, <2>2, <3>3, <3>4, <3>5
    <2>3. CASE q.route # "plan" /\ ~(q.task \in Plan /\ plan[q.task].status # "cancelled")
        BY <1>1, <2>3 DEF Effect
    <2> QED BY <2>1, <2>2, <2>3
<1>7. DeliveryInv'
    <2>1. \A n \in Key : outbox'[n] # "none" \/ receipt'[n] # "none" \/ delivery'[n] # "none" => n[2] <= head'[n[1]]
        BY <1>2 DEF IInv, DeliveryInv, Known
    <2>2. \A n \in Key : EndedIfCompleted(n, receipt[n])' /\ EndedIfCompleted(n, delivery[n])'
        BY <1>2, <1>3, <1>5 DEF IInv, DeliveryInv, EndedIfCompleted
    <2>3. \A n \in Key : effects'[n] = IF delivery'[n] = "none" THEN 0 ELSE 1
        BY <1>2, <1>4, <1>5 DEF IInv, DeliveryInv
    <2>4. \A n \in Key : plan'[n].status # "absent" => delivery'[n] # "none"
        BY <1>2, <1>5, <1>6, Constants DEF IInv, DeliveryInv
    <2> QED BY <2>1, <2>2, <2>3, <2>4 DEF IInv, DeliveryInv, Known
<1>8. PlanInv'
    <2>1. plan[k].status = "absent" /\ execution[k] = "none"
        BY Constants DEF IInv, DeliveryInv, PlanInv
    <2> SUFFICES ASSUME NEW p \in Plan
                 PROVE  \/ plan'[p].status = "absent" /\ plan'[p].version = 0 /\ execution'[p] = "none"
                        \/ plan'[p].status = "draft" /\ plan'[p].version = 1 /\ execution'[p] = "none"
                        \/ plan'[p].status = "executing" /\ plan'[p].version = 2 /\ execution'[p] \in {"open", "completed"}
                        \/ plan'[p].status = "completed" /\ plan'[p].version = 3 /\ execution'[p] = "completed"
                        \/ plan'[p].status = "cancelled" /\ plan'[p].version \in 2..4
        BY DEF PlanInv
    <2>2. CASE plan'[p] = plan[p]
        BY <2>2 DEF IInv, PlanInv
    <2>3. CASE p = k /\ plan'[p].status = "draft" /\ plan'[p].version = 1
        BY <2>1, <2>3
    <2>4. CASE /\ plan[p].status \notin {"absent", "cancelled"}
               /\ plan'[p].status = "cancelled" /\ plan'[p].version = plan[p].version + 1
        BY <2>4 DEF IInv, PlanInv
    <2> QED BY <1>6, <2>2, <2>3, <2>4
<1> QED BY <1>2, <1>3, <1>4, <1>5, <1>6, <1>7, <1>8

LEMMA AcceptStep == ASSUME IInv, NEW c \in Caller, Accept(c) PROVE IInv'
<1> DEFINE x == caller[c]
<1> PICK k : k = caller[c].key
    OBVIOUS
<1>1. x \in CallerType /\ CallerOK(x) /\ x.pc = "submit" /\ caller \in [Caller -> CallerType] /\ faults \in Nat
    BY Rows DEF Accept, At, IInv, TypeInv
<1>2. k \in Key /\ Known(k) /\ request[k] # None /\ request[k] \in Request /\ EndedIfCompleted(k, delivery[k]) /\ delivery[k] \in Receipts
    BY <1>1, InHand DEF IInv, TypeInv, DeliveryInv
<1>3. UNCHANGED <<head, request, message, context, outbox, receipt, execution>> /\ faults' = faults
    BY DEF Accept, intents
<1>4. CASE /\ Authorized(k, "none") /\ delivery[k] = "none" /\ Effect(k)
           /\ caller' = [caller EXCEPT ![c].pc = "save", ![c].got = delivery'[k]]
    <2>1. /\ DeliveryInv' /\ PlanInv' /\ delivery' \in [Key -> Receipts] /\ effects' \in [Key -> Nat]
          /\ plan' \in [Plan -> PlanType] /\ run' \in {"running", "cancel_requested", "ended", "lost"}
          /\ run = "ended" => run' = "ended"
          /\ delivery'[k] # "none" /\ EndedIfCompleted(k, delivery[k])'
        <3>1. UNCHANGED <<head, request, outbox, receipt, execution>>
            BY <1>3
        <3> QED BY <1>2, <1>4, <3>1, EffectStep
    <2>2. PICK rec : rec = [x EXCEPT !.pc = "save", !.got = delivery'[k]]
        OBVIOUS
    <2>3. caller' = [caller EXCEPT ![c] = rec]
        BY <1>1, <1>4, <2>2
    <2>4. rec \in CallerType /\ rec.pc = "save" /\ rec.msg = x.msg /\ rec.key = k /\ rec.got = delivery'[k]
        BY <1>1, <1>2, <2>1, <2>2 DEF CallerType, Places
    <2>5. CallerOK(rec)'
        <3>1. x.msg \in Message /\ context[x.msg] # None /\ (k = message[x.msg][1] \/ k = message[x.msg][2])
            BY <1>1, InHand
        <3>2. rec.got # "none" /\ EndedIfCompleted(rec.key, rec.got)'
            BY <2>1, <2>4 DEF EndedIfCompleted
        <3> QED BY <1>2, <1>3, <2>4, <3>1, <3>2 DEF CallerOK
    <2>6. /\ outbox' \in [Key -> {"none", "pending", "superseded", "accepted", "completed"}]
          /\ receipt' \in [Key -> Receipts]
          /\ execution' \in [Plan -> {"none", "open", "completed", "cancelled"}]
        BY <1>3 DEF IInv, TypeInv
    <2> HIDE DEF x
    <2> QED BY <1>1, <1>3, <2>1, <2>3, <2>4, <2>5, <2>6, OutcomeStep DEF x
<1>5. CASE /\ delivery[k] # "none" /\ caller' = [caller EXCEPT ![c].pc = "save", ![c].got = delivery[k]]
           /\ UNCHANGED <<plan, run, delivery, effects>>
    <2>1. PICK rec : rec = [x EXCEPT !.pc = "save", !.got = delivery[k]]
        OBVIOUS
    <2>2. caller' = [caller EXCEPT ![c] = rec]
        BY <1>1, <1>5, <2>1
    <2>3. rec \in CallerType /\ rec.pc = "save" /\ rec.msg = x.msg /\ rec.key = k /\ rec.got = delivery[k]
        BY <1>1, <1>2, <2>1 DEF CallerType, Places
    <2>4. CallerOK(rec)
        BY <1>1, <1>2, <1>5, <2>3 DEF CallerOK
    <2> QED BY <1>1, <1>3, <1>5, <2>2, <2>3, <2>4, MoveStep
<1>6. CASE Return(c) /\ UNCHANGED <<plan, run, delivery, effects>>
    BY <1>1, <1>3, <1>6, IdleIsTyped, MoveStep DEF Return
<1> QED BY <1>4, <1>5, <1>6 DEF Accept

LEMMA SaveReceiptStep == ASSUME IInv, NEW c \in Caller, SaveReceipt(c) PROVE IInv'
<1> PICK x : x = caller[c]
    OBVIOUS
<1> PICK k : k = x.key
    OBVIOUS
<1>1. x \in CallerType /\ CallerOK(x) /\ x.pc = "save" /\ caller \in [Caller -> CallerType] /\ faults \in Nat
    BY Rows DEF SaveReceipt, At, IInv, TypeInv
<1>2. k \in Key /\ Known(k) /\ x.got \in {"accepted", "completed"} /\ EndedIfCompleted(k, x.got)
    BY <1>1, InHand DEF CallerOK, CallerType, Receipts
<1>3. UNCHANGED <<head, request, message, context, delivery, plan, execution, effects, run, faults>>
    BY DEF SaveReceipt, routes
<1>4. caller' = [caller EXCEPT ![c] = Idle]
    BY DEF SaveReceipt, Return
<1>5. CASE /\ receipt[k] \in {"none", "accepted"} /\ receipt' = [receipt EXCEPT ![k] = x.got]
           /\ outbox' = IF outbox[k] = "superseded" THEN outbox ELSE [outbox EXCEPT ![k] = x.got]
    <2>1. /\ receipt \in [Key -> Receipts]
          /\ outbox \in [Key -> {"none", "pending", "superseded", "accepted", "completed"}]
        BY DEF IInv, TypeInv
    <2>2. receipt' \in [Key -> Receipts] /\ \A n \in Key : receipt'[n] = IF n = k THEN x.got ELSE receipt[n]
        BY <1>2, <1>5, <2>1 DEF Receipts
    <2>3. /\ outbox' \in [Key -> {"none", "pending", "superseded", "accepted", "completed"}]
          /\ \A n \in Key : outbox'[n] = outbox[n] \/ (n = k /\ outbox'[n] = x.got)
        BY <1>2, <1>5, <2>1
    <2>4. \A n \in Key : outbox'[n] = "pending" => outbox[n] = "pending"
        BY <1>2, <2>3
    <2>5. DeliveryInv'
        <3>1. \A n \in Key : EndedIfCompleted(n, receipt[n])' /\ EndedIfCompleted(n, delivery[n])'
            BY <1>2, <1>3, <2>2 DEF IInv, DeliveryInv, EndedIfCompleted
        <3>2. \A n \in Key : outbox'[n] # "none" \/ receipt'[n] # "none" \/ delivery'[n] # "none" => n[2] <= head'[n[1]]
            BY <1>2, <1>3, <2>2, <2>3 DEF IInv, DeliveryInv, Known
        <3>3. \A n \in Key : outbox'[n] = "completed" => receipt'[n] = "completed"
            BY <1>5, <2>2, <2>3 DEF IInv, DeliveryInv
        <3> QED BY <1>3, <3>1, <3>2, <3>3 DEF IInv, DeliveryInv, Known
    <2>6. PlanInv' /\ CallerOK(Idle)'
        BY <1>3 DEF IInv, PlanInv, CallerOK, Idle
    <2>7. /\ delivery' \in [Key -> Receipts] /\ effects' \in [Key -> Nat] /\ plan' \in [Plan -> PlanType]
          /\ execution' \in [Plan -> {"none", "open", "completed", "cancelled"}]
          /\ run' \in {"running", "cancel_requested", "ended", "lost"}
        BY <1>3 DEF IInv, TypeInv
    <2>8. caller[c].pc # "keep"
        BY <1>1
    <2> QED BY <1>3, <1>4, <2>2, <2>3, <2>4, <2>5, <2>6, <2>7, <2>8, IdleIsTyped, OutcomeStep
<1>6. CASE UNCHANGED <<receipt, outbox>>
    <2>1. caller[c].pc # "keep"
        BY <1>1
    <2> QED BY <1>3, <1>4, <1>6, <2>1, IdleIsTyped, MoveStep
<1> QED BY <1>5, <1>6 DEF SaveReceipt

LEMMA RerouteStep == ASSUME IInv, NEW c \in Caller, Reroute(c) PROVE IInv'
<1> PICK x : x = caller[c]
    OBVIOUS
<1> PICK m : m = x.msg
    OBVIOUS
<1> PICK k : k = x.key
    OBVIOUS
<1>1. x \in CallerType /\ CallerOK(x) /\ x.pc = "evidence" /\ caller \in [Caller -> CallerType] /\ faults \in Nat
    BY Rows DEF Reroute, At, IInv, TypeInv
<1>2. /\ k \in Key /\ m \in Message /\ request[k] \in Request /\ context[m] # None /\ context[m] \in Context
      /\ k = message[m][1] /\ request[k] # None /\ request[k].route = "direct_answer"
    BY <1>1, InHand DEF CallerOK
<1>3. UNCHANGED <<context, delivery, plan, execution, effects, run, faults>>
    BY DEF Reroute, routes
<1>4. CASE /\ message[m][2] = None /\ IsHead(k) /\ Commit(m, 2, k[1], [request[k] EXCEPT !.route = "plan"])
           /\ caller' = [caller EXCEPT ![c].pc = "keep", ![c].key = <<k[1], k[2] + 1>>]
    <2>1. PICK q : q = [request[k] EXCEPT !.route = "plan"]
        OBVIOUS
    <2>2. q \in Request /\ q.route = "plan" /\ q.task = None
        BY <1>2, <2>1 DEF Request, IInv, MessageInv
    <2>3. PICK i : i = k[1]
        OBVIOUS
    <2>4. i \in Intent /\ k = <<i, head[i]>> /\ k[2] = head[i] /\ head[i] < MaxRevisions
        BY <1>2, <1>4, <2>3, Constants DEF IsHead, Commit
    <2>5. PICK rec : rec = [x EXCEPT !.pc = "keep", !.key = <<i, head[i] + 1>>]
        OBVIOUS
    <2>6. caller' = [caller EXCEPT ![c] = rec]
        BY <1>1, <1>4, <2>3, <2>4, <2>5
    <2>7. <<i, head[i] + 1>> \in Key
        BY <2>4, Rows, Constants DEF Key
    <2>8. rec \in CallerType /\ rec.pc = "keep" /\ rec.msg = m /\ rec.key = <<i, head[i] + 1>>
        BY <1>1, <2>5, <2>7 DEF CallerType, Places
    <2>9. Commit(m, 2, i, q) /\ message[m][2] = None /\ 2 \in 1..2
        BY <1>4, <2>1, <2>3
    <2>10. /\ 2 = 1 => context[m].version = 1
           /\ 2 = 2 => message[m][1] \in Key /\ message[m][1] = <<i, head[i]>> /\ q.route = "plan"
           /\ rec.pc = IF 2 = 1 THEN "dispatch" ELSE "keep"
           /\ caller[c].pc # "keep" /\ (q.route # "cancel" => q.task = None)
        BY <1>1, <1>2, <2>2, <2>4, <2>8
    <2> QED BY <1>2, <1>3, <2>2, <2>4, <2>6, <2>8, <2>9, <2>10, CommitStep
<1>5. CASE /\ message[m][2] # None /\ UNCHANGED intents
           /\ caller' = [caller EXCEPT ![c].pc = "keep", ![c].key = message[m][2]]
    <2>1. PICK rec : rec = [x EXCEPT !.pc = "keep", !.key = message[m][2]]
        OBVIOUS
    <2>2. caller' = [caller EXCEPT ![c] = rec]
        BY <1>1, <1>5, <2>1
    <2>3. message[m][2] \in Key
        BY <1>2, <1>5, Rows
    <2>4. rec \in CallerType /\ rec.pc = "keep" /\ rec.msg = m /\ rec.key = message[m][2]
        BY <1>1, <2>1, <2>3 DEF CallerType, Places
    <2>5. CallerOK(rec) /\ caller[c].pc # "keep"
        BY <1>1, <1>2, <2>3, <2>4 DEF CallerOK
    <2>6. UNCHANGED <<head, request, message, outbox, receipt>>
        BY <1>5 DEF intents
    <2> QED BY <1>3, <2>2, <2>4, <2>5, <2>6, MoveStep
<1>6. CASE Return(c) /\ UNCHANGED intents
    <2>1. UNCHANGED <<head, request, message, outbox, receipt>> /\ caller[c].pc # "keep"
        BY <1>1, <1>6 DEF intents
    <2> QED BY <1>3, <1>6, <2>1, IdleIsTyped, MoveStep DEF Return
<1> QED BY <1>4, <1>5, <1>6 DEF Reroute

(* From here on the message, sent again, asks for its second revision.     *)
(* The first cannot be waiting any more.                                   *)
LEMMA KeepContextStep == ASSUME IInv, NEW c \in Caller, KeepContext(c) PROVE IInv'
<1> PICK x : x = caller[c]
    OBVIOUS
<1> PICK m : m = x.msg
    OBVIOUS
<1>1. x \in CallerType /\ CallerOK(x) /\ x.pc = "keep" /\ caller \in [Caller -> CallerType] /\ faults \in Nat
    BY Rows DEF KeepContext, At, IInv, TypeInv
<1>2. /\ m \in Message /\ context[m] # None /\ context[m] \in Context /\ x.key \in Key
      /\ x.key = message[m][2] /\ message[m][2] # None
    BY <1>1, InHand, Constants DEF CallerOK
<1>3. UNCHANGED <<head, request, message, outbox, receipt, delivery, plan, execution, effects, run, faults>>
    BY DEF KeepContext, intents, routes
<1>4. PICK rec : rec = [x EXCEPT !.pc = "dispatch"]
    OBVIOUS
<1>5. caller' = [caller EXCEPT ![c] = rec]
    BY <1>1, <1>4 DEF KeepContext, Step
<1>6. rec \in CallerType /\ rec.pc = "dispatch" /\ rec.msg = m /\ rec.key = x.key
    BY <1>1, <1>4 DEF CallerType, Places
<1>7. PICK y : y = [context[m] EXCEPT !.version = 2]
    OBVIOUS
<1>8. y \in Context /\ y.version = 2 /\ y # None
    BY <1>2, <1>7, Constants DEF Context
<1>9. context' = [context EXCEPT ![m] = y] /\ context \in [Message -> Context \cup {None}]
    BY <1>7 DEF KeepContext, IInv, TypeInv
<1>10. context' \in [Message -> Context \cup {None}] /\ \A l \in Message : context'[l] = IF l = m THEN y ELSE context[l]
    BY <1>8, <1>9
<1>11. Grows
    BY <1>3, <1>8, <1>10, Rows, Constants DEF Grows, Known, IInv, TypeInv
<1>12. CallerOK(rec)'
    BY <1>2, <1>3, <1>6, <1>8, <1>10 DEF CallerOK
<1>13. CallerInv' /\ caller' \in [Caller -> CallerType]
    BY <1>5, <1>6, <1>11, <1>12, CallersStep
<1>14. TypeInv' /\ PendingIsLatest'
    BY <1>3, <1>10, <1>13 DEF IInv, TypeInv, PendingIsLatest, IsHead
<1>15. MessageInv'
    BY <1>2, <1>3, <1>10 DEF IInv, MessageInv, Known
<1>16. DeliveryInv' /\ PlanInv'
    BY <1>3 DEF IInv, Known, DeliveryInv, EndedIfCompleted, PlanInv
<1>17. PendingIsRetried'
    <2> SUFFICES ASSUME NEW n \in Key, outbox[n] = "pending"
                 PROVE  \/ \E l \in Message : context'[l] # None /\ message[l][context'[l].version] = n
                        \/ \E l \in Message : message[l][2] = n /\ faults > 0
                        \/ \E d \in Caller : caller'[d].pc = "keep" /\ caller'[d].key = n
        BY <1>3 DEF PendingIsRetried, Replayed, At
    <2>1. head[n[1]] = n[2] /\ Retried(n)
        BY DEF IInv, PendingIsLatest, PendingIsRetried, Retried, IsHead
    <2>2. CASE \E l \in Message : context[l] # None /\ Replayed(l, context[l]) = n
        <3>1. PICK l \in Message : context[l] # None /\ message[l][context[l].version] = n
            BY <2>2 DEF Replayed
        <3>2. CASE l # m
            BY <1>10, <3>1, <3>2
        <3>3. CASE l = m /\ n = message[m][2]
            BY <1>8, <1>10, <1>2, <3>3
        <3>4. CASE l = m /\ n # message[m][2]
            <4>1. n = message[m][1]
                BY <1>2, <3>1, <3>4 DEF Context
            <4>2. /\ n[1] = message[m][2][1] /\ n[2] < message[m][2][2]
                  /\ message[m][2][2] <= head[message[m][2][1]]
                BY <1>2, <4>1 DEF IInv, MessageInv, Known
            <4>3. n[2] \in Nat /\ message[m][2][2] \in Nat /\ head[n[1]] \in Nat
                BY <1>2, <2>1, Constants
            <4> QED BY <2>1, <4>2, <4>3
        <3> QED BY <3>2, <3>3, <3>4
    <2>3. CASE \E l \in Message : message[l][2] = n /\ faults > 0
        BY <2>3
    <2>4. CASE \E d \in Caller : At(d, "keep") /\ caller[d].key = n
        <3>1. PICK d \in Caller : caller[d].pc = "keep" /\ caller[d].key = n
            BY <2>4 DEF At
        <3>2. CASE d = c
            BY <1>2, <1>8, <1>10, <3>1, <3>2
        <3>3. CASE d # c
            BY <1>1, <1>5, <3>1, <3>3
        <3> QED BY <3>2, <3>3
    <2> QED BY <2>1, <2>2, <2>3, <2>4 DEF Retried
<1> QED BY <1>13, <1>14, <1>15, <1>16, <1>17 DEF IInv
-----------------------------------------------------------------------------
(* Runs of plans, failures and the inductive invariant                     *)

LEMMA ClaimExecutionStep == ASSUME IInv, NEW c \in Caller, NEW p \in Plan, ClaimExecution(c, p) PROVE IInv'
<1>1. PICK rec : rec = [Idle EXCEPT !.pc = "execute", !.key = p]
    OBVIOUS
<1>2. rec \in CallerType /\ rec.pc = "execute" /\ rec.key = p
    BY <1>1, Constants DEF CallerType, Idle, Places, Receipts
<1>3. caller' = [caller EXCEPT ![c] = rec] /\ caller[c].pc # "keep"
    BY <1>1 DEF ClaimExecution, At
<1>4. UNCHANGED <<head, request, message, context, outbox, receipt, delivery, effects, run, faults>> /\ faults \in Nat
    BY DEF ClaimExecution, intents, IInv, TypeInv
<1>5. CASE /\ execution[p] = "none" /\ plan[p].status = "draft" /\ execution' = [execution EXCEPT ![p] = "open"]
           /\ plan' = [plan EXCEPT ![p].status = "executing", ![p].version = @ + 1]
    <2>1. plan \in [Plan -> PlanType] /\ execution \in [Plan -> {"none", "open", "completed", "cancelled"}]
        BY DEF IInv, TypeInv
    <2>2. plan[p].version = 1
        BY <1>5 DEF IInv, PlanInv
    <2>3. PICK row : row = [plan[p] EXCEPT !.status = "executing", !.version = @ + 1]
        OBVIOUS
    <2>4. row \in PlanType /\ row.status = "executing" /\ row.version = 2
        <3>1. plan[p] \in PlanType
            BY <2>1
        <3>2. row = [plan[p] EXCEPT !.status = "executing", !.version = 2]
            BY <2>2, <2>3
        <3>3. 2 \in 0..4
            OBVIOUS
        <3>4. row \in PlanType /\ row.status = "executing" /\ row.version = 2
            BY <3>1, <3>2, <3>3 DEF PlanType
        <3> QED BY <3>4
    <2>5. plan' = [plan EXCEPT ![p] = row]
        BY <1>5, <2>1, <2>3
    <2>6. plan' \in [Plan -> PlanType] /\ \A r \in Plan : plan'[r] = IF r = p THEN row ELSE plan[r]
        BY <2>1, <2>4, <2>5
    <2>7. /\ execution' \in [Plan -> {"none", "open", "completed", "cancelled"}]
          /\ \A r \in Plan : execution'[r] = IF r = p THEN "open" ELSE execution[r]
        BY <1>5, <2>1
    <2>8. PlanInv'
        BY <2>4, <2>6, <2>7 DEF IInv, PlanInv
    <2>9. DeliveryInv'
        BY <1>4, <1>5, <2>6, Constants DEF IInv, DeliveryInv, EndedIfCompleted, Known
    <2>10. CallerOK(rec)'
        BY <1>2, <2>7 DEF CallerOK
    <2>11. \A r \in Plan : /\ execution[r] # "none" => execution'[r] # "none"
                           /\ execution[r] \in {"completed", "cancelled"} => execution'[r] \in {"completed", "cancelled"}
        BY <1>5, <2>7
    <2>12. /\ outbox' \in [Key -> {"none", "pending", "superseded", "accepted", "completed"}]
           /\ receipt' \in [Key -> Receipts] /\ delivery' \in [Key -> Receipts] /\ effects' \in [Key -> Nat]
           /\ run' \in {"running", "cancel_requested", "ended", "lost"}
        BY <1>4 DEF IInv, TypeInv
    <2> QED BY <1>2, <1>3, <1>4, <2>6, <2>7, <2>8, <2>9, <2>10, <2>11, <2>12, OutcomeStep
<1>6. CASE execution[p] # "none" /\ UNCHANGED <<execution, plan>>
    <2>1. CallerOK(rec)
        BY <1>2, <1>6 DEF CallerOK
    <2>2. caller[c].pc # "keep" /\ faults' = faults
        BY <1>3, <1>4
    <2> QED BY <1>2, <1>3, <1>4, <1>6, <2>1, <2>2, MoveStep
<1> QED BY <1>5, <1>6 DEF ClaimExecution

LEMMA ExecutePlanStep == ASSUME IInv, NEW c \in Caller, ExecutePlan(c) PROVE IInv'
<1> PICK x : x = caller[c]
    OBVIOUS
<1> PICK p : p = x.key
    OBVIOUS
<1>1. x \in CallerType /\ CallerOK(x) /\ x.pc = "execute" /\ caller \in [Caller -> CallerType] /\ faults \in Nat
    BY Rows DEF ExecutePlan, At, IInv, TypeInv
<1>2. p \in Plan /\ execution[p] # "none" /\ execution \in [Plan -> {"none", "open", "completed", "cancelled"}]
    BY <1>1 DEF CallerOK, IInv, TypeInv
<1>3. UNCHANGED <<head, request, message, context, outbox, receipt, delivery, plan, effects, run, faults>>
    BY DEF ExecutePlan, intents
<1>4. /\ execution' \in [Plan -> {"none", "open", "completed", "cancelled"}]
      /\ \A r \in Plan \ {p} : execution'[r] = execution[r]
      /\ \/ execution[p] # "open" /\ execution'[p] = execution[p]
         \/ execution[p] = "open" /\ execution'[p] = "completed"
         \/ execution[p] = "open" /\ execution'[p] = "cancelled" /\ plan[p].status = "cancelled"
    BY <1>2 DEF ExecutePlan
<1>5. PICK rec : rec = [x EXCEPT !.pc = "report"]
    OBVIOUS
<1>6. caller' = [caller EXCEPT ![c] = rec] /\ caller[c].pc # "keep"
    BY <1>1, <1>5 DEF ExecutePlan, Step
<1>7. rec \in CallerType /\ rec.pc = "report" /\ rec.key = p
    BY <1>1, <1>5 DEF CallerType, Places
<1>8. CallerOK(rec)'
    BY <1>2, <1>4, <1>7 DEF CallerOK
<1>9. PlanInv'
    <2> SUFFICES ASSUME NEW r \in Plan
                 PROVE  \/ plan[r].status = "absent" /\ plan[r].version = 0 /\ execution'[r] = "none"
                        \/ plan[r].status = "draft" /\ plan[r].version = 1 /\ execution'[r] = "none"
                        \/ plan[r].status = "executing" /\ plan[r].version = 2 /\ execution'[r] \in {"open", "completed"}
                        \/ plan[r].status = "completed" /\ plan[r].version = 3 /\ execution'[r] = "completed"
                        \/ plan[r].status = "cancelled" /\ plan[r].version \in 2..4
        BY <1>3 DEF PlanInv
    <2> QED BY <1>2, <1>4 DEF IInv, PlanInv
<1>10. DeliveryInv'
    BY <1>3 DEF IInv, DeliveryInv, EndedIfCompleted, Known
<1>11. \A r \in Plan : /\ execution[r] # "none" => execution'[r] # "none"
                       /\ execution[r] \in {"completed", "cancelled"} => execution'[r] \in {"completed", "cancelled"}
    BY <1>2, <1>4
<1>12. /\ outbox' \in [Key -> {"none", "pending", "superseded", "accepted", "completed"}]
       /\ receipt' \in [Key -> Receipts] /\ delivery' \in [Key -> Receipts] /\ effects' \in [Key -> Nat]
       /\ plan' \in [Plan -> PlanType] /\ run' \in {"running", "cancel_requested", "ended", "lost"}
    BY <1>3 DEF IInv, TypeInv
<1> QED BY <1>3, <1>4, <1>6, <1>7, <1>8, <1>9, <1>10, <1>11, <1>12, OutcomeStep

LEMMA ReportStep == ASSUME IInv, NEW c \in Caller, Report(c) PROVE IInv'
<1> PICK x : x = caller[c]
    OBVIOUS
<1> PICK p : p = x.key
    OBVIOUS
<1>1. x \in CallerType /\ CallerOK(x) /\ x.pc = "report" /\ caller[c].pc # "keep"
    BY Rows DEF Report, At, IInv, TypeInv
<1>2. p \in Plan /\ execution[p] \in {"completed", "cancelled"} /\ plan \in [Plan -> PlanType]
    BY <1>1 DEF CallerOK, IInv, TypeInv
<1>3. UNCHANGED <<head, request, message, context, outbox, receipt, delivery, execution, effects, run, faults>>
    BY DEF Report, intents
<1>4. caller' = [caller EXCEPT ![c] = Idle] /\ CallerOK(Idle)'
    BY DEF Report, Return, Idle, CallerOK
<1>5. PICK row : row = IF plan[p].status \in {execution[p], "cancelled"} THEN plan[p]
                       ELSE [plan[p] EXCEPT !.status = execution[p], !.version = @ + 1]
    OBVIOUS
<1>6. row = plan[p] \/ (plan[p].status = "executing" /\ row.status = "completed" /\ row.version = 3 /\ row \in PlanType)
    <2>1. CASE plan[p].status \in {execution[p], "cancelled"}
        BY <1>5, <2>1
    <2>2. CASE plan[p].status \notin {execution[p], "cancelled"}
        <3>1. plan[p].status = "executing" /\ plan[p].version = 2 /\ execution[p] = "completed" /\ plan[p] \in PlanType
            BY <1>2, <2>2 DEF IInv, PlanInv
        <3>2. row = [plan[p] EXCEPT !.status = "completed", !.version = 3]
            BY <1>5, <2>2, <3>1
        <3>3. 3 \in 0..4
            OBVIOUS
        <3>4. row \in PlanType /\ row.status = "completed" /\ row.version = 3
            BY <3>1, <3>2, <3>3 DEF PlanType
        <3> QED BY <3>1, <3>4
    <2> QED BY <2>1, <2>2
<1>7. plan' = [plan EXCEPT ![p] = row]
    BY <1>2, <1>5 DEF Report
<1>8. plan' \in [Plan -> PlanType] /\ \A r \in Plan : plan'[r] = IF r = p THEN row ELSE plan[r]
    BY <1>2, <1>6, <1>7
<1>9. PlanInv'
    <2> SUFFICES ASSUME NEW r \in Plan
                 PROVE  \/ plan'[r].status = "absent" /\ plan'[r].version = 0 /\ execution[r] = "none"
                        \/ plan'[r].status = "draft" /\ plan'[r].version = 1 /\ execution[r] = "none"
                        \/ plan'[r].status = "executing" /\ plan'[r].version = 2 /\ execution[r] \in {"open", "completed"}
                        \/ plan'[r].status = "completed" /\ plan'[r].version = 3 /\ execution[r] = "completed"
                        \/ plan'[r].status = "cancelled" /\ plan'[r].version \in 2..4
        BY <1>3 DEF PlanInv
    <2>1. CASE plan'[r] = plan[r]
        BY <2>1 DEF IInv, PlanInv
    <2>2. CASE r = p /\ plan[p].status = "executing" /\ row.status = "completed" /\ row.version = 3
        BY <1>2, <1>8, <2>2 DEF IInv, PlanInv
    <2> QED BY <1>6, <1>8, <2>1, <2>2
<1>10. DeliveryInv'
    <2>1. \A n \in Key : plan'[n].status # "absent" => plan[n].status # "absent"
        BY <1>2, <1>6, <1>8, Constants
    <2> QED BY <1>3, <2>1 DEF IInv, DeliveryInv, EndedIfCompleted, Known
<1>11. /\ outbox' \in [Key -> {"none", "pending", "superseded", "accepted", "completed"}]
       /\ receipt' \in [Key -> Receipts] /\ delivery' \in [Key -> Receipts] /\ effects' \in [Key -> Nat]
       /\ execution' \in [Plan -> {"none", "open", "completed", "cancelled"}]
       /\ run' \in {"running", "cancel_requested", "ended", "lost"}
    BY <1>3 DEF IInv, TypeInv
<1> QED BY <1>1, <1>3, <1>4, <1>8, <1>9, <1>10, <1>11, IdleIsTyped, OutcomeStep

LEMMA RunEndsStep == ASSUME IInv, RunEnds PROVE IInv'
<1>1. UNCHANGED <<head, request, message, context, outbox, receipt, delivery, plan, execution, effects, caller, faults>> /\ run' = "ended"
    BY DEF RunEnds, intents, routes
<1>2. Grows
    BY <1>1, Rows, Constants DEF Grows, Known
<1>3. CallerInv'
    BY <1>1, <1>2, CallersStay
<1>4. DeliveryInv'
    BY <1>1 DEF IInv, DeliveryInv, EndedIfCompleted, Known
<1> QED BY <1>1, <1>3, <1>4 DEF IInv, TypeInv, MessageInv, Known, PlanInv, PendingIsLatest, IsHead, PendingIsRetried, Replayed, At

LEMMA RestartStep == ASSUME IInv, Restart PROVE IInv'
<1>1. UNCHANGED <<head, request, message, context, outbox, receipt, delivery, plan, execution, effects>>
    BY DEF Restart, intents, routes
<1>2. faults \in Nat /\ faults' = faults + 1 /\ faults' \in Nat /\ faults' > 0
    BY DEF Restart, Fault, IInv, TypeInv
<1>3. caller' = [c \in Caller |-> Idle] /\ run' = IF run = "ended" THEN run ELSE "lost"
    BY DEF Restart
<1>4. CallerInv' /\ caller' \in [Caller -> CallerType]
    BY <1>3, IdleIsTyped DEF CallerInv, CallerOK, Idle
<1>5. Grows
    BY <1>1, <1>3, Rows, Constants DEF Grows, Known
<1>6. PendingIsRetried'
    <2>1. \A k \in Key : Retried(k) => Retried(k)'
        BY <1>1, <1>2, <1>5, RetriedStays
    <2> QED BY <1>1, <2>1 DEF IInv, PendingIsRetried, Retried
<1>7. DeliveryInv'
    BY <1>1, <1>3 DEF IInv, DeliveryInv, EndedIfCompleted, Known
<1> QED BY <1>1, <1>2, <1>3, <1>4, <1>6, <1>7 DEF IInv, TypeInv, MessageInv, Known, PlanInv, PendingIsLatest, IsHead

LEMMA Initially == Init => IInv
<1> SUFFICES ASSUME Init PROVE IInv
    OBVIOUS
<1>1. TypeInv
    BY IdleIsTyped, Constants DEF Init, TypeInv, PlanType, Receipts
<1>2. CallerInv
    BY IdleIsTyped DEF Init, CallerInv
<1>3. MessageInv
    BY Constants DEF Init, MessageInv, Known
<1>4. DeliveryInv /\ PlanInv
    BY Constants DEF Init, DeliveryInv, EndedIfCompleted, PlanInv
<1> QED BY <1>1, <1>2, <1>3, <1>4 DEF Init, IInv, PendingIsLatest, PendingIsRetried

LEMMA Steps == IInv /\ [Next]_vars => IInv'
<1> SUFFICES ASSUME IInv, [Next]_vars PROVE IInv'
    OBVIOUS
<1>1. ASSUME NEW c \in Caller, Handle(c) PROVE IInv'
    BY <1>1, ResolveStep, DispatchStep, LookupStep, AcceptStep, SaveReceiptStep, NeedEvidenceStep, RerouteStep,
       KeepContextStep, ExecutePlanStep, ReportStep DEF Handle
<1>2. CASE UNCHANGED vars
    <2>1. UNCHANGED <<head, request, message, context, outbox, receipt, delivery, plan, execution, effects, run, caller, faults>>
        BY <1>2 DEF vars, intents, routes
    <2> QED BY <2>1 DEF IInv, TypeInv, MessageInv, Known, DeliveryInv, EndedIfCompleted, PlanInv, CallerInv, CallerOK,
                        PendingIsLatest, IsHead, PendingIsRetried, Replayed, At
<1> QED BY <1>1, <1>2, PrepareStep, ClaimExecutionStep, FailRequestStep, RunEndsStep, RestartStep DEF Next

(* Heads, messages, outbox, receipts, deliveries, plans and what the       *)
(* threads remember of them always fit together.                           *)
THEOREM InvariantHolds == Spec => []IInv
BY Initially, Steps, PTL DEF Spec
-----------------------------------------------------------------------------
(* What the invariant and the steps give                                   *)

(* Outbox, receipts and runs agree between any two steps of the callers:   *)
(* what is pending is the latest revision and the one its message will     *)
(* deliver, and a cancel reported completed has ended the runtime          *)
(* (IntentService.commit, LiveIntentRuntime.submit, LiveIntentRoutes).     *)
THEOREM DeliveriesAgreeHolds == Spec => []DeliveriesAgree
<1>1. IInv => DeliveriesAgree
    <2> SUFFICES ASSUME IInv PROVE DeliveriesAgree
        OBVIOUS
    <2>1. \A c \in Caller : caller[c].pc \in Places
        BY Rows DEF CallerType
    <2>2. TypeOK
        BY <2>1 DEF TypeOK, IInv, TypeInv, MessageInv, Known, Places, PlanType, Receipts
    <2>3. CompletedMeansEnded
        BY DEF IInv, DeliveryInv, EndedIfCompleted, CompletedMeansEnded
    <2> QED BY <2>2, <2>3 DEF DeliveriesAgree, IInv
<1> QED BY <1>1, InvariantHolds, PTL

(* Who writes what.                                                        *)
Commits == \E m \in Message, v \in 1..2, i \in Intent, q \in Request : Commit(m, v, i, q) /\ UNCHANGED routes

LEMMA Writers ==
    ASSUME IInv, [Next]_vars
    PROVE  /\ UNCHANGED <<head, outbox, receipt>> \/ Commits \/ \E c \in Caller : SaveReceipt(c)
           /\ UNCHANGED <<plan, effects, execution>>
              \/ \E c \in Caller : Accept(c) \/ ExecutePlan(c) \/ Report(c) \/ \E p \in Plan : ClaimExecution(c, p)
<1>1. ASSUME NEW c \in Caller, Resolve(c) PROVE UNCHANGED <<head, outbox, receipt, plan, effects, execution>> \/ Commits
    <2>1. caller[c] \in CallerType /\ CallerOK(caller[c]) /\ caller[c].pc = "resolve"
        BY <1>1, Rows DEF Resolve, At
    <2>2. PICK x : x = context[caller[c].msg]
        OBVIOUS
    <2>3. caller[c].msg \in Message /\ x \in Context /\ x.version \in 1..2 /\ x.intent \in Intent
        BY <2>1, <2>2, Rows DEF CallerOK, Context
    <2>4. UNCHANGED intents \/ \E q \in Request : Commit(caller[c].msg, x.version, x.intent, q)
        BY <1>1, <2>2, <2>3, ResolutionsAreTyped DEF Resolve
    <2>5. UNCHANGED routes
        BY <1>1 DEF Resolve
    <2> QED BY <2>3, <2>4, <2>5 DEF Commits, intents, routes
<1>2. ASSUME NEW c \in Caller, Reroute(c) PROVE UNCHANGED <<head, outbox, receipt, plan, effects, execution>> \/ Commits
    <2>1. caller[c] \in CallerType /\ CallerOK(caller[c]) /\ caller[c].pc = "evidence"
        BY <1>2, Rows DEF Reroute, At
    <2>2. PICK k : k = caller[c].key
        OBVIOUS
    <2>3. PICK q : q = [request[k] EXCEPT !.route = "plan"]
        OBVIOUS
    <2>4. caller[c].msg \in Message /\ k[1] \in Intent /\ q \in Request
        BY <2>1, <2>2, <2>3, InHand, Constants DEF Request
    <2>5. UNCHANGED intents \/ Commit(caller[c].msg, 2, k[1], q)
        BY <1>2, <2>2, <2>3 DEF Reroute
    <2>6. UNCHANGED routes /\ 2 \in 1..2
        BY <1>2 DEF Reroute
    <2> QED BY <2>4, <2>5, <2>6 DEF Commits, intents, routes
<1>3. ASSUME NEW c \in Caller, NEW m \in Message, Prepare(c, m) PROVE UNCHANGED <<head, outbox, receipt, plan, effects, execution>>
    BY <1>3 DEF Prepare, intents, routes
<1>4. ASSUME NEW c \in Caller, Dispatch(c) \/ NeedEvidence(c) \/ KeepContext(c) \/ FailRequest(c) \/ Lookup(c)
      PROVE  UNCHANGED <<head, outbox, receipt, plan, effects, execution>>
    BY <1>4 DEF Dispatch, NeedEvidence, KeepContext, FailRequest, Lookup, intents, routes
<1>5. ASSUME NEW c \in Caller, Accept(c) \/ ExecutePlan(c) \/ Report(c) \/ \E p \in Plan : ClaimExecution(c, p)
      PROVE  UNCHANGED <<head, outbox, receipt>>
    BY <1>5 DEF Accept, ExecutePlan, Report, ClaimExecution, intents
<1>6. ASSUME NEW c \in Caller, SaveReceipt(c) PROVE UNCHANGED <<plan, effects, execution>>
    BY <1>6 DEF SaveReceipt, routes
<1>7. CASE RunEnds \/ Restart \/ UNCHANGED vars
    BY <1>7 DEF RunEnds, Restart, vars, intents, routes
<1>8. Commits => UNCHANGED <<plan, effects, execution>>
    BY DEF Commits, routes
<1> QED BY <1>1, <1>2, <1>3, <1>4, <1>5, <1>6, <1>7, <1>8 DEF Next, Handle

LEMMA CommitWrites ==
    ASSUME IInv, NEW m, NEW v, NEW i \in Intent, NEW q, Commit(m, v, i, q)
    PROVE  /\ Handoff!Revise(i) \/ effects' # effects
           /\ receipt' = receipt /\ \A k \in Key : outbox[k] = "completed" => outbox'[k] = "completed"
<1>1. PICK k : k = <<i, head[i] + 1>>
    OBVIOUS
<1>2. k \in Key /\ k[2] = head[i] + 1 /\ k[1] = i
    BY <1>1, Rows, Constants DEF Commit, Key
<1>3. ~Known(k)
    BY <1>2, Rows DEF Known
<1>4. outbox[k] # "completed"
    BY <1>2, <1>3 DEF IInv, DeliveryInv
<1>5. \A n \in Key : outbox[n] = "completed" => outbox'[n] = "completed"
    BY <1>1, <1>4 DEF Commit
<1> QED BY <1>5 DEF Commit, Handoff!Revise

(* The pipeline implements IntentHandoff: a commit is a revision, and only *)
(* the acceptance of the latest revision, under revision_guard and once,   *)
(* is an effect (IntentService.commit, LiveIntentRoutes.submit).           *)
THEOREM ImplementsHandoff == Spec => HandoffSpec
<1>1. Init => Handoff!Init
    BY DEF Init, Handoff!Init, Handoff!Key, Key
<1>2. IInv /\ [Next]_vars => [Handoff!Next]_<<head, effects>>
    <2> SUFFICES ASSUME IInv, [Next]_vars PROVE UNCHANGED <<head, effects>> \/ Handoff!Next
        OBVIOUS
    <2>1. ASSUME NEW c \in Caller, Accept(c) PROVE UNCHANGED <<head, effects>> \/ Handoff!Next
        <3>1. PICK k : k = caller[c].key
            OBVIOUS
        <3>2. k \in Key
            BY <2>1, <3>1, Rows, InHand DEF Accept, At
        <3>3. head' = head
            BY <2>1 DEF Accept, intents
        <3>4. UNCHANGED effects \/ (IsHead(k) /\ delivery[k] = "none" /\ effects' = [effects EXCEPT ![k] = @ + 1])
            BY <2>1, <3>1 DEF Accept, Guarded, Effect
        <3>5. ASSUME IsHead(k), delivery[k] = "none", effects' = [effects EXCEPT ![k] = @ + 1]
              PROVE  Handoff!TakeEffect(k)
            <4>1. effects[k] = 0 /\ head[k[1]] = k[2]
                BY <3>2, <3>5 DEF IInv, DeliveryInv, IsHead
            <4>2. effects' = [effects EXCEPT ![k] = 1]
                BY <3>5, <4>1
            <4> QED BY <3>3, <4>1, <4>2 DEF Handoff!TakeEffect
        <3> QED BY <3>2, <3>3, <3>4, <3>5 DEF Handoff!Next, Handoff!Key, Key
    <2>2. CASE Commits
        <3>1. effects' = effects
            BY <2>2 DEF Commits, routes
        <3> QED BY <2>2, <3>1, CommitWrites DEF Commits, Handoff!Next
    <2>3. ASSUME NEW c \in Caller, SaveReceipt(c) \/ ExecutePlan(c) \/ Report(c) \/ \E p \in Plan : ClaimExecution(c, p)
          PROVE UNCHANGED <<head, effects>>
        BY <2>3 DEF SaveReceipt, ExecutePlan, Report, ClaimExecution, intents, routes
    <2> QED BY <2>1, <2>2, <2>3, Writers
<1> QED BY <1>1, <1>2, InvariantHolds, PTL DEF Spec, HandoffSpec, Handoff!Spec

(* A completed receipt and its outbox entry stay completed, in whatever    *)
(* order the threads of one delivery save theirs                           *)
(* (SQLiteIntentStore.save_receipt).                                       *)
THEOREM ReceiptsOnlyAdvance == Spec => ReceiptsAdvance
<1>1. IInv /\ [Next]_vars => \A k \in Key : /\ receipt[k] = "completed" => receipt'[k] = "completed"
                                            /\ outbox[k] = "completed" => outbox'[k] = "completed"
    <2> SUFFICES ASSUME IInv, [Next]_vars, NEW k \in Key
                 PROVE  /\ receipt[k] = "completed" => receipt'[k] = "completed"
                        /\ outbox[k] = "completed" => outbox'[k] = "completed"
        OBVIOUS
    <2>1. ASSUME NEW c \in Caller, SaveReceipt(c)
          PROVE  receipt[k] = "completed" => receipt'[k] = "completed" /\ outbox'[k] = outbox[k]
        BY <2>1 DEF SaveReceipt, IInv, TypeInv
    <2>2. outbox[k] = "completed" => receipt[k] = "completed"
        BY DEF IInv, DeliveryInv
    <2>3. CASE Commits
        BY <2>3, CommitWrites DEF Commits
    <2> QED BY <2>1, <2>2, <2>3, Writers
<1> QED BY <1>1, InvariantHolds, PTL DEF Spec, ReceiptsAdvance

(* A cancelled plan stays cancelled whatever a run of it reports later,    *)
(* and no run of it is opened (LiveIntentRoutes.execute_plan).             *)
THEOREM CancelsAreFinal == Spec => CancelIsFinal
<1>1. IInv /\ [Next]_vars => \A p \in Plan : plan[p].status = "cancelled" =>
          plan'[p].status = "cancelled" /\ (execution'[p] = "open" => execution[p] = "open")
    <2> SUFFICES ASSUME IInv, [Next]_vars, NEW p \in Plan, plan[p].status = "cancelled"
                 PROVE  plan'[p].status = "cancelled" /\ (execution'[p] = "open" => execution[p] = "open")
        OBVIOUS
    <2>1. plan \in [Plan -> PlanType] /\ execution \in [Plan -> {"none", "open", "completed", "cancelled"}]
        BY DEF IInv, TypeInv
    <2>2. ASSUME NEW c \in Caller, Accept(c) PROVE plan'[p].status = "cancelled" /\ execution' = execution
        <3>1. PICK k : k = caller[c].key
            OBVIOUS
        <3>2. k \in Key /\ Known(k) /\ request[k] \in Request /\ request[k] # None
            BY <2>2, <3>1, Rows, InHand DEF Accept, At
        <3>3. execution' = execution /\ (UNCHANGED plan \/ (delivery[k] = "none" /\ Effect(k)))
            BY <2>2, <3>1 DEF Accept
        <3>4. ASSUME delivery[k] = "none", Effect(k) PROVE plan'[p].status = "cancelled"
            <4>1. plan[k].status = "absent" /\ p # k
                BY <3>2, <3>4, Constants DEF IInv, DeliveryInv
            <4>2. plan' = [plan EXCEPT ![k] = [status |-> "draft", version |-> 1]] \/ plan' = plan
                  \/ \E t \in Plan : /\ plan[t].status # "cancelled"
                                     /\ plan' = [plan EXCEPT ![t] = [status |-> "cancelled", version |-> @.version + 1]]
                BY <3>4 DEF Effect
            <4> QED BY <2>1, <4>1, <4>2
        <3> QED BY <3>3, <3>4
    <2>3. ASSUME NEW c \in Caller, ExecutePlan(c)
          PROVE plan' = plan /\ (execution'[p] = "open" => execution[p] = "open")
        BY <2>1, <2>3 DEF ExecutePlan
    <2>4. ASSUME NEW c \in Caller, Report(c) PROVE plan'[p].status = "cancelled" /\ execution' = execution
        BY <2>1, <2>4 DEF Report
    <2>5. ASSUME NEW c \in Caller, NEW r \in Plan, ClaimExecution(c, r)
          PROVE plan'[p].status = "cancelled" /\ execution'[p] = execution[p]
        BY <2>1, <2>5 DEF ClaimExecution
    <2> QED BY <2>2, <2>3, <2>4, <2>5, Writers
<1> QED BY <1>1, InvariantHolds, PTL DEF Spec, CancelIsFinal
-----------------------------------------------------------------------------
(* What a message makes of an intent (IntentResolution).                   *)
CONSTANTS IntentType, Limit, MaxLimits, Service, Verified, TaskId, Submitted, Gap, KeepsQuestions
VARIABLES latest, stated, asked, named, question, requests
Chain == INSTANCE IntentResolution WITH Message <- Submitted

Entries(s) == {s[k] : k \in DOMAIN s}
List(s) == s \in Seq(Entries(s))

(* What is dispatched rests on what was asked; what was prohibited stays.  *)
RequestInv ==
    latest # None =>
        /\ List(latest.limits) /\ stated \subseteq Chain!Kinds(latest.limits) \cap Chain!Prohibition
        /\ asked \subseteq Chain!Present(latest) \cup latest.required
        /\ latest.route \notin {"clarify", "unsupported"} =>
              /\ latest.required = {} /\ latest.entities["service"] \in {None, Verified}
              /\ "other" \notin Chain!Kinds(latest.limits)
        /\ latest.route = "task_control" => named \subseteq {latest.task}

(* Every question but the one after the third is one more request.         *)
QuestionInv ==
    /\ KeepsQuestions \/ question = None
    /\ \/ question = None /\ requests = 0
       \/ /\ question \in [rounds : 0..Chain!MAX_ROUNDS, overdue : BOOLEAN, state : {"open", "waiting_user", "superseded"}]
          /\ question # None /\ requests = question.rounds
          /\ latest.route # "clarify" <=> question.state = "superseded"
    /\ latest # None /\ KeepsQuestions /\ latest.route = "clarify" => question # None

ChainInv == RequestInv /\ QuestionInv

-----------------------------------------------------------------------------
LEMMA ChainCounts == \A S : Chain!Cardinality(S) = Cardinality(S) /\ (Chain!IsFiniteSet(S) <=> IsFiniteSet(S))
BY Zenon DEF Chain!Cardinality, Cardinality, Chain!IsFiniteSet, IsFiniteSet

LEMMA ListsAre ==
    ASSUME NEW s, List(s)
    PROVE  Len(s) \in Nat /\ DOMAIN s = 1..Len(s)
BY LenProperties DEF List

LEMMA ListIs ==
    ASSUME NEW n \in Nat, NEW s, s = [k \in 1..n |-> s[k]]
    PROVE  List(s) /\ Len(s) = n
<1>1. DOMAIN s = 1..n /\ s \in [1..n -> Entries(s)]
    BY DEF Entries
<1> QED BY <1>1, LenProperties DEF List

LEMMA Joined ==
    ASSUME NEW s, NEW t, List(s), List(t)
    PROVE  List(s \o t) /\ Entries(s \o t) = Entries(s) \cup Entries(t)
<1> DEFINE S == Entries(s) \cup Entries(t)
<1>1. s \in Seq(S) /\ t \in Seq(S) /\ Len(s) \in Nat /\ Len(t) \in Nat
    BY ListsAre DEF List
<1>2. /\ s \o t \in Seq(S) /\ Len(s \o t) = Len(s) + Len(t)
      /\ \A i \in 1..(Len(s) + Len(t)) : (s \o t)[i] = IF i <= Len(s) THEN s[i] ELSE t[i - Len(s)]
    BY <1>1, ConcatProperties
<1>3. DOMAIN s = 1..Len(s) /\ DOMAIN t = 1..Len(t) /\ DOMAIN (s \o t) = 1..(Len(s) + Len(t))
    BY <1>1, <1>2, LenProperties
<1>4. ASSUME NEW k \in 1..Len(s) PROVE s[k] \in Entries(s \o t)
    <2>1. k \in 1..(Len(s) + Len(t)) /\ (s \o t)[k] = s[k]
        BY <1>1, <1>2
    <2> QED BY <1>3, <2>1 DEF Entries
<1>5. ASSUME NEW k \in 1..Len(t) PROVE t[k] \in Entries(s \o t)
    <2>1. k + Len(s) \in 1..(Len(s) + Len(t)) /\ ~(k + Len(s) <= Len(s)) /\ (k + Len(s)) - Len(s) = k
        BY <1>1
    <2>2. (s \o t)[k + Len(s)] = t[k]
        BY <1>2, <2>1
    <2> QED BY <1>3, <2>1, <2>2 DEF Entries
<1>6. Entries(s \o t) \subseteq S
    <2>1. \A i \in 1..Len(s \o t) : (s \o t)[i] \in S
        BY <1>2, ElementOfSeq
    <2> QED BY <1>2, <1>3, <2>1 DEF Entries
<1>7. Entries(s \o t) = S
    BY <1>3, <1>4, <1>5, <1>6 DEF Entries
<1>8. s \o t = [k \in 1..(Len(s) + Len(t)) |-> (s \o t)[k]]
    <2>1. s \o t \in [1..Len(s \o t) -> S]
        BY <1>2, LenProperties
    <2> HIDE DEF S
    <2> QED BY <1>2, <2>1
<1> QED BY <1>1, <1>7, <1>8, ListIs

(* The places of a list are told apart by how many come before them.       *)
LEMMA AtHolds ==
    ASSUME NEW list, NEW n \in Nat, NEW places \in SUBSET (1..n)
    PROVE  /\ List(Chain!At(list, places))
           /\ \A k \in places : list[k] \in Entries(Chain!At(list, places))
<1> DEFINE Upto(k) == {j \in places : j <= k}
           Rank(k) == Chain!Cardinality(Upto(k))
           size == Chain!Cardinality(places)
           at == [m \in 1..size |-> list[CHOOSE k \in places : Rank(k) = m]]
<1>1. Chain!At(list, places) = at
    BY DEF Chain!At
<1>2. IsFiniteSet(places) /\ size \in Nat /\ size = Cardinality(places)
    <2>1. IsFiniteSet(1..n)
        BY FS_Interval
    <2> QED BY <2>1, FS_Subset, FS_CardinalityType, ChainCounts
<1>3. ASSUME NEW k \in places PROVE Rank(k) \in 1..size /\ Rank(k) = Cardinality(Upto(k)) /\ IsFiniteSet(Upto(k))
    <2>1. Upto(k) \in SUBSET places /\ k \in Upto(k)
        OBVIOUS
    <2>2. Rank(k) = Cardinality(Upto(k))
        BY ChainCounts
    <2>3. IsFiniteSet(Upto(k)) /\ Cardinality(Upto(k)) <= size
        BY <1>2, <2>1, FS_Subset
    <2>4. Cardinality(Upto(k)) \in Nat /\ Cardinality(Upto(k)) # 0
        BY <2>1, <2>3, FS_CardinalityType, FS_EmptySet
    <2> QED BY <1>2, <2>2, <2>3, <2>4
<1>4. ASSUME NEW k \in places, NEW l \in places, k < l PROVE Rank(k) # Rank(l)
    <2>1. Upto(k) \in SUBSET Upto(l) /\ l \in Upto(l) /\ l \notin Upto(k)
        <3>1. k \in Nat /\ l \in Nat /\ \A j \in places : j \in Nat
            OBVIOUS
        <3>2. \A j \in places : j <= k => j <= l
            BY <1>4, <3>1
        <3>3. ~(l <= k) /\ l <= l
            BY <1>4, <3>1
        <3> QED BY <3>2, <3>3, Zenon
    <2>2. IsFiniteSet(Upto(l)) /\ Rank(k) = Cardinality(Upto(k)) /\ Rank(l) = Cardinality(Upto(l))
        BY <1>3
    <2> HIDE DEF Upto, Rank
    <2> QED BY <2>1, <2>2, FS_Subset
<1>5. ASSUME NEW k \in places, NEW l \in places, Rank(k) = Rank(l) PROVE k = l
    <2>1. k \in Nat /\ l \in Nat
        OBVIOUS
    <2>2. ~(k < l) /\ ~(l < k)
        BY <1>4, <1>5
    <2> QED BY <2>1, <2>2
<1> HIDE DEF Rank, size
<1>6. at = [m \in 1..size |-> at[m]]
    OBVIOUS
<1>7. ASSUME NEW k \in places PROVE list[k] \in Entries(at)
    <2>1. Rank(k) \in 1..size
        BY <1>3
    <2>2. (CHOOSE l \in places : Rank(l) = Rank(k)) = k
        BY <1>5
    <2>3. at[Rank(k)] = list[k] /\ Rank(k) \in DOMAIN at
        BY <2>1, <2>2
    <2> HIDE DEF at
    <2> QED BY <2>3 DEF Entries
<1> HIDE DEF at
<1> QED BY <1>1, <1>2, <1>6, <1>7, ListIs

LEMMA KindsAre == ASSUME NEW s PROVE Chain!Kinds(s) = {e.kind : e \in Entries(s)}
BY DEF Chain!Kinds, Entries

(* An alias goes, a prohibition does not.                                  *)
LEMMA NormalizedKeeps ==
    ASSUME NEW s, List(s)
    PROVE  List(Chain!Normalized(s)) /\ Chain!Kinds(s) \ {"other"} \subseteq Chain!Kinds(Chain!Normalized(s))
<1> DEFINE places == {k \in DOMAIN s : ~Chain!IsAlias(s[k])}
<1>1. Chain!Normalized(s) = s \/ Chain!Normalized(s) = Chain!At(s, places)
    BY DEF Chain!Normalized
<1>2. ASSUME Chain!Normalized(s) = Chain!At(s, places)
      PROVE  List(Chain!Normalized(s)) /\ Chain!Kinds(s) \ {"other"} \subseteq Chain!Kinds(Chain!Normalized(s))
    <2>1. Len(s) \in Nat /\ places \in SUBSET (1..Len(s))
        BY ListsAre
    <2>2. List(Chain!At(s, places)) /\ \A k \in places : s[k] \in Entries(Chain!At(s, places))
        BY <2>1, AtHolds
    <2>3. \A k \in DOMAIN s : s[k].kind # "other" => k \in places
        BY DEF Chain!IsAlias
    <2> HIDE DEF places
    <2>4. ASSUME NEW k \in DOMAIN s, s[k].kind # "other" PROVE s[k].kind \in Chain!Kinds(Chain!At(s, places))
        BY <2>2, <2>3, <2>4, KindsAre
    <2> QED BY <1>2, <2>2, <2>4 DEF Chain!Kinds
<1> QED BY <1>1, <1>2

(* What is carried over is added to what the candidate says.               *)
LEMMA CarriedKeep ==
    ASSUME NEW old, NEW c, List(old.limits), List(c.limits)
    PROVE  LET carried == Chain!CarriedLimits(old, c)
               joined == [k \in DOMAIN carried |->
                             [kind |-> carried[k].kind, value |-> carried[k].value, from |-> "context"]] \o c.limits
           IN  List(joined) /\ Chain!Kinds(old.limits) \cup Chain!Kinds(c.limits) \subseteq Chain!Kinds(joined)
<1> DEFINE carried == Chain!CarriedLimits(old, c)
           places == {k \in DOMAIN old.limits : old.limits[k].kind \notin Chain!Kinds(c.limits)}
           marked == [k \in DOMAIN carried |-> [kind |-> carried[k].kind, value |-> carried[k].value, from |-> "context"]]
           joined == marked \o c.limits
<1>1. List(carried) /\ \A k \in places : old.limits[k] \in Entries(carried)
    <2>1. Len(old.limits) \in Nat /\ places \in SUBSET (1..Len(old.limits))
        BY ListsAre
    <2>2. carried = Chain!At(old.limits, places)
        BY DEF Chain!CarriedLimits
    <2> HIDE DEF places, carried
    <2> QED BY <2>1, <2>2, AtHolds
<1>2. List(marked) /\ Chain!Kinds(marked) = Chain!Kinds(carried)
    <2>1. Len(carried) \in Nat /\ DOMAIN carried = 1..Len(carried)
        BY <1>1, ListsAre
    <2>2. marked = [k \in 1..Len(carried) |-> marked[k]] /\ \A k \in DOMAIN carried : marked[k].kind = carried[k].kind
        BY <2>1
    <2>3. DOMAIN marked = DOMAIN carried
        OBVIOUS
    <2> HIDE DEF marked, carried
    <2> QED BY <2>1, <2>2, <2>3, ListIs DEF Chain!Kinds
<1> HIDE DEF marked, carried
<1>3. List(joined) /\ Entries(joined) = Entries(marked) \cup Entries(c.limits)
    BY <1>2, Joined
<1>4. Chain!Kinds(marked) \cup Chain!Kinds(c.limits) \subseteq Chain!Kinds(joined)
    BY <1>3, KindsAre
<1>5. ASSUME NEW k \in DOMAIN old.limits PROVE old.limits[k].kind \in Chain!Kinds(c.limits) \cup Chain!Kinds(carried)
    <2>1. CASE k \in places
        BY <1>1, <2>1, KindsAre
    <2> QED BY <2>1
<1>6. Chain!Kinds(old.limits) \subseteq Chain!Kinds(c.limits) \cup Chain!Kinds(carried)
    BY <1>5 DEF Chain!Kinds
<1> QED BY <1>2, <1>3, <1>4, <1>6 DEF marked, carried

(* A control of the task that the message names, when it asks for nothing. *)
LEMMA ControlIsNamed ==
    ASSUME Chain!ConstantsOK, NEW c, NEW m \in Submitted, Chain!ExplicitTask(c, m), c.type = "task_control", ~c.ambiguous,
           ~Chain!Unclear(c, m)
    PROVE  m.words \subseteq {CHOOSE t \in Chain!Matching(c, m.tasks) : TRUE}
<1> DEFINE target == IF c.target # None THEN c.target ELSE c.entities["task_target"]
<1>1. m.words \subseteq TaskId /\ None \notin TaskId /\ IsFiniteSet(m.words) /\ IsFiniteSet(m.tasks)
    BY ChainCounts DEF Chain!ConstantsOK
<1>2. SUFFICES ASSUME m.words # {} PROVE m.words \subseteq {CHOOSE t \in Chain!Matching(c, m.tasks) : TRUE}
    OBVIOUS
<1>3. PICK w : m.words = {w}
    <2>1. Cardinality(m.words) = 1
        BY <1>2, ChainCounts DEF Chain!ExplicitTask
    <2> QED BY <1>1, <2>1, FS_Singleton
<1>4. target = w
    BY <1>1, <1>2, <1>3 DEF Chain!ExplicitTask
<1>5. Chain!Matching(c, m.tasks) = {t \in m.tasks : target \in {None, t}}
    BY DEF Chain!Matching
<1> HIDE DEF target
<1>6. Chain!Matching(c, m.tasks) \subseteq {w} /\ Chain!Matching(c, m.tasks) \in SUBSET m.tasks
    BY <1>1, <1>3, <1>4, <1>5
<1>7. Cardinality(Chain!Matching(c, m.tasks)) = 1
    BY ChainCounts DEF Chain!Unclear
<1>8. Chain!Matching(c, m.tasks) # {}
    BY <1>7, FS_EmptySet
<1> QED BY <1>3, <1>6, <1>8

(* A revision that was made of a candidate and of what was required.       *)
RevisionOK(v, c, m, before) ==
    /\ List(v.limits) /\ Chain!Kinds(c.limits) \ {"other"} \subseteq Chain!Kinds(v.limits)
    /\ v.entities = c.entities /\ before \subseteq v.required \cup Chain!Present(c)
    /\ v.route \notin {"clarify", "unsupported"} =>
          v.required = {} /\ c.entities["service"] \in {None, Verified} /\ "other" \notin Chain!Kinds(v.limits)
    /\ v.route = "task_control" => m.words \subseteq {v.task}

LEMMA ResolvedIsOK ==
    ASSUME Chain!ConstantsOK, NEW c, NEW m \in Submitted, NEW before, NEW unanswerable, List(c.limits), Chain!ExplicitTask(c, m)
    PROVE  RevisionOK(Chain!Resolved(c, m, before, unanswerable), c, m, before)
<1> DEFINE v == Chain!Resolved(c, m, before, unanswerable)
           required == Chain!Required(c, before)
           limits == Chain!Normalized(c.limits)
           open == \/ required # {} \/ c.ambiguous \/ unanswerable
                   \/ Chain!Unbound(c, m.tasks) \/ Chain!Unclear(c, m) \/ "other" \in Chain!Kinds(limits)
           kept == [k \in DOMAIN limits |-> [kind |-> limits[k].kind, value |-> limits[k].value]]
           route == IF open THEN "clarify" ELSE Chain!Route(c, m)
<1>1. /\ v.entities = c.entities /\ v.required = required /\ v.limits = kept /\ v.route = route
      /\ v.task = IF route = "task_control" THEN CHOOSE t \in Chain!Matching(c, m.tasks) : TRUE ELSE None
    BY DEF Chain!Resolved
<1>2. List(kept) /\ Chain!Kinds(kept) = Chain!Kinds(limits) /\ Chain!Kinds(c.limits) \ {"other"} \subseteq Chain!Kinds(limits)
    <2>1. List(limits) /\ Chain!Kinds(c.limits) \ {"other"} \subseteq Chain!Kinds(limits)
        BY NormalizedKeeps
    <2>2. Len(limits) \in Nat /\ DOMAIN limits = 1..Len(limits)
        BY <2>1, ListsAre
    <2>3. /\ kept = [k \in 1..Len(limits) |-> kept[k]] /\ DOMAIN kept = DOMAIN limits
          /\ \A k \in DOMAIN limits : kept[k].kind = limits[k].kind
        BY <2>2
    <2> HIDE DEF kept, limits
    <2> QED BY ZenonT(60), <2>1, <2>2, <2>3, ListIs DEF Chain!Kinds
<1>3. before \subseteq required \cup Chain!Present(c)
    BY DEF Chain!Required
<1>4. ~open => required = {} /\ c.entities["service"] \in {None, Verified} /\ "other" \notin Chain!Kinds(limits)
               /\ ~Chain!Unclear(c, m) /\ ~c.ambiguous
    BY DEF Chain!Unbound
<1>5. route # "clarify" => ~open
    OBVIOUS
<1>6. route = "task_control" => ~open /\ c.type = "task_control"
    BY DEF Chain!Route
<1>7. ASSUME route = "task_control" PROVE m.words \subseteq {v.task}
    <2>1. v.task = CHOOSE t \in Chain!Matching(c, m.tasks) : TRUE
        BY <1>1, <1>7
    <2> HIDE DEF v, route, open
    <2> QED BY <1>4, <1>6, <1>7, <2>1, ControlIsNamed
<1> HIDE DEF v, route, open, required, limits, kept
<1> QED BY <1>1, <1>2, <1>3, <1>4, <1>5, <1>7 DEF RevisionOK, v

(* The question after a revision.                                          *)
LEMMA QuestionStep ==
    ASSUME Chain!ConstantsOK, QuestionInv, NEW v, NEW c, NEW m, Chain!Keep(v, c, m)
    PROVE  QuestionInv'
<1> DEFINE rounds == IF question = None THEN 0 ELSE question.rounds
           Asking == [rounds : 0..Chain!MAX_ROUNDS, overdue : BOOLEAN, state : {"open", "waiting_user", "superseded"}]
<1>1. None \notin Asking
    BY DEF Chain!ConstantsOK, Chain!MAX_ROUNDS
<1>2. latest' = v
    BY DEF Chain!Keep
<1>3. CASE ~KeepsQuestions
    BY <1>2, <1>3 DEF QuestionInv, Chain!Keep
<1>4. CASE KeepsQuestions /\ v.route = "clarify"
    <2>1. question' = Chain!Asked(v.route) /\ requests' = IF question'.state = "open" THEN requests + 1 ELSE requests
        BY <1>4 DEF Chain!Keep
    <2>2. rounds \in 0..3 /\ rounds = requests /\ (question # None => question.overdue \in BOOLEAN)
        BY DEF QuestionInv, Chain!MAX_ROUNDS
    <2> HIDE DEF rounds
    <2>3. PICK overdue \in BOOLEAN :
             question' = [rounds |-> IF rounds = 3 THEN rounds ELSE rounds + 1, overdue |-> overdue,
                          state |-> IF rounds = 3 THEN "waiting_user" ELSE "open"]
        <3>1. (rounds = 3 /\ question.overdue) \in BOOLEAN
            OBVIOUS
        <3> QED BY <1>4, <2>1, <3>1 DEF Chain!Asked, Chain!MAX_ROUNDS, rounds
    <2>4. /\ question' \in Asking /\ question'.rounds = requests' /\ question'.state # "superseded"
        BY <2>1, <2>2, <2>3 DEF Chain!MAX_ROUNDS
    <2> HIDE DEF Asking
    <2> QED BY <1>1, <1>2, <1>4, <2>4 DEF QuestionInv, Asking
<1>5. CASE KeepsQuestions /\ v.route # "clarify"
    <2>1. question' = (IF question = None THEN None ELSE [question EXCEPT !.state = "superseded"]) /\ requests' = requests
        BY <1>5 DEF Chain!Keep, Chain!Asked
    <2>2. CASE question = None
        BY <1>2, <1>5, <2>1, <2>2 DEF QuestionInv
    <2>3. CASE question # None
        <3>1. question \in Asking /\ requests = question.rounds
            BY <2>3 DEF QuestionInv
        <3>2. question' \in Asking /\ question'.rounds = question.rounds /\ question'.state = "superseded"
            BY <2>1, <2>3, <3>1
        <3> QED BY <1>1, <1>2, <1>5, <2>1, <3>1, <3>2 DEF QuestionInv, Asking
    <2> QED BY <2>2, <2>3
<1> QED BY <1>3, <1>4, <1>5 DEF Chain!ConstantsOK

LEMMA ChainBegin ==
    ASSUME Chain!ConstantsOK, ChainInv, NEW c, NEW m \in Submitted, List(c.limits), Chain!Begin(c, m)
    PROVE  ChainInv'
<1> DEFINE v == Chain!Resolved(c, m, {}, c.relation # "new_request" \/ m.answers # "none")
<1>1. /\ Chain!Keep(v, c, m) /\ asked' = v.required /\ stated' = Chain!Stated(c, m)
      /\ Chain!RetainsLimits(c, m) /\ Chain!ExplicitTask(c, m)
    BY DEF Chain!Begin, Chain!Validated
<1>2. RevisionOK(v, c, m, {})
    BY <1>1, ResolvedIsOK
<1> HIDE DEF v
<1>3. latest' = v /\ (v.route = "task_control" => named' = m.words)
    BY <1>1 DEF Chain!Keep
<1>4. QuestionInv'
    BY <1>1, QuestionStep DEF ChainInv
<1>5. stated' \subseteq Chain!Kinds(v.limits) \cap Chain!Prohibition
    <2>1. stated' \subseteq Chain!Kinds(c.limits) \cap Chain!Prohibition
        BY <1>1 DEF Chain!Stated, Chain!RetainsLimits, Chain!ConstantsOK
    <2> QED BY <1>2, <2>1 DEF RevisionOK, Chain!Prohibition
<1> QED BY <1>1, <1>2, <1>3, <1>4, <1>5 DEF ChainInv, RequestInv, RevisionOK

(* What a candidate is merged to.                                          *)
Candidate(c) == \E type, relation, service, of, target, limits, gap : c = Chain!Extracted(type, relation, service, of, target, limits, gap)

LEMMA MergedIs ==
    ASSUME NEW old, NEW c, Candidate(c), List(old.limits), List(c.limits)
    PROVE  LET merged == Chain!Merge(old, c)
           IN  /\ List(merged.limits)
               /\ Chain!Kinds(old.limits) \cup Chain!Kinds(c.limits) \subseteq Chain!Kinds(merged.limits)
               /\ Chain!Present(old) \subseteq Chain!Present(merged)
<1> DEFINE merged == Chain!Merge(old, c)
           carried == Chain!CarriedLimits(old, c)
           joined == [k \in DOMAIN carried |->
                         [kind |-> carried[k].kind, value |-> carried[k].value, from |-> "context"]] \o c.limits
<1>1. PICK type, relation, service, of, target, limits, gap : c = Chain!Extracted(type, relation, service, of, target, limits, gap)
    BY DEF Candidate
<1>2. DOMAIN c = {"type", "relation", "required", "ambiguous", "limits", "entities", "from", "target", "targetFrom"}
      /\ DOMAIN c.entities = Chain!Names
    BY <1>1 DEF Chain!Extracted
<1>3. /\ merged.entities = [n \in Chain!Names |-> IF c.entities[n] = None THEN old.entities[n] ELSE c.entities[n]]
      /\ merged.limits = joined
    BY <1>2 DEF Chain!Merge
<1>4. List(joined) /\ Chain!Kinds(old.limits) \cup Chain!Kinds(c.limits) \subseteq Chain!Kinds(joined)
    BY CarriedKeep
<1>5. \A n \in Chain!Names : old.entities[n] # None => merged.entities[n] # None
    BY <1>3
<1>6. Chain!Present(old) \subseteq Chain!Present(merged)
    BY <1>5 DEF Chain!Present
<1> HIDE DEF merged, joined
<1> QED BY <1>3, <1>4, <1>6 DEF merged

LEMMA ChainFollow ==
    ASSUME Chain!ConstantsOK, ChainInv, NEW c, NEW m \in Submitted, Candidate(c), List(c.limits), Chain!Follow(c, m)
    PROVE  ChainInv'
<1>1. latest # None
    BY DEF Chain!Follow
<1> DEFINE merged == Chain!Merge(latest, c)
           v == Chain!Resolved(merged, m, latest.required, Chain!Stale(m))
<1>2. /\ Chain!Keep(v, merged, m) /\ asked' = asked \cup v.required /\ stated' = stated \cup Chain!Stated(merged, m)
      /\ Chain!RetainsLimits(merged, m) /\ Chain!ExplicitTask(merged, m)
    BY DEF Chain!Follow, Chain!Checked, Chain!Validated
<1>3. /\ List(merged.limits) /\ Chain!Kinds(latest.limits) \subseteq Chain!Kinds(merged.limits)
      /\ Chain!Present(latest) \subseteq Chain!Present(merged)
    BY <1>1, MergedIs DEF ChainInv, RequestInv
<1> HIDE DEF merged
<1>4. RevisionOK(v, merged, m, latest.required)
    BY <1>2, <1>3, ResolvedIsOK
<1> HIDE DEF v
<1>5. latest' = v /\ (v.route = "task_control" => named' = m.words)
    BY <1>2 DEF Chain!Keep
<1>6. QuestionInv'
    BY <1>2, QuestionStep DEF ChainInv
<1>7. stated' \subseteq Chain!Kinds(v.limits) \cap Chain!Prohibition
    <2>1. Chain!Stated(merged, m) \subseteq Chain!Kinds(merged.limits) \cap Chain!Prohibition
        BY <1>2 DEF Chain!Stated, Chain!RetainsLimits, Chain!ConstantsOK
    <2>2. stated \subseteq Chain!Kinds(merged.limits) \cap Chain!Prohibition
        BY <1>1, <1>3 DEF ChainInv, RequestInv
    <2> QED BY <1>2, <1>4, <2>1, <2>2 DEF RevisionOK, Chain!Prohibition
<1>8. asked' \subseteq Chain!Present(v) \cup v.required
    <2>1. Chain!Present(v) = Chain!Present(merged)
        BY <1>4 DEF RevisionOK, Chain!Present
    <2>2. asked \subseteq Chain!Present(latest) \cup latest.required
        BY <1>1 DEF ChainInv, RequestInv
    <2> QED BY <1>2, <1>3, <1>4, <2>1, <2>2 DEF RevisionOK
<1> QED BY <1>2, <1>4, <1>5, <1>6, <1>7, <1>8 DEF ChainInv, RequestInv, RevisionOK

LEMMA ChainStep == ASSUME Chain!ConstantsOK, ChainInv, [Chain!Next]_(Chain!vars) PROVE ChainInv'
<1>1. ASSUME Chain!Submit PROVE ChainInv'
    <2>1. PICK type \in IntentType, relation \in {"new_request", "continuation", "correction"},
               service \in {<<None, "none">>} \cup (Service \X Chain!Sources), of \in Chain!Targets :
                   \E target \in IF type = "task_control" THEN Chain!Targets ELSE {<<None, "none">>} :
                   \E limits \in Chain!LimitLists, gap \in Gap, m \in Submitted :
                   \E c \in {Chain!Extracted(type, relation, service, of, target, limits, gap)} :
                       Chain!Begin(c, m) \/ Chain!Follow(c, m)
        BY <1>1 DEF Chain!Submit
    <2>6. PICK target : \E limits \in Chain!LimitLists, gap \in Gap, m \in Submitted :
                   \E c \in {Chain!Extracted(type, relation, service, of, target, limits, gap)} :
                       Chain!Begin(c, m) \/ Chain!Follow(c, m)
        BY <2>1
    <2>4. PICK limits \in Chain!LimitLists, gap \in Gap, m \in Submitted :
                   \E c \in {Chain!Extracted(type, relation, service, of, target, limits, gap)} :
                       Chain!Begin(c, m) \/ Chain!Follow(c, m)
        BY <2>6
    <2> DEFINE c == Chain!Extracted(type, relation, service, of, target, limits, gap)
    <2>2. Candidate(c) /\ c.limits = limits
        BY DEF Candidate, Chain!Extracted
    <2>3. List(limits)
        <3> DEFINE Said == {[kind |-> l.kind, value |-> l.value, from |-> f] : l \in Limit, f \in Chain!Sources}
        <3>3. limits \in UNION {[1..n -> Said] : n \in 0..MaxLimits}
            BY DEF Chain!LimitLists
        <3> HIDE DEF Said
        <3>1. PICK n \in 0..MaxLimits : limits \in [1..n -> Said]
            BY <3>3
        <3>2. n \in Nat
            OBVIOUS
        <3> QED BY <3>1, <3>2, ListIs
    <2>5. Chain!Begin(c, m) \/ Chain!Follow(c, m)
        BY <2>4
    <2> HIDE DEF c
    <2> QED BY <2>2, <2>3, <2>5, ChainBegin, ChainFollow
<1>2. ASSUME Chain!Elapse PROVE ChainInv'
    <2>1. UNCHANGED <<latest, stated, asked, named, requests>> /\ question # None /\ question' = [question EXCEPT !.overdue = TRUE]
        BY <1>2 DEF Chain!Elapse
    <2>2. RequestInv'
        BY <2>1 DEF ChainInv, RequestInv
    <2> DEFINE Asking == [rounds : 0..Chain!MAX_ROUNDS, overdue : BOOLEAN, state : {"open", "waiting_user", "superseded"}]
    <2>3. question \in Asking /\ requests = question.rounds /\ (latest.route # "clarify" <=> question.state = "superseded") /\ KeepsQuestions
        BY <2>1 DEF ChainInv, QuestionInv, Chain!ConstantsOK
    <2>4. question' \in Asking /\ question'.rounds = question.rounds /\ question'.state = question.state
        BY <2>1, <2>3
    <2>5. None \notin Asking
        BY DEF Chain!ConstantsOK, Chain!MAX_ROUNDS
    <2>6. QuestionInv'
        BY <2>1, <2>3, <2>4, <2>5 DEF QuestionInv
    <2> QED BY <2>2, <2>6 DEF ChainInv
<1>3. ASSUME UNCHANGED Chain!vars PROVE ChainInv'
    BY <1>3 DEF Chain!vars, ChainInv, RequestInv, QuestionInv
<1> QED BY <1>1, <1>2, <1>3 DEF Chain!Next

(* Through any chain of continuations and corrections: a prohibition in    *)
(* the words of an accepted message stays with its request; a request is   *)
(* dispatched only with every field it was ever said to require, for the   *)
(* bound service and with no constraint that cannot be checked; a control  *)
(* acts on the one task its message names; and an operator is asked three  *)
(* times at most about an intent (IntentService.resolve, _merge,           *)
(* validate_sources, commit).                                              *)
THEOREM RequestsStayComplete ==
    ASSUME Chain!ConstantsOK
    PROVE  Chain!Init /\ [][Chain!Next]_(Chain!vars)
               => [](Chain!ProhibitionsStay /\ Chain!DispatchedIsComplete /\ Chain!ControlsTheNamedTask /\ Chain!QuestionsEnd)
<1>1. Chain!Init => ChainInv
    BY DEF Chain!Init, ChainInv, RequestInv, QuestionInv, Chain!ConstantsOK
<1>2. ASSUME ChainInv
      PROVE  Chain!ProhibitionsStay /\ Chain!DispatchedIsComplete /\ Chain!ControlsTheNamedTask /\ Chain!QuestionsEnd
    <2>1. Chain!ProhibitionsStay /\ Chain!DispatchedIsComplete /\ Chain!ControlsTheNamedTask
        BY <1>2 DEF ChainInv, RequestInv, Chain!ProhibitionsStay, Chain!DispatchedIsComplete, Chain!ControlsTheNamedTask
    <2>2. Chain!QuestionsEnd
        BY <1>2 DEF ChainInv, QuestionInv, Chain!QuestionsEnd, Chain!MAX_ROUNDS
    <2> QED BY <2>1, <2>2
<1> QED BY <1>1, <1>2, ChainStep, PTL
=============================================================================
