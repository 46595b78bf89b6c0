-------------------- MODULE CoalescedGenerationWakeProofs --------------------
(***************************************************************************)
(* For any set of requesting threads and any number of operations: the     *)
(* wake has one owner, a retained generation is never stranded, and every  *)
(* step of the code is a step of GenerationWakeContract or a stutter.      *)
(***************************************************************************)
EXTENDS CoalescedGenerationWake, TLAPS

(* What the history variables say about the atomics: a generation is        *)
(* retained exactly while a request is unserved, and it is the newest one.   *)
RetainsNewest ==
  /\ latest # 0 <=> unserved # {}
  /\ latest # 0 => latest = newest
  /\ newest <= operation

WakeInv == WakeTypeOK /\ OneOwner /\ WakeNotLost /\ RetainsNewest

(* The initial state satisfies the invariant. *)
LEMMA InitWakeInv == WakeInit => WakeInv
  <1> SUFFICES ASSUME WakeInit PROVE WakeInv
    OBVIOUS
  <1>1. WakeTypeOK
    BY DEF WakeInit, WakeTypeOK, RequesterPoints, DrainPoints
  <1>2. Claimants = {}
    BY DEF WakeInit, Claimants
  <1>3. OneOwner
    BY <1>2 DEF WakeInit, OneOwner, DrainOwns
  <1>4. WakeNotLost /\ RetainsNewest
    BY DEF WakeInit, WakeNotLost, RetainsNewest
  <1>5. QED
    BY <1>1, <1>3, <1>4 DEF WakeInv

-----------------------------------------------------------------------------
(* Each atomic access preserves the invariant. *)

(* A new operation retains nothing yet. *)
LEMMA OperationPreserves == WakeInv /\ StartOperation => WakeInv'
  BY DEF StartOperation, history, WakeInv, WakeTypeOK, OneOwner, WakeNotLost,
         RetainsNewest, Claimants, DrainOwns

(* request(): the store of m_latest adds an unserved request to the newest. *)
LEMMA StorePreserves ==
  ASSUME NEW r \in Requesters, WakeInv, StoreLatest(r)
  PROVE  WakeInv'
  <1> USE DEF StoreLatest
  <1>1. WakeTypeOK'
    BY DEF WakeInv, WakeTypeOK, RequesterPoints
  <1>2. at'[r] = "stored" /\ Claimants' = Claimants
    BY DEF WakeInv, WakeTypeOK, Claimants
  <1>3. OneOwner'
    BY <1>2 DEF WakeInv, OneOwner, DrainOwns
  <1>4. WakeNotLost'
    BY <1>2 DEF WakeNotLost
  <1>5. RetainsNewest'
    BY DEF WakeInv, WakeTypeOK, RetainsNewest
  <1>6. QED
    BY <1>1, <1>3, <1>4, <1>5 DEF WakeInv

(* request(): the exchange of m_pending, which makes at most one claimant. *)
LEMMA ClaimPreserves ==
  ASSUME NEW r \in Requesters, WakeInv, ClaimPending(r)
  PROVE  WakeInv'
  <1> USE DEF ClaimPending, history
  <1>1. WakeTypeOK'
    BY DEF WakeInv, WakeTypeOK, RequesterPoints
  <1>2. OneOwner'
    <2>1. CASE pending
      <3>1. Claimants' = Claimants
        BY <2>1 DEF WakeInv, WakeTypeOK, Claimants
      <3>2. QED
        BY <2>1, <3>1 DEF WakeInv, OneOwner, DrainOwns
    <2>2. CASE ~pending
      <3>1. Claimants = {} /\ posted # 1 /\ ~DrainOwns
        BY <2>2 DEF WakeInv, OneOwner
      <3>2. Claimants' = {r}
        BY <2>2, <3>1 DEF WakeInv, WakeTypeOK, Claimants
      <3>3. QED
        BY <3>1, <3>2 DEF WakeInv, OneOwner, DrainOwns
    <2>3. QED
      BY <2>1, <2>2
  <1>3. WakeNotLost' /\ RetainsNewest'
    BY DEF WakeInv, WakeNotLost, RetainsNewest
  <1>4. QED
    BY <1>1, <1>2, <1>3 DEF WakeInv

(* request(): the claimant, the only one, posts the drain. *)
LEMMA PostPreserves ==
  ASSUME NEW r \in Requesters, WakeInv, PostDrain(r)
  PROVE  WakeInv'
  <1> USE DEF PostDrain, history
  <1>1. WakeTypeOK'
    BY DEF WakeInv, WakeTypeOK, RequesterPoints
  <1>2. r \in Claimants
    BY DEF Claimants
  <1>3. pending /\ posted = 0 /\ ~DrainOwns
    BY <1>2 DEF WakeInv, WakeTypeOK, OneOwner
  <1>4. Claimants' = {}
    BY <1>2 DEF WakeInv, WakeTypeOK, OneOwner, Claimants
  <1>5. OneOwner'
    BY <1>3, <1>4 DEF OneOwner, DrainOwns
  <1>6. WakeNotLost' /\ RetainsNewest'
    BY <1>3 DEF WakeInv, WakeNotLost, RetainsNewest
  <1>7. QED
    BY <1>1, <1>5, <1>6 DEF WakeInv

(* drain(): the atomic accesses of the callback. *)
LEMMA DrainPreserves == WakeInv /\ Drain => WakeInv'
  <1> SUFFICES ASSUME WakeInv, Drain PROVE WakeInv'
    OBVIOUS
  <1> USE DEF WakeInv, WakeTypeOK, OneOwner, WakeNotLost, RetainsNewest,
              DrainPoints, Claimants, DrainOwns, history
  <1>1. CASE BeginDrain
    BY <1>1 DEF BeginDrain
  <1>2. CASE TakeLatest
    BY <1>2 DEF TakeLatest
  <1>3. CASE ReleasePending
    BY <1>3 DEF ReleasePending
  <1>4. CASE CheckLatest
    BY <1>4 DEF CheckLatest
  <1>5. CASE ReclaimPending
    BY <1>5 DEF ReclaimPending
  <1>6. QED
    BY <1>1, <1>2, <1>3, <1>4, <1>5 DEF Drain

(* Every step preserves it. *)
LEMMA NextPreserves == WakeInv /\ [WakeNext]_vars => WakeInv'
  <1> SUFFICES ASSUME WakeInv, [WakeNext]_vars PROVE WakeInv'
    OBVIOUS
  <1>1. CASE StartOperation
    BY <1>1, OperationPreserves
  <1>2. CASE Drain
    BY <1>2, DrainPreserves
  <1>3. ASSUME NEW r \in Requesters, Request(r)
        PROVE  WakeInv'
    BY <1>3, StorePreserves, ClaimPreserves, PostPreserves DEF Request
  <1>4. CASE UNCHANGED vars
    BY <1>4 DEF vars, WakeInv, WakeTypeOK, OneOwner, WakeNotLost, RetainsNewest,
                Claimants, DrainOwns
  <1>5. QED
    BY <1>1, <1>2, <1>3, <1>4 DEF WakeNext

-----------------------------------------------------------------------------
(* The inductive invariant holds in every reachable state. *)
THEOREM WakeInvariance == WakeSpec => []WakeInv
  BY InitWakeInv, NextPreserves, PTL DEF WakeSpec

(* At most one drain is queued or running, and m_pending says so exactly. *)
THEOREM OneOwnerAlways == WakeSpec => []OneOwner
  <1>1. WakeInv => OneOwner
    BY DEF WakeInv
  <1>2. QED
    BY <1>1, WakeInvariance, PTL

(* No interleaving of a request with the end of a drain strands a retained  *)
(* generation without a thread that will look at it.                        *)
THEOREM WakeNeverLost == WakeSpec => []WakeNotLost
  <1>1. WakeInv => WakeNotLost
    BY DEF WakeInv
  <1>2. QED
    BY <1>1, WakeInvariance, PTL

(* The safety part of the refinement: each handler call follows every       *)
(* request stored before it and names the newest generation.                *)
THEOREM ImplementsContract ==
  WakeSpec => Contract!Init /\ [][Contract!Next]_(Contract!vars)
  <1> USE DEF Contract!vars
  <1>1. WakeInit => Contract!Init
    BY DEF WakeInit, Contract!Init
  <1>2. WakeInv /\ [WakeNext]_vars => [Contract!Next]_(Contract!vars)
    <2> SUFFICES ASSUME WakeInv, [WakeNext]_vars
                 PROVE  [Contract!Next]_(Contract!vars)
      OBVIOUS
    <2>1. CASE StartOperation
      BY <2>1 DEF StartOperation, history
    <2>2. CASE TakeLatest
      BY <2>2 DEF TakeLatest, WakeInv, RetainsNewest, Contract!Next, Contract!Serve
    <2>3. CASE Drain /\ ~TakeLatest
      BY <2>3 DEF Drain, BeginDrain, ReleasePending, CheckLatest, ReclaimPending,
                  history
    <2>4. ASSUME NEW r \in Requesters, StoreLatest(r)
          PROVE  Contract!Next
      <3>1. Contract!Request(r)
        BY <2>4 DEF StoreLatest, WakeInv, WakeTypeOK, RetainsNewest, Contract!Request
      <3>2. QED
        BY <3>1 DEF Contract!Next
    <2>5. ASSUME NEW r \in Requesters, ClaimPending(r) \/ PostDrain(r)
          PROVE  UNCHANGED Contract!vars
      BY <2>5 DEF ClaimPending, PostDrain, history
    <2>6. CASE UNCHANGED vars
      BY <2>6 DEF vars
    <2>7. QED
      BY <2>1, <2>2, <2>3, <2>4, <2>5, <2>6 DEF WakeNext, Request
  <1>3. QED
    BY <1>1, <1>2, WakeInvariance, PTL DEF WakeSpec

===============================================================================
