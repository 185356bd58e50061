----------------------- MODULE DeliveryPromiseProofs ------------------------
(***************************************************************************)
(* What the promise of DeliveryPromise is worth: in every behaviour that   *)
(* keeps it a repeated acceptance has its reason on record.                *)
(***************************************************************************)
EXTENDS DeliveryPromise, TLAPS

\* A reason once recorded stays: nothing a delivery does takes it back.
LEMMA UnsureGrows == [PromiseNext]_promiseVars => unsure \subseteq unsure'
<1> SUFFICES ASSUME [PromiseNext]_promiseVars PROVE unsure \subseteq unsure'
  OBVIOUS
<1>1. CASE Accept  BY <1>1 DEF Accept
<1>2. ASSUME NEW v \in {"delivered", "failed"}, Judge(v)
      PROVE  unsure \subseteq unsure'
  BY <1>2 DEF Judge
<1>3. CASE PassOn  BY <1>3 DEF PassOn
<1>4. CASE Lapse   BY <1>4 DEF Lapse
<1>5. CASE UNCHANGED promiseVars  BY <1>5 DEF promiseVars
<1>6. QED  BY <1>1, <1>2, <1>3, <1>4, <1>5 DEF PromiseNext

\* A task is accepted a second time only with the reason "sent" on record: the
\* mark of delivery/main.ts keeps every other repetition from the provider.
LEMMA AcceptedOnceHolds == PromiseSpec => []AcceptedOnce
<1>1. PromiseInit => AcceptedOnce
  BY DEF PromiseInit, AcceptedOnce
<1>2. AcceptedOnce /\ [PromiseNext]_promiseVars => AcceptedOnce'
  <2> SUFFICES ASSUME AcceptedOnce, [PromiseNext]_promiseVars
               PROVE  AcceptedOnce'
    OBVIOUS
  <2>1. CASE Accept
    <3>1. accepted' = accepted + 1 /\ (accepted = 0 \/ "sent" \in unsure)
      BY <2>1 DEF Accept
    <3>2. CASE accepted = 0        BY <3>1, <3>2 DEF AcceptedOnce
    <3>3. CASE "sent" \in unsure   BY <3>3, UnsureGrows DEF AcceptedOnce
    <3>4. QED  BY <3>1, <3>2, <3>3
  <2>2. CASE UNCHANGED accepted
    BY <2>2, UnsureGrows DEF AcceptedOnce
  <2>3. QED
    BY <2>1, <2>2 DEF PromiseNext, Judge, PassOn, Lapse, promiseVars
<1>3. QED  BY <1>1, <1>2, PTL DEF PromiseSpec
=============================================================================
