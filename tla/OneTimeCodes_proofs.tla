--------------------------- MODULE OneTimeCodes_proofs ---------------------------
(***************************************************************************)
(* Proofs about OneTimeCodes, for every finite set of codes and requests    *)
(* and every limit: its type invariant, that effects are earned, that a     *)
(* spent code stays spent, and how far overlapping requests and failed      *)
(* invalidations exceed what the code promises.                             *)
(***************************************************************************)
EXTENDS OneTimeCodes, FiniteSetTheorems, TLAPS

\* What request r holds is what it read: a type to issue, a stored code to publish,
\* and a code to redeem that was sent, has the type it is redeemed for and is used
\* up before it takes effect.
Holds(r) ==
  /\ r.pc \in {"invalidate", "insert"} => r.type \in Types
  /\ r.pc = "publish" => r.code \in Issued
  /\ r.pc \in {"mark", "apply"} => r.code \in sent /\ r.type = type[r.code]
  /\ r.pc = "apply" => r.code \in used

RequestsHold == \A h \in Handlers : Holds(req[h])

\* The first two conjuncts of EffectsAreEarned, the third being in RequestsHold.
Earned ==
  /\ verified => \E c \in Issued : type[c] = "email_verification" /\ applied[c] > 0
  /\ \A c \in Codes : applied[c] > 0 => c \in sent \cap used

IInv == TypeOK /\ RequestsHold /\ Earned

Request == [pc : Pcs, type : Types \cup {NoType}, code : Codes \cup {NoCode}]

LEMMA InitIInv == Init => IInv
<1> SUFFICES ASSUME Init PROVE IInv
  OBVIOUS
<1> USE NoneAssumption, SlipsAssumption DEF Init
<1>1. PICK h \in Handlers :
        req = [g \in Handlers |-> IF g = h
                 THEN [Idle EXCEPT !.pc = "invalidate", !.type = "email_verification"]
                 ELSE Idle]
  OBVIOUS
<1>2. /\ [Idle EXCEPT !.pc = "invalidate", !.type = "email_verification"]
           = [pc |-> "invalidate", type |-> "email_verification", code |-> NoCode]
      /\ Idle = [pc |-> "idle", type |-> NoType, code |-> NoCode]
  BY DEF Idle
<1>3. \A g \in Handlers :
        \/ req[g] = [pc |-> "invalidate", type |-> "email_verification", code |-> NoCode]
        \/ req[g] = [pc |-> "idle", type |-> NoType, code |-> NoCode]
  BY <1>1, <1>2
<1>4. req \in [Handlers -> Request]
  <2>1. /\ [pc |-> "invalidate", type |-> "email_verification", code |-> NoCode] \in Request
        /\ [pc |-> "idle", type |-> NoType, code |-> NoCode] \in Request
    BY ONLY DEF Request, Pcs, Types
  <2>2. \A g \in Handlers : req[g] \in Request
    BY ONLY <1>3, <2>1
  <2>3. req = [g \in Handlers |-> req[g]]
    BY <1>1
  <2>4. QED BY <2>2, <2>3
<1>5. RequestsHold
  BY <1>3 DEF RequestsHold, Holds, Types
<1>6. TypeOK
  <2>1. type \in [Codes -> Types \cup {NoType}] /\ Issued = {}
    BY DEF Issued
  <2>2. applied \in [Codes -> Nat] /\ slips \in 0..MaxSlips
    OBVIOUS
  <2>3. QED BY <1>4, <2>1, <2>2 DEF TypeOK, Request
<1>7. QED BY <1>5, <1>6 DEF IInv, Earned

\* A step that moves one request, stores rows and spends, sends or ages stored
\* ones keeps what the other requests hold.
LEMMA RequestMoved ==
  ASSUME IInv, NEW h \in Handlers, NEW r \in Request, req' = [req EXCEPT ![h] = r], Holds(r)',
         \A c \in Issued : c \in Issued' /\ type'[c] = type[c],
         used \subseteq used', sent \subseteq sent'
  PROVE  RequestsHold' /\ req' \in [Handlers -> Request]
<1>1. req \in [Handlers -> Request] /\ sent \subseteq Issued
  BY DEF IInv, TypeOK, Request
<1>2. ASSUME NEW g \in Handlers PROVE Holds(req[g])'
  <2>1. CASE g = h
    BY <1>1, <2>1
  <2>2. CASE g # h
    BY <1>1, <2>2 DEF IInv, RequestsHold, Holds
  <2>3. QED BY <2>1, <2>2
<1>3. QED BY <1>1, <1>2 DEF RequestsHold

LEMMA NextIInv == IInv /\ [Next]_vars => IInv'
<1> SUFFICES ASSUME IInv, [Next]_vars PROVE IInv'
  OBVIOUS
<1> USE NoneAssumption, SlipsAssumption DEF At, Finish, Start, Goto, history
<1>T. /\ type \in [Codes -> Types \cup {NoType}]
      /\ used \subseteq Issued /\ old \subseteq expired /\ expired \subseteq Issued
      /\ sent \subseteq Issued /\ verified \in BOOLEAN
      /\ applied \in [Codes -> Nat] /\ slips \in 0..MaxSlips
      /\ req \in [Handlers -> Request] /\ Issued \subseteq Codes
  BY DEF IInv, TypeOK, Request, Issued
<1>H. \A h \in Handlers : Holds(req[h]) /\ req[h] \in Request
  BY <1>T DEF IInv, RequestsHold
<1>E. Earned
  BY DEF IInv
<1>I. Idle \in Request /\ Holds(Idle)'
  BY DEF Idle, Request, Pcs, Holds
\* Statements that store no row and have no effect on the user.
<1>K. ASSUME UNCHANGED <<type, verified, applied>>, slips' \in 0..MaxSlips,
             used \subseteq used', used' \subseteq Issued, sent \subseteq sent', sent' \subseteq Issued,
             UNCHANGED <<expired, old>>,
             NEW h \in Handlers, NEW r \in Request, req' = [req EXCEPT ![h] = r], Holds(r)'
      PROVE  IInv'
  <2>1. Issued' = Issued
    BY <1>K DEF Issued
  <2>2. RequestsHold' /\ req' \in [Handlers -> Request]
    BY <1>K, <2>1, RequestMoved
  <2>3. QED BY <1>K, <1>T, <1>E, <2>1, <2>2 DEF IInv, TypeOK, Request, Earned
\* The same request with another place.
<1>G. ASSUME NEW h \in Handlers, NEW pc \in Pcs
      PROVE  \E r \in Request : /\ r = [req[h] EXCEPT !.pc = pc] /\ r.pc = pc
                                /\ r.type = req[h].type /\ r.code = req[h].code
  <2>1. [req[h] EXCEPT !.pc = pc] \in Request
    BY <1>H DEF Request
  <2>2. PICK r \in Request : r = [req[h] EXCEPT !.pc = pc]
    BY <2>1
  <2>3. r.pc = pc /\ r.type = req[h].type /\ r.code = req[h].code
    BY <1>H, <2>2 DEF Request
  <2>4. QED BY <2>2, <2>3
<1>1. ASSUME NEW h \in Handlers, Invalidate(h) PROVE IInv'
  <2>1. PICK r \in Request : /\ r = [req[h] EXCEPT !.pc = "insert"] /\ r.pc = "insert"
                             /\ r.type = req[h].type /\ r.code = req[h].code
    BY <1>G DEF Pcs
  <2>2. req[h].type \in Types
    BY <1>1, <1>H DEF Invalidate, Holds
  <2>3. Holds(r)'
    BY <2>1, <2>2 DEF Holds
  <2>4. req' = [req EXCEPT ![h] = r]
    BY <1>1, <2>1 DEF Invalidate
  <2>5. /\ used \subseteq used' /\ used' \subseteq Issued /\ slips' \in 0..MaxSlips
        /\ UNCHANGED <<type, verified, applied, sent, expired, old>>
    BY <1>1, <1>T DEF Invalidate
  <2>6. QED BY <1>T, <1>K, <2>3, <2>4, <2>5
<1>2. ASSUME NEW h \in Handlers, Insert(h) PROVE IInv'
  <2>1. PICK c \in Codes \ Issued :
          /\ type' = [type EXCEPT ![c] = req[h].type]
          /\ req' = [req EXCEPT ![h].pc = "publish", ![h].code = c]
    BY <1>2 DEF Insert, Fresh
  <2>2. req[h].type \in Types /\ UNCHANGED <<used, expired, old, sent, verified, history>>
    BY <1>2, <1>H DEF Insert, Holds
  <2>3. Issued' = Issued \cup {c} /\ \A d \in Issued : type'[d] = type[d]
    BY <1>T, <2>1, <2>2 DEF Issued
  <2>4. PICK r \in Request : r = [req[h] EXCEPT !.pc = "publish", !.code = c]
    <3>1. [req[h] EXCEPT !.pc = "publish", !.code = c] \in Request
      BY <1>H DEF Request, Pcs
    <3>2. QED BY <3>1
  <2>5. req' = [req EXCEPT ![h] = r]
    BY <1>T, <2>1, <2>4
  <2>r. r.pc = "publish" /\ r.code = c
    BY <1>H, <2>4 DEF Request
  <2>6. Holds(r)'
    BY <2>3, <2>r DEF Holds
  <2>7. RequestsHold' /\ req' \in [Handlers -> Request]
    BY <2>2, <2>3, <2>5, <2>6, RequestMoved
  <2>8. type' \in [Codes -> Types \cup {NoType}]
    BY <1>T, <2>1, <2>2
  <2>9. TypeOK'
    BY <1>T, <2>2, <2>3, <2>7, <2>8 DEF TypeOK, Request
  <2>10. Earned'
    BY <1>E, <2>2, <2>3 DEF Earned
  <2>11. QED BY <2>7, <2>9, <2>10 DEF IInv
<1>3. ASSUME NEW h \in Handlers, Publish(h) PROVE IInv'
  <2>1. req[h].code \in Issued
    BY <1>3, <1>H DEF Publish, Holds
  <2>2. QED BY <1>3, <1>T, <1>I, <1>K, <2>1 DEF Publish
<1>4. ASSUME NEW h \in Handlers, MarkUsed(h) PROVE IInv'
  <2>1. PICK r \in Request : /\ r = [req[h] EXCEPT !.pc = "apply"] /\ r.pc = "apply"
                             /\ r.type = req[h].type /\ r.code = req[h].code
    BY <1>G DEF Pcs
  <2>2. req[h].code \in sent /\ req[h].type = type[req[h].code]
    BY <1>4, <1>H DEF MarkUsed, Holds
  <2>3. Holds(r)'
    BY <1>4, <2>1, <2>2 DEF MarkUsed, Holds
  <2>4. req' = [req EXCEPT ![h] = r]
    BY <1>4, <2>1 DEF MarkUsed
  <2>5. QED BY <1>4, <1>T, <1>K, <2>2, <2>3, <2>4 DEF MarkUsed
<1>5. ASSUME NEW h \in Handlers, Apply(h) PROVE IInv'
  <2> DEFINE c == req[h].code
  <2>1. c \in sent \cap used /\ req[h].type = type[c] /\ c \in Issued /\ c \in Codes
    BY <1>5, <1>H, <1>T DEF Apply, Holds
  <2>2. /\ UNCHANGED <<type, used, expired, old, sent, slips>> /\ Issued' = Issued
        /\ applied' = [applied EXCEPT ![c] = @ + 1] /\ req' = [req EXCEPT ![h] = Idle]
        /\ verified' = (verified \/ req[h].type = "email_verification")
    BY <1>5 DEF Apply, Issued
  <2>3. /\ applied' \in [Codes -> Nat] /\ applied'[c] > 0
        /\ \A d \in Codes : d # c => applied'[d] = applied[d]
        /\ \A d \in Codes : applied[d] > 0 => applied'[d] > 0
    BY <1>T, <2>1, <2>2
  <2>4. RequestsHold' /\ req' \in [Handlers -> Request]
    BY <1>I, <2>2, RequestMoved
  <2>5. Earned'
    <3>1. ASSUME verified'
          PROVE  \E d \in Issued : type[d] = "email_verification" /\ applied'[d] > 0
      <4>1. CASE verified
        BY <4>1, <1>E, <1>T, <2>3 DEF Earned
      <4>2. CASE ~verified
        BY <4>2, <3>1, <2>1, <2>2, <2>3
      <4>3. QED BY <4>1, <4>2
    <3>2. \A d \in Codes : applied'[d] > 0 => d \in sent \cap used
      BY <1>E, <2>1, <2>3 DEF Earned
    <3>3. QED BY <3>1, <3>2, <2>2 DEF Earned
  <2>6. verified' \in BOOLEAN
    BY <2>2, <1>T
  <2>7. TypeOK'
    BY <1>T, <2>2, <2>3, <2>4, <2>6 DEF TypeOK, Request
  <2>8. QED BY <2>4, <2>5, <2>7 DEF IInv
<1>6. ASSUME NEW h \in Handlers, Fail(h) PROVE IInv'
  BY <1>6, <1>T, <1>I, <1>K DEF Fail
<1>7. ASSUME NEW h \in Handlers, ForgotPassword(h) \/ \E ty \in Types : ResendOTP(h, ty)
      PROVE  IInv'
  <2>1. PICK s \in Types : Start(h, "invalidate", s, NoCode)
    BY <1>7 DEF ForgotPassword, ResendOTP, Types
  <2> DEFINE r == [pc |-> "invalidate", type |-> s, code |-> NoCode]
  <2>2. r \in Request /\ Holds(r)'
    BY DEF Request, Pcs, Holds
  <2>3. UNCHANGED <<type, used, expired, old, sent, verified, applied, slips>>
    BY <1>7 DEF ForgotPassword, ResendOTP
  <2>4. QED BY <1>T, <1>K, <2>1, <2>2, <2>3
<1>8. ASSUME NEW h \in Handlers, NEW c \in Codes, VerifyEmail(h, c) \/ ResetPassword(h, c)
      PROVE  IInv'
  <2>1. PICK ty \in Types : Redeem(h, c, ty)
    BY <1>8 DEF VerifyEmail, ResetPassword, Types
  <2> DEFINE r == [pc |-> "mark", type |-> ty, code |-> c]
  <2>2. r \in Request /\ Holds(r)'
    BY <2>1 DEF Redeem, FindValid, Request, Pcs, Holds
  <2>3. QED BY <1>T, <1>K, <2>1, <2>2 DEF Redeem
<1>9. ASSUME NEW c \in Codes, Expire(c) \/ Age(c) PROVE IInv'
  <2>1. /\ UNCHANGED <<type, used, sent, verified, req, applied, slips>> /\ Issued' = Issued
        /\ expired' \subseteq Issued /\ old' \subseteq expired'
    BY <1>9, <1>T DEF Expire, Age, Issued
  <2>2. QED BY <2>1 DEF IInv, TypeOK, RequestsHold, Holds, Earned
<1>10. CASE UNCHANGED vars
  BY <1>10 DEF vars, IInv, TypeOK, RequestsHold, Holds, Earned, Issued
<1>11. QED
  BY <1>1, <1>2, <1>3, <1>4, <1>5, <1>6, <1>7, <1>8, <1>9, <1>10 DEF Next, Step

LEMMA Invariance == Spec => []IInv
BY InitIInv, NextIInv, PTL DEF Spec

\* The table and the requests have their shape, and only stored codes are used,
\* published or expired.
THEOREM TypeCorrect == Spec => []TypeOK
<1>1. IInv => TypeOK
  BY DEF IInv
<1>2. QED BY <1>1, Invariance, PTL

\* VerifyEmail and ResetPassword take effect by a code of their type alone, which
\* was sent and is used up, however requests overlap and wherever they fail.
THEOREM EffectsEarned == Spec => []EffectsAreEarned
<1>1. IInv => EffectsAreEarned
  BY DEF IInv, Earned, RequestsHold, Holds, EffectsAreEarned
<1>2. QED BY <1>1, Invariance, PTL

-------------------------------------------------------------------------------
(* A spent code stays spent.                                               *)

\* The steps that start no redeeming and apply no code.
LEMMA RedeemersLeave ==
  ASSUME IInv, [Next]_vars,
         ~(\E h \in Handlers, c \in Codes : VerifyEmail(h, c) \/ ResetPassword(h, c)),
         ~(\E h \in Handlers : Apply(h))
  PROVE  /\ applied' = applied
         /\ \A h \in Handlers, c \in Codes : Redeeming(h, c)' => Redeeming(h, c)
<1> USE NoneAssumption DEF At, Finish, Start, Goto, history, Redeeming
<1>T. req \in [Handlers -> Request]
  BY DEF IInv, TypeOK, Request
<1>1. ASSUME NEW h \in Handlers, Invalidate(h) \/ MarkUsed(h)
      PROVE  applied' = applied /\ \A g \in Handlers, c \in Codes : Redeeming(g, c)' => Redeeming(g, c)
  BY <1>1, <1>T DEF Invalidate, MarkUsed, Request
<1>2. ASSUME NEW h \in Handlers, Insert(h)
      PROVE  applied' = applied /\ \A g \in Handlers, c \in Codes : Redeeming(g, c)' => Redeeming(g, c)
  <2>1. PICK d \in Codes : req' = [req EXCEPT ![h].pc = "publish", ![h].code = d]
    BY <1>2 DEF Insert, Fresh
  <2>2. req'[h].pc = "publish" /\ \A g \in Handlers \ {h} : req'[g] = req[g]
    BY <1>T, <2>1 DEF Request
  <2>3. QED BY <1>2, <2>2 DEF Insert
<1>3. ASSUME NEW h \in Handlers,
             \/ Publish(h) \/ Fail(h) \/ ForgotPassword(h)
             \/ \E ty \in Types : ResendOTP(h, ty)
      PROVE  applied' = applied /\ \A g \in Handlers, c \in Codes : Redeeming(g, c)' => Redeeming(g, c)
  BY <1>3, <1>T DEF Publish, Fail, ForgotPassword, ResendOTP, Idle
<1>4. ASSUME UNCHANGED vars \/ \E c \in Codes : Expire(c) \/ Age(c)
      PROVE  applied' = applied /\ \A g \in Handlers, c \in Codes : Redeeming(g, c)' => Redeeming(g, c)
  BY <1>4 DEF vars, Expire, Age
<1>5. QED
  BY <1>1, <1>2, <1>3, <1>4 DEF Next, Step

\* The two steps that do.
LEMMA RedeemStep ==
  ASSUME IInv, NEW h \in Handlers, NEW c \in Codes, VerifyEmail(h, c) \/ ResetPassword(h, c)
  PROVE  /\ applied' = applied /\ c \notin used \cup expired
         /\ \A g \in Handlers, d \in Codes : d # c => (Redeeming(g, d)' => Redeeming(g, d))
<1>1. PICK ty \in Types : Redeem(h, c, ty)
  BY DEF VerifyEmail, ResetPassword, Types
<1>2. req \in [Handlers -> Request]
  BY DEF IInv, TypeOK, Request
<1>3. QED
  BY <1>1, <1>2 DEF Redeem, FindValid, Start, At, Redeeming, history

LEMMA ApplyStep ==
  ASSUME IInv, NEW h \in Handlers, Apply(h)
  PROVE  /\ req[h].code \in Codes /\ Redeeming(h, req[h].code)
         /\ applied' = [applied EXCEPT ![req[h].code] = @ + 1]
         /\ \A g \in Handlers, d \in Codes : Redeeming(g, d)' <=> Redeeming(g, d) /\ g # h
<1>1. req \in [Handlers -> Request] /\ Holds(req[h]) /\ sent \subseteq Codes
  BY DEF IInv, TypeOK, Request, RequestsHold, Issued
<1>2. QED
  BY <1>1 DEF Apply, Finish, Idle, At, Redeeming, Holds

\* A code that is used up or has expired never takes effect again, but for the
\* requests that found it valid before.
THEOREM SpendingIsFinal == Spec => SpentStaysSpent
<1>1. ASSUME IInv, [Next]_vars, NEW c \in Codes, Spent(c)
      PROVE  Spent(c)' /\ applied'[c] = applied[c]
  <2>1. used \subseteq used' /\ expired \subseteq expired'
    BY <1>1 DEF Next, Step, vars, history, Invalidate, Insert, Publish, MarkUsed, Apply, Fail,
                ForgotPassword, ResendOTP, VerifyEmail, ResetPassword, Redeem, Expire, Age
  <2>2. CASE \E h \in Handlers, d \in Codes : VerifyEmail(h, d) \/ ResetPassword(h, d)
    <3>1. PICK h \in Handlers, d \in Codes : VerifyEmail(h, d) \/ ResetPassword(h, d)
      BY <2>2
    <3>2. /\ applied' = applied /\ d \notin used \cup expired
          /\ \A g \in Handlers, e \in Codes : e # d => (Redeeming(g, e)' => Redeeming(g, e))
      BY <1>1, <3>1, RedeemStep
    <3>3. QED BY <1>1, <2>1, <3>2 DEF Spent
  <2>3. CASE \E h \in Handlers : Apply(h)
    <3>1. PICK h \in Handlers : Apply(h)
      BY <2>3
    <3>2. /\ req[h].code \in Codes /\ Redeeming(h, req[h].code)
          /\ applied' = [applied EXCEPT ![req[h].code] = @ + 1]
          /\ \A g \in Handlers, d \in Codes : Redeeming(g, d)' <=> Redeeming(g, d) /\ g # h
      BY <1>1, <3>1, ApplyStep
    <3>3. req[h].code # c /\ applied \in [Codes -> Nat]
      BY <1>1, <3>2 DEF Spent, IInv, TypeOK
    <3>4. QED BY <1>1, <2>1, <3>2, <3>3 DEF Spent
  <2>4. QED
    BY <1>1, <2>1, <2>2, <2>3, RedeemersLeave DEF Spent
<1>2. IInv /\ [Next]_vars =>
        [\A c \in Codes : Spent(c) => Spent(c)' /\ applied'[c] = applied[c]]_vars
  BY <1>1
<1>3. QED BY <1>2, Invariance, PTL DEF Spec, SpentStaysSpent

-------------------------------------------------------------------------------
(* Limits. Each bound counts the requests that can still add to what is        *)
(* limited beside what is there, and is inductive in this form.                *)

Email == "email_verification"

Issuers       == {h \in Handlers : Issuing(h, Email)}
Inserters(ty) == {h \in Handlers : req[h].type = ty /\ At(h, "insert")}
Redeemers(c)  == {h \in Handlers : Redeeming(h, c)}

LEMMA Counting ==
  ASSUME NEW T, IsFiniteSet(T)
  PROVE  /\ \A S \in SUBSET T : IsFiniteSet(S) /\ Cardinality(S) \in Nat
         /\ \A S, R \in SUBSET T : S \subseteq R => Cardinality(S) <= Cardinality(R)
         /\ \A S \in SUBSET T : \A x \in T :
              /\ Cardinality(S \cup {x}) <= Cardinality(S) + 1
              /\ x \in S => Cardinality(S \ {x}) = Cardinality(S) - 1
<1>1. \A S \in SUBSET T : IsFiniteSet(S) /\ Cardinality(S) \in Nat
  BY FS_Subset, FS_CardinalityType
<1>2. \A S, R \in SUBSET T : S \subseteq R => Cardinality(S) <= Cardinality(R)
  BY <1>1, FS_Subset
<1>3. ASSUME NEW S \in SUBSET T, NEW x \in T
      PROVE  /\ Cardinality(S \cup {x}) <= Cardinality(S) + 1
             /\ x \in S => Cardinality(S \ {x}) = Cardinality(S) - 1
  BY <1>1, FS_AddElement, FS_RemoveElement
<1>4. QED BY <1>1, <1>2, <1>3

LEMMA CountingHere ==
  /\ \A S \in SUBSET Codes : Cardinality(S) \in Nat
  /\ \A S, R \in SUBSET Codes : S \subseteq R => Cardinality(S) <= Cardinality(R)
  /\ \A S \in SUBSET Codes : \A x \in Codes : Cardinality(S \cup {x}) <= Cardinality(S) + 1
  /\ \A S \in SUBSET Handlers : Cardinality(S) \in Nat /\ Cardinality(S) <= Cardinality(Handlers)
  /\ \A S, R \in SUBSET Handlers : S \subseteq R => Cardinality(S) <= Cardinality(R)
  /\ \A S \in SUBSET Handlers : \A x \in Handlers :
       /\ Cardinality(S \cup {x}) <= Cardinality(S) + 1
       /\ x \in S => Cardinality(S \ {x}) = Cardinality(S) - 1
<1>1. Handlers \in SUBSET Handlers
  OBVIOUS
<1>2. IsFiniteSet(Codes) /\ IsFiniteSet(Handlers)
  BY FiniteAssumption
<1>3. QED BY <1>1, <1>2, Counting

LEMMA Subsets ==
  /\ \A ty \in Types : Recent(ty) \in SUBSET Codes /\ Valid(ty) \in SUBSET Codes
  /\ Issuers \in SUBSET Handlers
  /\ \A ty \in Types : Inserters(ty) \in SUBSET Handlers
  /\ \A c \in Codes : Redeemers(c) \in SUBSET Handlers
BY DEF Recent, Valid, Issued, Issuers, Inserters, Redeemers

\* What an insert does: one code more of the request's type, and one request less
\* that is about to insert one.
LEMMA InsertStep ==
  ASSUME IInv, NEW h \in Handlers, Insert(h)
  PROVE  \E c \in Codes, ty \in Types :
           /\ \A u \in Types : u # ty => Recent(u)' = Recent(u) /\ Valid(u)' = Valid(u)
           /\ Recent(ty)' = Recent(ty) \cup {c} /\ Valid(ty)' \subseteq Valid(ty) \cup {c}
           /\ h \in Inserters(ty) /\ Inserters(ty)' = Inserters(ty) \ {h}
           /\ \A u \in Types : u # ty => Inserters(u)' \subseteq Inserters(u)
           /\ IF ty = Email THEN h \in Issuers /\ Issuers' = Issuers \ {h}
                            ELSE Issuers' \subseteq Issuers
           /\ slips' = slips
<1> USE NoneAssumption DEF At
<1>1. PICK c \in Codes \ Issued :
        /\ type' = [type EXCEPT ![c] = req[h].type]
        /\ req' = [req EXCEPT ![h].pc = "publish", ![h].code = c]
        /\ UNCHANGED <<used, expired, old, slips>> /\ req[h].pc = "insert"
  BY DEF Insert, Fresh, history
<1>T. /\ req \in [Handlers -> Request] /\ type \in [Codes -> Types \cup {NoType}]
      /\ old \subseteq expired /\ expired \subseteq Issued /\ used \subseteq Issued
      /\ req[h].type \in Types
  BY <1>1 DEF IInv, TypeOK, Request, RequestsHold, Holds
<1>t. PICK ty \in Types : ty = req[h].type
  BY <1>T
<1>2. /\ type'[c] = ty /\ \A d \in Codes : d # c => type'[d] = type[d]
      /\ Issued' = Issued \cup {c}
  BY <1>1, <1>T, <1>t DEF Issued
<1>3. req'[h].pc = "publish" /\ \A g \in Handlers : g # h => req'[g] = req[g]
  BY <1>1, <1>T DEF Request
<1>4. /\ Recent(ty)' = Recent(ty) \cup {c}
      /\ \A u \in Types : u # ty => Recent(u)' = Recent(u)
  BY <1>1, <1>2, <1>T, <1>t DEF Recent, Issued
<1>5. /\ Valid(ty)' \subseteq Valid(ty) \cup {c}
      /\ \A u \in Types : u # ty => Valid(u)' = Valid(u)
  BY <1>1, <1>2, <1>T, <1>t DEF Valid, FindValid, Issued
<1>6. /\ h \in Inserters(ty) /\ Inserters(ty)' = Inserters(ty) \ {h}
      /\ \A u \in Types : u # ty => Inserters(u)' \subseteq Inserters(u)
  BY <1>1, <1>3, <1>t DEF Inserters
<1>7. IF ty = Email THEN h \in Issuers /\ Issuers' = Issuers \ {h} ELSE Issuers' \subseteq Issuers
  BY <1>1, <1>3, <1>t DEF Issuers, Issuing
<1>8. QED BY <1>1, <1>4, <1>5, <1>6, <1>7, <1>T, <1>t

\* What an invalidation does, if it does not fail.
LEMMA InvalidateStep ==
  ASSUME IInv, NEW h \in Handlers, Invalidate(h)
  PROVE  /\ Issuers' = Issuers /\ \A u \in Types : Recent(u)' = Recent(u)
         /\ \E ty \in Types :
              /\ Inserters(ty)' = Inserters(ty) \cup {h}
              /\ \A u \in Types : /\ Valid(u)' \subseteq Valid(u)
                                  /\ u # ty => Inserters(u)' = Inserters(u)
              /\ \/ Valid(ty)' = {} /\ slips' = slips
                 \/ slips' = slips + 1
<1> USE NoneAssumption DEF At, Goto
<1>T. /\ req \in [Handlers -> Request] /\ req[h].type \in Types /\ req[h].pc = "invalidate"
      /\ req' = [req EXCEPT ![h].pc = "insert"] /\ UNCHANGED <<type, expired, old>>
  BY DEF Invalidate, IInv, TypeOK, Request, RequestsHold, Holds
<1>t. PICK ty \in Types : ty = req[h].type
  BY <1>T
<1>1. /\ req'[h].pc = "insert" /\ req'[h].type = ty
      /\ \A g \in Handlers : g # h => req'[g] = req[g]
  BY <1>T, <1>t DEF Request
<1>2. Issuers' = Issuers /\ \A u \in Types : Recent(u)' = Recent(u)
  BY <1>1, <1>T DEF Issuers, Issuing, Recent, Issued
<1>3. /\ Inserters(ty)' = Inserters(ty) \cup {h}
      /\ \A u \in Types : u # ty => Inserters(u)' = Inserters(u)
  BY <1>1, <1>T, <1>t DEF Inserters
<1>4. \A u \in Types : Valid(u)' \subseteq Valid(u)
  BY <1>T DEF Invalidate, Valid, FindValid, Issued
<1>5. \/ Valid(ty)' = {} /\ slips' = slips
      \/ slips' = slips + 1
  <2>1. CASE used' = used \cup {c \in Issued : type[c] = ty} /\ slips' = slips
    <3>1. Issued' = Issued
      BY <1>T DEF Issued
    <3>2. \A c \in Issued : type[c] = ty => c \in used'
      BY <2>1
    <3>3. Valid(ty)' = {}
      BY <1>T, <3>1, <3>2 DEF Valid, FindValid
    <3>4. QED BY <2>1, <3>3
  <2>2. CASE slips' = slips + 1
    BY <2>2
  <2>3. QED BY <2>1, <2>2, <1>t DEF Invalidate
<1>6. QED BY <1>2, <1>3, <1>4, <1>5, <1>T, <1>t

\* Every other step, but for the start of an issuing, only takes away.
LEMMA OtherSteps ==
  ASSUME IInv, [Next]_vars, ~(\E h \in Handlers : Insert(h) \/ Invalidate(h))
  PROVE  /\ slips' = slips
         /\ \A u \in Types : /\ Recent(u)' \subseteq Recent(u) /\ Valid(u)' \subseteq Valid(u)
                             /\ Inserters(u)' \subseteq Inserters(u)
         /\ Issuers' \subseteq Issuers \/ \E h \in Handlers : ResendOTP(h, Email)
<1> USE NoneAssumption DEF At, Goto, Finish, Start, history, Idle, Inserters, Issuers, Issuing, Email
<1>T. req \in [Handlers -> Request]
  BY DEF IInv, TypeOK, Request
<1>1. /\ slips' = slips /\ type' = type /\ used \subseteq used' /\ expired \subseteq expired'
      /\ old \subseteq old'
  BY DEF Next, Step, vars, Publish, MarkUsed, Apply, Fail, ForgotPassword, ResendOTP,
         VerifyEmail, ResetPassword, Redeem, Expire, Age
<1>2. \A u \in Types : Recent(u)' \subseteq Recent(u) /\ Valid(u)' \subseteq Valid(u)
  BY <1>1 DEF Recent, Valid, FindValid, Issued
<1> DEFINE Fewer == /\ \A u \in Types : Inserters(u)' \subseteq Inserters(u)
                    /\ Issuers' \subseteq Issuers \/ \E h \in Handlers : ResendOTP(h, Email)
<1>3. ASSUME NEW h \in Handlers, Publish(h) \/ Apply(h) \/ Fail(h) \/ MarkUsed(h) PROVE Fewer
  BY <1>3, <1>T DEF Publish, Apply, Fail, MarkUsed, Request
<1>4. ASSUME NEW h \in Handlers, ForgotPassword(h) PROVE Fewer
  BY <1>4, <1>T DEF ForgotPassword
<1>5. ASSUME NEW h \in Handlers, NEW ty \in Types, ResendOTP(h, ty) PROVE Fewer
  <2>1. ty = Email \/ ty = "password_reset"
    BY DEF Types
  <2>2. QED BY <1>5, <1>T, <2>1 DEF ResendOTP
<1>6. ASSUME NEW h \in Handlers, NEW c \in Codes, VerifyEmail(h, c) \/ ResetPassword(h, c)
      PROVE  Fewer
  BY <1>6, <1>T DEF VerifyEmail, ResetPassword, Redeem
<1>7. ASSUME UNCHANGED vars \/ \E c \in Codes : Expire(c) \/ Age(c) PROVE Fewer
  BY <1>7 DEF vars, Expire, Age
<1>8. Fewer
  BY <1>3, <1>4, <1>5, <1>6, <1>7 DEF Next, Step
<1>9. QED BY <1>1, <1>2, <1>8

\* The codes of an hour and the requests that have counted exceed MaxOTPPerHour
\* by at most the number of requests that overlap, less one.
THEOREM HourIsBounded == Spec => []HourlyOverrun
<1> USE CountingHere, Subsets, LimitAssumption
<1> DEFINE R == Cardinality(Recent(Email))
           I == Cardinality(Issuers)
<1>E. Email \in Types
  BY DEF Types, Email
<1>N. /\ R \in Nat /\ I \in Nat /\ Cardinality(Handlers) \in Nat
      /\ I <= Cardinality(Handlers)
  BY <1>E
<1>P. /\ R' \in Nat /\ I' \in Nat /\ I' <= Cardinality(Handlers)
  <2>1. Recent(Email)' \in SUBSET Codes /\ Issuers' \in SUBSET Handlers
    BY <1>E DEF Recent, Issued, Issuers
  <2>2. QED BY <2>1
<1>D. HourlyOverrun <=> R + I <= MaxOTPPerHour - 1 + Cardinality(Handlers)
  BY DEF HourlyOverrun, Issuers, Email
<1>0. (HourlyOverrun)' <=> R' + I' <= MaxOTPPerHour - 1 + Cardinality(Handlers)
  BY DEF HourlyOverrun, Issuers, Email
<1>1. Init => HourlyOverrun
  <2> SUFFICES ASSUME Init PROVE HourlyOverrun
    OBVIOUS
  <2>1. Recent(Email) = {}
    BY DEF Init, Recent, Issued
  <2>2. R = 0
    BY <2>1, FS_EmptySet
  <2>3. QED BY <2>2, <1>N, <1>D
<1>2. ASSUME IInv, HourlyOverrun, [Next]_vars PROVE HourlyOverrun'
  <2>1. CASE \E h \in Handlers : Insert(h)
    <3>1. PICK h \in Handlers, c \in Codes, ty \in Types :
            /\ ty # Email => Recent(Email)' = Recent(Email) /\ Issuers' \subseteq Issuers
            /\ ty = Email => /\ Recent(Email)' = Recent(Email) \cup {c}
                             /\ h \in Issuers /\ Issuers' = Issuers \ {h}
      BY <1>2, <2>1, <1>E, InsertStep
    <3>2. CASE ty = Email
      <4>1. R' <= R + 1 /\ I' = I - 1
        BY <3>1, <3>2, <1>E
      <4>2. QED BY <4>1, <1>2, <1>N, <1>P, <1>D, <1>0
    <3>3. CASE ty # Email
      <4>1. R' = R /\ I' <= I
        <5>1. Issuers' \in SUBSET Handlers
          BY DEF Issuers
        <5>2. QED BY <3>1, <3>3, <5>1
      <4>2. QED BY <4>1, <1>2, <1>N, <1>P, <1>D, <1>0
    <3>4. QED BY <3>2, <3>3
  <2>2. CASE \E h \in Handlers : Invalidate(h)
    <3>1. Recent(Email)' = Recent(Email) /\ Issuers' = Issuers
      BY <1>2, <2>2, <1>E, InvalidateStep
    <3>2. QED BY <3>1, <1>2, <1>D, <1>0
  <2>3. CASE ~(\E h \in Handlers : Insert(h) \/ Invalidate(h))
    <3>1. /\ Recent(Email)' \subseteq Recent(Email)
          /\ Issuers' \subseteq Issuers \/ \E h \in Handlers : ResendOTP(h, Email)
      BY <1>2, <2>3, <1>E, OtherSteps
    <3>2. R' <= R
      BY <3>1, <1>E
    <3>3. CASE Issuers' \subseteq Issuers
      <4>1. I' <= I
        <5>1. Issuers' \in SUBSET Handlers
          BY DEF Issuers
        <5>2. QED BY <3>3, <5>1
      <4>2. QED BY <3>2, <4>1, <1>2, <1>N, <1>P, <1>D, <1>0
    <3>4. CASE \E h \in Handlers : ResendOTP(h, Email)
      <4>1. R < MaxOTPPerHour
        BY <3>4 DEF ResendOTP, UnderLimit
      <4>2. QED BY <3>2, <4>1, <1>N, <1>P, <1>0
    <3>5. QED BY <3>1, <3>3, <3>4
  <2>4. QED BY <2>1, <2>2, <2>3
<1>3. QED BY <1>1, <1>2, Invariance, PTL DEF Spec

\* The codes of a type that work and the requests about to insert one exceed one
\* per overlapping request by at most the invalidations that failed.
THEOREM ValidIsBounded == Spec => []ValidOverrun
<1> USE CountingHere, Subsets
<1> DEFINE V(ty) == Cardinality(Valid(ty))
           I(ty) == Cardinality(Inserters(ty))
           Bound(ty) == V(ty) + I(ty) <= Cardinality(Handlers) + slips
<1>D. ValidOverrun <=> \A ty \in Types : Bound(ty)
  BY DEF ValidOverrun, Inserters
<1>0. ValidOverrun' <=> \A ty \in Types : Bound(ty)'
  BY DEF ValidOverrun, Inserters
<1>N. /\ \A ty \in Types : V(ty) \in Nat /\ I(ty) \in Nat
      /\ Cardinality(Handlers) \in Nat
  OBVIOUS
<1>S. \A ty \in Types : Valid(ty)' \in SUBSET Codes /\ Inserters(ty)' \in SUBSET Handlers
  BY DEF Valid, Issued, Inserters
<1>P. \A ty \in Types : V(ty)' \in Nat /\ I(ty)' \in Nat /\ I(ty)' <= Cardinality(Handlers)
  BY <1>S
<1>1. Init => ValidOverrun
  <2> SUFFICES ASSUME Init, NEW ty \in Types PROVE Bound(ty)
    BY <1>D
  <2>1. Valid(ty) = {} /\ slips = 0
    BY DEF Init, Valid, Issued
  <2>2. V(ty) = 0
    BY <2>1, FS_EmptySet
  <2>3. QED BY <2>1, <2>2, <1>N
<1>2. ASSUME IInv, ValidOverrun, [Next]_vars, NEW u \in Types PROVE Bound(u)'
  <2>N. slips \in Nat /\ Bound(u)
    BY <1>2, <1>D, SlipsAssumption DEF IInv, TypeOK
  <2>1. CASE \E h \in Handlers : Insert(h)
    <3>1. PICK h \in Handlers, c \in Codes, ty \in Types :
            /\ ty # u => Valid(u)' = Valid(u) /\ Inserters(u)' \subseteq Inserters(u)
            /\ ty = u => /\ Valid(u)' \subseteq Valid(u) \cup {c}
                         /\ h \in Inserters(u) /\ Inserters(u)' = Inserters(u) \ {h}
            /\ slips' = slips
      BY <1>2, <2>1, InsertStep
    <3>2. CASE ty = u
      <4>1. V(u)' <= V(u) + 1
        <5>1. Valid(u) \cup {c} \in SUBSET Codes
          OBVIOUS
        <5>2. /\ V(u)' <= Cardinality(Valid(u) \cup {c})
              /\ Cardinality(Valid(u) \cup {c}) <= V(u) + 1
              /\ Cardinality(Valid(u) \cup {c}) \in Nat
          BY <3>1, <3>2, <5>1, <1>S
        <5>3. QED BY <5>2, <1>N, <1>P
      <4>2. I(u)' = I(u) - 1
        BY <3>1, <3>2
      <4>3. QED BY <3>1, <4>1, <4>2, <2>N, <1>N, <1>P
    <3>3. CASE ty # u
      <4>1. V(u)' = V(u) /\ I(u)' <= I(u)
        BY <3>1, <3>3, <1>S
      <4>2. QED BY <3>1, <4>1, <2>N, <1>N, <1>P
    <3>4. QED BY <3>2, <3>3
  <2>2. CASE \E h \in Handlers : Invalidate(h)
    <3>1. PICK h \in Handlers, ty \in Types :
            /\ Inserters(ty)' = Inserters(ty) \cup {h} /\ Valid(u)' \subseteq Valid(u)
            /\ u # ty => Inserters(u)' = Inserters(u)
            /\ \/ Valid(ty)' = {} /\ slips' = slips
               \/ slips' = slips + 1
      BY <1>2, <2>2, InvalidateStep
    <3>2. V(u)' <= V(u)
      BY <3>1, <1>S
    <3>3. CASE ty = u /\ Valid(ty)' = {} /\ slips' = slips
      <4>1. V(u)' = 0
        BY <3>3, FS_EmptySet
      <4>2. QED BY <3>3, <4>1, <2>N, <1>N, <1>P
    <3>4. CASE ty = u /\ slips' = slips + 1
      <4>1. I(u)' <= I(u) + 1
        BY <3>1, <3>4
      <4>2. QED BY <3>2, <3>4, <4>1, <2>N, <1>N, <1>P
    <3>5. CASE ty # u
      <4>1. I(u)' = I(u) /\ slips' >= slips
        BY <3>1, <3>5, <2>N
      <4>2. slips' \in Nat
        BY <3>1, <2>N
      <4>3. QED BY <3>2, <4>1, <4>2, <2>N, <1>N, <1>P
    <3>6. QED BY <3>1, <3>3, <3>4, <3>5
  <2>3. CASE ~(\E h \in Handlers : Insert(h) \/ Invalidate(h))
    <3>1. slips' = slips /\ Valid(u)' \subseteq Valid(u) /\ Inserters(u)' \subseteq Inserters(u)
      BY <1>2, <2>3, OtherSteps
    <3>2. V(u)' <= V(u) /\ I(u)' <= I(u)
      BY <3>1, <1>S
    <3>3. QED BY <3>1, <3>2, <2>N, <1>N, <1>P
  <2>4. QED BY <2>1, <2>2, <2>3
<1>3. IInv /\ ValidOverrun /\ [Next]_vars => ValidOverrun'
  BY <1>2, <1>0
<1>4. QED BY <1>1, <1>3, Invariance, PTL DEF Spec

\* FindValid precedes MarkUsed: a code takes effect at most once for each request
\* that can be in flight.
THEOREM RedeemingIsBounded == Spec => []RedeemBound
<1> USE CountingHere, Subsets
<1> DEFINE N(c) == Cardinality(Redeemers(c))
           Bound(c) == applied[c] + N(c) <= Cardinality(Handlers)
           All == \A c \in Codes : Bound(c)
<1>S. \A c \in Codes : Redeemers(c)' \in SUBSET Handlers
  BY DEF Redeemers
<1>N. Cardinality(Handlers) \in Nat /\ \A c \in Codes : N(c) \in Nat
  OBVIOUS
<1>P. \A c \in Codes : N(c)' \in Nat /\ N(c)' <= Cardinality(Handlers)
  BY <1>S
<1>1. Init => All
  BY <1>N DEF Init
<1>2. ASSUME IInv, All, [Next]_vars, NEW c \in Codes PROVE Bound(c)'
  <2>N. applied[c] \in Nat /\ applied \in [Codes -> Nat] /\ Bound(c)
    BY <1>2 DEF IInv, TypeOK
  <2>1. CASE \E h \in Handlers, d \in Codes : VerifyEmail(h, d) \/ ResetPassword(h, d)
    <3>1. PICK h \in Handlers, d \in Codes : VerifyEmail(h, d) \/ ResetPassword(h, d)
      BY <2>1
    <3>2. /\ applied' = applied /\ d \notin used \cup expired
          /\ \A g \in Handlers, e \in Codes : e # d => (Redeeming(g, e)' => Redeeming(g, e))
      BY <1>2, <3>1, RedeemStep
    <3>3. CASE c = d
      <4>1. applied[c] = 0
        BY <1>2, <2>N, <3>2, <3>3 DEF IInv, Earned
      <4>2. QED BY <3>2, <4>1, <1>P
    <3>4. CASE c # d
      <4>1. Redeemers(c)' \subseteq Redeemers(c)
        BY <3>2, <3>4 DEF Redeemers
      <4>2. N(c)' <= N(c)
        BY <4>1, <1>S
      <4>3. QED BY <3>2, <4>2, <2>N, <1>N, <1>P
    <3>5. QED BY <3>3, <3>4
  <2>2. CASE \E h \in Handlers : Apply(h)
    <3>1. PICK h \in Handlers : Apply(h)
      BY <2>2
    <3>2. /\ req[h].code \in Codes /\ Redeeming(h, req[h].code)
          /\ applied' = [applied EXCEPT ![req[h].code] = @ + 1]
          /\ \A g \in Handlers, d \in Codes : Redeeming(g, d)' <=> Redeeming(g, d) /\ g # h
      BY <1>2, <3>1, ApplyStep
    <3>3. Redeemers(c)' = Redeemers(c) \ {h}
      BY <3>2 DEF Redeemers
    <3>4. CASE c = req[h].code
      <4>1. h \in Redeemers(c)
        BY <3>2, <3>4 DEF Redeemers
      <4>2. N(c)' = N(c) - 1 /\ applied'[c] = applied[c] + 1
        BY <3>2, <3>3, <3>4, <4>1, <2>N
      <4>3. QED BY <4>2, <2>N, <1>N, <1>P
    <3>5. CASE c # req[h].code
      <4>1. N(c)' <= N(c) /\ applied'[c] = applied[c]
        BY <3>2, <3>3, <3>5, <1>S, <2>N
      <4>2. QED BY <4>1, <2>N, <1>N, <1>P
    <3>6. QED BY <3>4, <3>5
  <2>3. CASE /\ ~(\E h \in Handlers, d \in Codes : VerifyEmail(h, d) \/ ResetPassword(h, d))
             /\ ~(\E h \in Handlers : Apply(h))
    <3>1. /\ applied' = applied
          /\ \A h \in Handlers : Redeeming(h, c)' => Redeeming(h, c)
      BY <1>2, <2>3, RedeemersLeave
    <3>2. Redeemers(c)' \subseteq Redeemers(c)
      BY <3>1 DEF Redeemers
    <3>3. N(c)' <= N(c)
      BY <3>2, <1>S
    <3>4. QED BY <3>1, <3>3, <2>N, <1>N, <1>P
  <2>4. QED BY <2>1, <2>2, <2>3
<1>3. IInv /\ All /\ [Next]_vars => All'
  BY <1>2
<1>4. All => RedeemBound
  BY DEF RedeemBound, Redeemers, Issued
<1>5. QED BY <1>1, <1>3, <1>4, Invariance, PTL DEF Spec
===============================================================================
