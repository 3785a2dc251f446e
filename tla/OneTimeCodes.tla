----------------------------- MODULE OneTimeCodes -----------------------------
(***************************************************************************)
(* The one-time codes of one user: issuing (Register, ForgotPassword,      *)
(* ResendOTP) and redeeming (VerifyEmail, ResetPassword), as               *)
(* auth_usecase.go runs them over otpRepository. Every query is limited to *)
(* one user_id, so users do not interact here.                             *)
(*                                                                         *)
(* Issuing is: [count,] invalidate the older codes, insert, publish;       *)
(* redeeming is: find, mark used, apply. Each statement is one action and  *)
(* requests interleave between them.                                       *)
(***************************************************************************)
EXTENDS Naturals, FiniteSets

CONSTANTS
  Codes,            \* rows of otps; a row is identified with its 6-digit code
  Handlers,         \* requests that can be in flight at the same time
  MaxOTPPerHour,    \* config.MaxOTPPerHour
  MaxSlips,         \* bound: how often the statement that invalidates codes fails
  NoCode, NoType

Types == {"email_verification", "password_reset"}

ASSUME NoneAssumption == NoCode \notin Codes /\ NoType \notin Types
ASSUME LimitAssumption == MaxOTPPerHour \in Nat \ {0}
ASSUME SlipsAssumption == MaxSlips \in Nat
ASSUME FiniteAssumption == IsFiniteSet(Codes) /\ IsFiniteSet(Handlers)

VARIABLES
  type,             \* otps.type; NoType while there is no row
  used,             \* rows with is_used = true
  expired,          \* rows whose expires_at (OTPExpiryMinutes) has passed
  old,              \* rows whose created_at is more than 60 minutes ago
  sent,             \* codes published to the user
  verified,         \* users.email_verified
  req,              \* what each in-flight request holds in its local variables
  applied,          \* history: how often a code verified an email or set a password
  slips             \* history: invalidations that failed

history == <<applied, slips>>
vars == <<type, used, expired, old, sent, verified, req, history>>

-------------------------------------------------------------------------------
(* The table otps.                                                         *)

Issued == {c \in Codes : type[c] # NoType}

\* CountRecentByUser: used and expired rows count as well.
Recent(ty) == {c \in Issued \ old : type[c] = ty}

\* FindValid: unused, unexpired, of the right type.
FindValid(c, ty) == c \in Issued \ (used \cup expired) /\ type[c] = ty

-------------------------------------------------------------------------------

Idle == [pc |-> "idle", type |-> NoType, code |-> NoCode]
Pcs  == {"idle", "invalidate", "insert", "publish", "mark", "apply"}

At(h, pc)   == req[h].pc = pc
Goto(h, pc) == req' = [req EXCEPT ![h].pc = pc]
Finish(h)   == req' = [req EXCEPT ![h] = Idle]

\* A request comes with a type and perhaps a code, and is found valid.
Start(h, pc, ty, c) ==
  /\ At(h, "idle")
  /\ req' = [req EXCEPT ![h] = [pc |-> pc, type |-> ty, code |-> c]]

\* The user was just created: Register is about to issue the first
\* verification code, with no count, and other requests may follow at once.
Init ==
  /\ type = [c \in Codes |-> NoType]
  /\ used = {} /\ expired = {} /\ old = {} /\ sent = {}
  /\ verified = FALSE
  /\ applied = [c \in Codes |-> 0] /\ slips = 0
  /\ \E h \in Handlers :
       req = [g \in Handlers |-> IF g = h
                THEN [Idle EXCEPT !.pc = "invalidate", !.type = "email_verification"]
                ELSE Idle]

\* ForgotPassword issues without counting.
ForgotPassword(h) ==
  /\ Start(h, "invalidate", "password_reset", NoCode)
  /\ UNCHANGED <<type, used, expired, old, sent, verified, history>>

\* Mutant: the limit is compared with > instead of >=.
ResendOTPOffByOne(h, ty) ==
  /\ Cardinality(Recent(ty)) <= MaxOTPPerHour
  /\ Start(h, "invalidate", ty, NoCode)
  /\ UNCHANGED <<type, used, expired, old, sent, verified, history>>

\* ResendOTP of the usecase counts before it issues; if the count is refused
\* nothing changes.
UnderLimit(ty) == Cardinality(Recent(ty)) < MaxOTPPerHour

\* The handler of POST /auth/resend-otp calls ResendOTP.
ResendOTP(h, ty) ==
  /\ UnderLimit(ty)
  /\ Start(h, "invalidate", ty, NoCode)
  /\ UNCHANGED <<type, used, expired, old, sent, verified, history>>

\* Mutant: the older codes stay valid.
InvalidateNothing(h) ==
  /\ At(h, "invalidate")
  /\ Goto(h, "insert")
  /\ UNCHANGED <<type, used, expired, old, sent, verified, history>>

\* otpRepository.Create, first statement: older codes of the type are marked
\* used. Its error is not looked at, so a failure goes on to the insert.
Invalidate(h) ==
  /\ At(h, "invalidate")
  /\ \/ used' = used \cup {c \in Issued : type[c] = req[h].type} /\ slips' = slips
     \/ slips < MaxSlips /\ slips' = slips + 1 /\ used' = used
  /\ Goto(h, "insert")
  /\ UNCHANGED <<type, expired, old, sent, verified, applied>>

\* generateOTPCode draws a code; a row stands for its code, so a draw that hits
\* the code of an earlier row is left out.
Fresh == Codes \ Issued

\* generateAndSaveOTP goes on to the second statement of otpRepository.Create.
Insert(h) ==
  /\ At(h, "insert")
  /\ \E c \in Fresh :
       /\ type' = [type EXCEPT ![c] = req[h].type]
       /\ req' = [req EXCEPT ![h].pc = "publish", ![h].code = c]
  /\ UNCHANGED <<used, expired, old, sent, verified, history>>

\* Mutant: the code is published although its row was not stored.
PublishUnsaved(h) ==
  /\ At(h, "publish") \/ At(h, "insert")
  /\ sent' = sent \cup {req[h].code}
  /\ Finish(h)
  /\ UNCHANGED <<type, used, expired, old, verified, history>>

\* PublishUserRegistered / PublishPasswordReset carry the code to the user.
Publish(h) ==
  /\ At(h, "publish")
  /\ sent' = sent \cup {req[h].code}
  /\ Finish(h)
  /\ UNCHANGED <<type, used, expired, old, verified, history>>

\* Mutant: FindValid is not consulted about is_used and expires_at.
RedeemSpent(h, c, ty) ==
  /\ c \in sent /\ type[c] = ty
  /\ Start(h, "mark", ty, c)
  /\ UNCHANGED <<type, used, expired, old, sent, verified, history>>

\* Mutant: FindValid forgets the type.
RedeemAnyType(h, c, ty) ==
  /\ c \in sent /\ c \notin used \cup expired
  /\ Start(h, "mark", ty, c)
  /\ UNCHANGED <<type, used, expired, old, sent, verified, history>>

\* A code is presented and found; one that is not found changes nothing. That it was
\* sent is no part of FindValid, which would accept a guess: it is assumed of the
\* users that they present codes they were sent.
Redeem(h, c, ty) ==
  /\ c \in sent /\ FindValid(c, ty)
  /\ Start(h, "mark", ty, c)
  /\ UNCHANGED <<type, used, expired, old, sent, verified, history>>

\* The handlers of POST /auth/verify-email and POST /auth/reset-password.
VerifyEmail(h, c)   == Redeem(h, c, "email_verification")
ResetPassword(h, c) == Redeem(h, c, "password_reset")

\* MarkUsed: UPDATE by id, whatever is_used was.
MarkUsed(h) ==
  /\ At(h, "mark")
  /\ used' = used \cup {req[h].code}
  /\ Goto(h, "apply")
  /\ UNCHANGED <<type, expired, old, sent, verified, history>>

\* MarkEmailVerified, or UpdatePassword (and RevokeAllForUser, which
\* RefreshTokens models).
Apply(h) ==
  /\ At(h, "apply")
  /\ applied' = [applied EXCEPT ![req[h].code] = @ + 1]
  /\ verified' = (verified \/ req[h].type = "email_verification")
  /\ Finish(h)
  /\ UNCHANGED <<type, used, expired, old, sent, slips>>

\* A statement or a publish fails, the request is cancelled, the pod dies.
Fail(h) ==
  /\ ~At(h, "idle")
  /\ Finish(h)
  /\ UNCHANGED <<type, used, expired, old, sent, verified, history>>

\* Time passes expires_at, and later the hour CountRecentByUser looks back
\* (10 and 60 minutes by default).
Expire(c) ==
  /\ c \in Issued \ expired
  /\ expired' = expired \cup {c}
  /\ UNCHANGED <<type, used, old, sent, verified, req, history>>

Age(c) ==
  /\ c \in expired \ old
  /\ old' = old \cup {c}
  /\ UNCHANGED <<type, used, expired, sent, verified, req, history>>

Step(h) == Invalidate(h) \/ Insert(h) \/ Publish(h) \/ MarkUsed(h) \/ Apply(h)

Next ==
  \/ \E h \in Handlers : Step(h) \/ Fail(h) \/ ForgotPassword(h)
  \/ \E h \in Handlers, ty \in Types : ResendOTP(h, ty)
  \/ \E h \in Handlers, c \in Codes : VerifyEmail(h, c) \/ ResetPassword(h, c)
  \/ \E c \in Codes : Expire(c) \/ Age(c)

Spec == Init /\ [][Next]_vars

-------------------------------------------------------------------------------
(* Correctness.                                                            *)

\* The shape of the table and of the requests' local variables; only stored
\* rows are ever used, expired or published.
TypeOK ==
  /\ type \in [Codes -> Types \cup {NoType}]
  /\ used \subseteq Issued /\ old \subseteq expired /\ expired \subseteq Issued
  /\ sent \subseteq Issued
  /\ verified \in BOOLEAN
  /\ applied \in [Codes -> Nat] /\ slips \in 0..MaxSlips
  /\ req \in [Handlers -> [pc : Pcs, type : Types \cup {NoType}, code : Codes \cup {NoCode}]]

Redeeming(h, c) == req[h].code = c /\ (At(h, "mark") \/ At(h, "apply"))
Issuing(h, ty)  == req[h].type = ty /\ (At(h, "invalidate") \/ At(h, "insert"))

\* A code takes effect at most once per request that was in flight when it was
\* first redeemed: once, when requests do not overlap (FindValid before MarkUsed).
RedeemBound ==
  \A c \in Issued :
    applied[c] + Cardinality({h \in Handlers : Redeeming(h, c)}) <= Cardinality(Handlers)

\* A used or expired code that no request is redeeming never takes effect again.
Spent(c) == c \in used \cup expired /\ \A h \in Handlers : ~Redeeming(h, c)
SpentStaysSpent ==
  [][\A c \in Codes : Spent(c) => Spent(c)' /\ applied'[c] = applied[c]]_vars

\* An email counts as verified only because of a code issued for verification,
\* and a code that took effect had been sent and is used up.
EffectsAreEarned ==
  /\ verified => \E c \in Issued : type[c] = "email_verification" /\ applied[c] > 0
  /\ \A c \in Codes : applied[c] > 0 => c \in sent \cap used
  /\ \A h \in Handlers : req[h].pc \in {"mark", "apply"} => req[h].type = type[req[h].code]

\* Verification codes of one hour exceed MaxOTPPerHour at most by the requests
\* that counted before one another's insert.
HourlyOverrun ==
  Cardinality(Recent("email_verification"))
    + Cardinality({h \in Handlers : Issuing(h, "email_verification")})
    <= MaxOTPPerHour - 1 + Cardinality(Handlers)

\* Codes of one type that work at the same time: never more than the requests
\* that invalidated before one another's insert, and one for every invalidation
\* whose error was dropped. One request at a time and no fault: the newest only.
Valid(ty) == {c \in Issued : FindValid(c, ty)}
ValidOverrun ==
  \A ty \in Types :
    Cardinality(Valid(ty)) + Cardinality({h \in Handlers : req[h].type = ty /\ At(h, "insert")})
      <= Cardinality(Handlers) + slips
===============================================================================
