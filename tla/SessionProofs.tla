--------------------------- MODULE SessionProofs ---------------------------
(***************************************************************************)
(* Theorems about Session, for every number of request contexts, every     *)
(* choice of credentials and every length of the prohibition periods.      *)
(*                                                                         *)
(*   TypeCorrect           Spec => []TypeOK                                *)
(*   RegistrationLifts     one transaction at a time, any fault: a session *)
(*                         that holds a token is under no sanction         *)
(*   AnswersMatch          one transaction at a time, any fault: responses *)
(*                         are taken for what they answer                  *)
(*   SessionKeepsGate      steady clock, any number of transactions: the   *)
(*                         session implements ServiceGate                  *)
(***************************************************************************)
EXTENDS Session, TLAPS

USE DEF TBR_TOKEN_UNKNOWN, TIME_UNAVAILABLE, CONFIG_UPDATE_DUE

(***************************************************************************)
(* Type correctness.                                                       *)
(***************************************************************************)

\* The clock yields a time_t whatever its state.
LEMMA ClockType ==
    ASSUME now \in Nat, clockSet \in BOOLEAN
    PROVE  Clock \in Nat
BY ClockAssumption DEF Clock

\* The next rung of the ladder is a rung.
LEMMA NextBackoffType ==
    ASSUME NEW b \in BackoffCode
    PROVE  NextBackoff(b) \in BackoffCode
BY DEF NextBackoff, BackoffCode

\* Whatever sky_decode_response ends with fits sctx->backoff and the errno.
LEMMA OutcomeType ==
    ASSUME NEW d, sctx.backoff \in BackoffCode
    PROVE  /\ Outcome(d).backoff \in BackoffCode
           /\ Outcome(d).err \in Errno
<1>1. NextBackoff(sctx.backoff) \in BackoffCode
  BY NextBackoffType
<1>2. "SKY_ERROR_NONE" \in BackoffCode /\ "SKY_AUTH_RETRY" \in BackoffCode
  BY DEF BackoffCode
<1> QED
  BY <1>1, <1>2 DEF Outcome, Errno

\* What deserialize_response leaves behind is well typed.
LEMMA DeserializedType ==
    ASSUME NEW q \in RequestRecord, NEW kind, NEW rsp \in ServerResponse(kind),
           sctx.token \in Token \cup {TBR_TOKEN_UNKNOWN}
    PROVE  /\ Deserialized(q, rsp).auth \in TbrState
           /\ Deserialized(q, rsp).token \in Token \cup {TBR_TOKEN_UNKNOWN}
           /\ Deserialized(q, rsp).status \in Status
BY DEF Deserialized, ServerResponse, RequestRecord, TbrState, Status

\* A session opened afresh or continued is well typed.
LEMMA OpenBaseType ==
    ASSUME TypeOK, NEW sku, NEW partner, NEW key
    PROVE  OpenBase(sku, partner, key) \in SessionRecord
<1>1. Clock \in Nat
  BY ClockType DEF TypeOK
<1> QED
  BY <1>1 DEF OpenBase, EmptySession, SessionRecord, TypeOK, BackoffCode

\* The session of a zero-filled buffer is well typed.
LEMMA EmptySessionType == EmptySession \in SessionRecord
BY DEF EmptySession, SessionRecord, BackoffCode

\* A new buffer has its type.
LEMMA InitTypeOK == Init => TypeOK
<1> SUFFICES ASSUME Init
             PROVE  TypeOK
  OBVIOUS
<1>1. rctx \in [Rctx -> RequestRecord]
  BY DEF Init, IdleRequest, RequestRecord, TbrState
<1>2. ret \in [fn : {"none"}, err : Errno, status : {"none"}]
  BY DEF Init, Returned, Errno, BackoffCode
<1>3. now \in Nat /\ clockSet \in BOOLEAN
  BY DEF Init
<1> QED
  BY <1>1, <1>2, <1>3, EmptySessionType DEF Init, TypeOK

\* Every call keeps the type.
LEMMA NextTypeOK == TypeOK /\ [Next]_vars => TypeOK'
<1> SUFFICES ASSUME TypeOK, [Next]_vars
             PROVE  TypeOK'
  OBVIOUS
<1> USE DEF TypeOK
<1>c. Clock \in Nat
  BY ClockType
<1>i. IdleRequest \in RequestRecord
  BY DEF IdleRequest, RequestRecord, TbrState
<1>1. CASE Tick
  BY <1>1 DEF Tick
<1>2. CASE ClockChange
  BY <1>2 DEF ClockChange
<1>3. CASE SkyOpenRefused
  BY <1>3 DEF SkyOpenRefused, Returned, Errno
<1>4. ASSUME NEW sku \in Sku, NEW partner \in Partner, NEW key \in Key,
             SkyOpenBadParameters(sku, partner, key)
      PROVE  TypeOK'
  <2>1. sctx' \in SessionRecord
    BY <1>4, OpenBaseType DEF SkyOpenBadParameters, SessionRecord
  <2> QED
    BY <1>4, <2>1 DEF SkyOpenBadParameters, Returned, Errno
<1>5. ASSUME NEW sku \in Sku, NEW partner \in Partner, NEW key \in Key,
             SkyOpenAccepted(sku, partner, key)
      PROVE  TypeOK'
  <2>1. OpenBase(sku, partner, key) \in SessionRecord
    BY OpenBaseType
  <2>2. sctx' \in SessionRecord
    BY <1>5, <2>1 DEF SkyOpenAccepted, SessionRecord
  <2> QED
    BY <1>5, <2>2 DEF SkyOpenAccepted, Returned, Errno, BackoffCode
<1>6. CASE SkyClose
  <2>1. sctx' \in SessionRecord
    BY <1>6 DEF SkyClose, SessionRecord
  <2>2. rctx' \in [Rctx -> RequestRecord]
    BY <1>6, <1>i DEF SkyClose
  <2>3. ret' \in [fn : {"close"}, err : Errno, status : {"none"}]
    BY <1>6 DEF SkyClose, Returned, Errno, BackoffCode
  <2> QED
    BY <1>6, <2>1, <2>2, <2>3 DEF SkyClose
<1>7. CASE SaveSession
  BY <1>7 DEF SaveSession
<1>8. CASE Restart
  <2>1. CorruptSession \in SessionRecord
    BY EmptySessionType DEF CorruptSession, SessionRecord
  <2>2. ret' \in [fn : {"none"}, err : Errno, status : {"none"}]
    BY <1>8 DEF Restart, Returned, Errno, BackoffCode
  <2>3. rctx' \in [Rctx -> RequestRecord]
    BY <1>8, <1>i DEF Restart
  <2> QED
    BY <1>8, <2>1, <2>2, <2>3, EmptySessionType DEF Restart
<1>9. ASSUME NEW r \in Rctx, SkyNewRequest(r)
      PROVE  TypeOK'
  <2>1. AuthState \in TbrState
    BY DEF AuthState, TbrState
  <2>2. rctx' \in [Rctx -> RequestRecord]
    BY <1>9, <1>c, <2>1 DEF SkyNewRequest, RequestRecord
  <2>3. ret' \in [fn : {"new"}, err : Errno, status : {"none"}]
    BY <1>9 DEF SkyNewRequest, Returned, Errno, BackoffCode
  <2> QED
    BY <1>9, <2>2, <2>3 DEF SkyNewRequest
<1>10. ASSUME NEW r \in Rctx, SkySizeofRequestBuf(r)
       PROVE  TypeOK'
  <2>1. sctx' \in SessionRecord
    BY <1>10 DEF SkySizeofRequestBuf, SessionRecord
  <2>2. rctx' \in [Rctx -> RequestRecord]
    BY <1>10 DEF SkySizeofRequestBuf, RequestRecord
  <2>3. ret' \in [fn : {"sizeof"}, err : Errno, status : {"none"}]
    BY <1>10 DEF SkySizeofRequestBuf, Returned, Errno, BackoffCode
  <2> QED
    BY <1>10, <2>1, <2>2, <2>3 DEF SkySizeofRequestBuf
<1>11. ASSUME NEW r \in Rctx, SkyEncodeRequest(r)
       PROVE  TypeOK'
  <2>1. rctx' \in [Rctx -> RequestRecord]
    BY <1>11 DEF SkyEncodeRequest, RequestRecord, RequestKind
  <2>2. ret' \in [fn : {"encode"}, err : Errno, status : {"none"}]
    BY <1>11 DEF SkyEncodeRequest, Returned, Errno, BackoffCode
  <2> QED
    BY <1>11, <2>1, <2>2 DEF SkyEncodeRequest
<1>12. ASSUME NEW r \in Rctx, NoResponse(r)
       PROVE  TypeOK'
  BY <1>12 DEF NoResponse, RequestRecord
<1>13. ASSUME NEW r \in Rctx, SkyDecodeGarbage(r)
       PROVE  TypeOK'
  <2>1. sctx' \in SessionRecord
    BY <1>13, <1>c DEF SkyDecodeGarbage, SessionRecord
  <2>2. [rctx[r] EXCEPT !.phase = "built", !.kind = "none"] \in RequestRecord
    BY DEF RequestRecord
  <2>3. rctx' \in [Rctx -> RequestRecord]
    BY <1>13, <2>2 DEF SkyDecodeGarbage
  <2>4. ret' \in [fn : {"decode"}, err : Errno, status : {"garbage"}]
    BY <1>13 DEF SkyDecodeGarbage, Returned, Errno
  <2> QED
    BY <1>13, <2>1, <2>3, <2>4 DEF SkyDecodeGarbage
<1>14. ASSUME NEW r \in Rctx, SkyDecodeResponse(r)
       PROVE  TypeOK'
  <2>1. PICK rsp \in ServerResponse(rctx[r].kind) :
               /\ sctx' = [sctx EXCEPT
                        !.time = Clock,
                        !.heard = now,
                        !.last_config_time =
                            IF rsp.body /\ @ = CONFIG_UPDATE_DUE THEN Clock ELSE @,
                        !.token = Deserialized(rctx[r], rsp).token,
                        !.backoff = Outcome(Deserialized(rctx[r], rsp)).backoff]
               /\ rctx' = [rctx EXCEPT
                        ![r].phase = IF Deserialized(rctx[r], rsp).status = "SUCCESS"
                                     THEN "idle" ELSE "built",
                        ![r].kind = "none",
                        ![r].auth = Deserialized(rctx[r], rsp).auth]
               /\ ret' = Returned("decode", Outcome(Deserialized(rctx[r], rsp)).err,
                                  rsp.status)
    BY <1>14 DEF SkyDecodeResponse, ConfigTime
  <2>2. /\ Deserialized(rctx[r], rsp).auth \in TbrState
        /\ Deserialized(rctx[r], rsp).token \in Token \cup {TBR_TOKEN_UNKNOWN}
    BY DeserializedType DEF SessionRecord
  <2>3. /\ Outcome(Deserialized(rctx[r], rsp)).backoff \in BackoffCode
        /\ Outcome(Deserialized(rctx[r], rsp)).err \in Errno
    BY OutcomeType DEF SessionRecord
  <2>4. sctx' \in SessionRecord
    BY <2>1, <2>2, <2>3, <1>c DEF SessionRecord
  <2>5. rctx' \in [Rctx -> RequestRecord]
    <3>1. [rctx[r] EXCEPT
             !.phase = IF Deserialized(rctx[r], rsp).status = "SUCCESS"
                       THEN "idle" ELSE "built",
             !.kind = "none",
             !.auth = Deserialized(rctx[r], rsp).auth] \in RequestRecord
      BY <2>2 DEF RequestRecord
    <3> QED
      BY <2>1, <3>1
  <2>6. ret' \in [fn : {"decode"}, err : Errno, status : Status]
    BY <2>1, <2>3 DEF Returned, ServerResponse
  <2> QED
    BY <1>14, <2>4, <2>5, <2>6 DEF SkyDecodeResponse
<1>15. CASE UNCHANGED vars
  BY <1>15 DEF vars
<1> QED
  BY <1>1, <1>2, <1>3, <1>4, <1>5, <1>6, <1>7, <1>8, <1>9, <1>10, <1>11, <1>12,
     <1>13, <1>14, <1>15 DEF Next, SkyOpen, Request

\* Every field of the session and request contexts keeps its type, whatever
\* the application, the server and the clock do.
THEOREM TypeCorrect == Spec => []TypeOK
BY InitTypeOK, NextTypeOK, PTL DEF Spec

(***************************************************************************)
(* The invariants the other theorems rest on.                              *)
(***************************************************************************)

\* Request contexts are in use only while the library is open, and what is
\* saved is a closed session.
LiveOnlyOpen ==
    /\ sctx.open => sctx.magic = "valid"
    /\ ~sctx.open => \A r \in Rctx : rctx[r].phase = "idle"
    /\ ~saved.open

\* A transaction sees the session's registration as it is, and what is on
\* its way to the server is what the session's registration calls for.
AuthCoherent ==
    \A r \in Rctx :
       /\ rctx[r].phase # "idle" => rctx[r].auth = AuthState
       /\ rctx[r].phase = "sent" => rctx[r].kind = RequestKind

\* A token and a sanction exclude each other, also in what is saved.
Unsanctioned ==
    \A s \in {sctx, saved} :
       s.token # TBR_TOKEN_UNKNOWN => s.backoff = "SKY_ERROR_NONE"

\* Inductive while transactions are made one at a time.
RegistrationInv == TypeOK /\ LiveOnlyOpen /\ AuthCoherent /\ Unsanctioned

\* Under a clock that shows real time, a prohibition is timed from the
\* response that imposed it, and no request context is from the future.
Timed ==
    /\ clockSet
    /\ \A s \in {sctx, saved} :
          /\ s.heard <= now
          /\ s.backoff # "SKY_ERROR_NONE" => s.time = Epoch + s.heard
    /\ \A r \in Rctx : rctx[r].time <= Epoch + now

\* Inductive while the clock is set.
GateInv == TypeOK /\ LiveOnlyOpen /\ Timed

(***************************************************************************)
(* Every step keeps LiveOnlyOpen.                                          *)
(***************************************************************************)

\* While the library is not open, sky_open finds no request context in use.
LEMMA ClosedIsIdle ==
    ASSUME LiveOnlyOpen, ~(sctx.magic = "valid" /\ sctx.open)
    PROVE  ~sctx.open /\ \A r \in Rctx : rctx[r].phase = "idle"
BY DEF LiveOnlyOpen

\* No transaction is under way at the start.
LEMMA InitLiveOnlyOpen == Init => LiveOnlyOpen
BY DEF Init, LiveOnlyOpen, EmptySession, IdleRequest

\* sky_close() ends the transactions it interrupts.
LEMMA NextLiveOnlyOpen ==
    TypeOK /\ LiveOnlyOpen /\ [Next]_vars => LiveOnlyOpen'
<1> SUFFICES ASSUME TypeOK, LiveOnlyOpen, [Next]_vars
             PROVE  LiveOnlyOpen'
  OBVIOUS
<1>t. sctx \in SessionRecord /\ rctx \in [Rctx -> RequestRecord]
  BY DEF TypeOK
<1>1. CASE Tick \/ ClockChange \/ SkyOpenRefused \/ UNCHANGED vars
  BY <1>1 DEF Tick, ClockChange, SkyOpenRefused, vars, LiveOnlyOpen
<1>2. ASSUME NEW sku \in Sku, NEW partner \in Partner, NEW key \in Key,
             SkyOpenBadParameters(sku, partner, key)
      PROVE  LiveOnlyOpen'
  <2>1. ~sctx.open /\ \A r \in Rctx : rctx[r].phase = "idle"
    BY <1>2, ClosedIsIdle DEF SkyOpenBadParameters
  <2>2. ~sctx'.open
    BY <1>2, <1>t, <2>1 DEF SkyOpenBadParameters, OpenBase, EmptySession, SessionRecord
  <2> QED
    BY <1>2, <2>1, <2>2 DEF SkyOpenBadParameters, LiveOnlyOpen
<1>3. ASSUME NEW sku \in Sku, NEW partner \in Partner, NEW key \in Key,
             SkyOpenAccepted(sku, partner, key)
      PROVE  LiveOnlyOpen'
  <2>1. OpenBase(sku, partner, key) \in SessionRecord
    BY OpenBaseType
  <2>2. OpenBase(sku, partner, key).magic = "valid"
    BY DEF OpenBase, Restorable, EmptySession
  <2>3. sctx'.open /\ sctx'.magic = "valid"
    BY <1>3, <2>1, <2>2 DEF SkyOpenAccepted, SessionRecord
  <2> QED
    BY <1>3, <2>3 DEF SkyOpenAccepted, LiveOnlyOpen
<1>4. CASE SkyClose
  BY <1>4, <1>t DEF SkyClose, LiveOnlyOpen, IdleRequest, SessionRecord
<1>5. CASE SaveSession
  BY <1>5 DEF SaveSession, LiveOnlyOpen
<1>6. CASE Restart
  BY <1>6 DEF Restart, LiveOnlyOpen, IdleRequest, EmptySession, CorruptSession
<1>7. ASSUME NEW r \in Rctx, Request(r)
      PROVE  LiveOnlyOpen'
  <2>1. CASE SkyNewRequest(r)
    BY <2>1 DEF SkyNewRequest, LiveOnlyOpen
  <2>2. ASSUME rctx[r].phase # "idle", UNCHANGED saved, sctx'.open = sctx.open,
               sctx'.magic = sctx.magic
        PROVE  LiveOnlyOpen'
    BY <2>2 DEF LiveOnlyOpen
  <2>3. CASE SkySizeofRequestBuf(r)
    BY <2>2, <2>3, <1>t DEF SkySizeofRequestBuf, SessionRecord
  <2>4. CASE SkyEncodeRequest(r)
    BY <2>2, <2>4 DEF SkyEncodeRequest
  <2>5. CASE NoResponse(r)
    BY <2>2, <2>5 DEF NoResponse
  <2>6. CASE SkyDecodeGarbage(r)
    BY <2>2, <2>6, <1>t DEF SkyDecodeGarbage, SessionRecord
  <2>7. CASE SkyDecodeResponse(r)
    BY <2>2, <2>7, <1>t DEF SkyDecodeResponse, SessionRecord
  <2> QED
    BY <1>7, <2>1, <2>3, <2>4, <2>5, <2>6, <2>7 DEF Request
<1> QED
  BY <1>1, <1>2, <1>3, <1>4, <1>5, <1>6, <1>7 DEF Next, SkyOpen

(***************************************************************************)
(* One transaction at a time.                                              *)
(***************************************************************************)

\* The application runs at most one request context.
SingleTransaction == \A r1, r2 \in Rctx : r1 = r2

\* sky_open gives no token and imposes no sanction.
LEMMA OpenBaseUnsanctioned ==
    ASSUME Unsanctioned, NEW sku, NEW partner, NEW key
    PROVE  LET s == OpenBase(sku, partner, key)
           IN  s.token # TBR_TOKEN_UNKNOWN => s.backoff = "SKY_ERROR_NONE"
BY DEF OpenBase, Unsanctioned, EmptySession

\* While no request context is in use, nothing can be out of step.
LEMMA IdleCoherent ==
    (\A r \in Rctx : rctx[r].phase = "idle") => AuthCoherent
BY DEF AuthCoherent

\* Steps that leave the token, the sku and every transaction's view of them
\* alone, or end transactions, keep AuthCoherent.
LEMMA SameRegistration ==
    ASSUME AuthCoherent,
           sctx'.sku = sctx.sku, sctx'.token = sctx.token,
           \A r \in Rctx : \/ rctx'[r].phase = "idle"
                           \/ /\ rctx[r].phase # "idle"
                              /\ rctx'[r].auth = rctx[r].auth
                              /\ rctx'[r].phase = "sent" => rctx'[r].kind = RequestKind
    PROVE  AuthCoherent'
<1>1. AuthState' = AuthState /\ RequestKind' = RequestKind
  BY DEF AuthState, RequestKind, IsTbrEnabled
<1> QED
  BY <1>1 DEF AuthCoherent

\* A decoded response leaves the only transaction coherent with the session
\* and the session without a token or without a sanction.
LEMMA DecodeKeepsRegistration ==
    ASSUME SingleTransaction, RegistrationInv, NEW r \in Rctx, SkyDecodeResponse(r)
    PROVE  AuthCoherent' /\ Unsanctioned'
<1>t. sctx \in SessionRecord /\ rctx \in [Rctx -> RequestRecord]
  BY DEF RegistrationInv, TypeOK
<1>a. rctx[r].phase = "sent" /\ rctx[r].auth = AuthState /\ saved' = saved
  BY DEF RegistrationInv, AuthCoherent, SkyDecodeResponse
<1>1. PICK rsp \in ServerResponse(rctx[r].kind) :
        LET d == Deserialized(rctx[r], rsp) IN
        /\ sctx' = [sctx EXCEPT
                 !.time = Clock,
                 !.heard = now,
                 !.last_config_time =
                     IF rsp.body /\ @ = CONFIG_UPDATE_DUE THEN Clock ELSE @,
                 !.token = d.token,
                 !.backoff = Outcome(d).backoff]
        /\ rctx' = [rctx EXCEPT
                 ![r].phase = IF d.status = "SUCCESS" THEN "idle" ELSE "built",
                 ![r].kind = "none",
                 ![r].auth = d.auth]
  BY DEF SkyDecodeResponse, ConfigTime
<1> DEFINE d == Deserialized(rctx[r], rsp)
<1>2. /\ sctx'.token = d.token /\ sctx'.sku = sctx.sku
      /\ sctx'.backoff = Outcome(d).backoff
  BY <1>1, <1>t DEF SessionRecord
<1>3. rctx'[r].auth = d.auth /\ rctx'[r].phase # "sent"
  BY <1>1, <1>t DEF RequestRecord
<1>4. rsp.token \in Token \cup {TBR_TOKEN_UNKNOWN}
  BY DEF ServerResponse
<1>5. d.auth = AuthState'
  BY <1>a, <1>2, <1>4, TokenAssumption DEF Deserialized, AuthState, IsTbrEnabled
<1>6. d.token # TBR_TOKEN_UNKNOWN => Outcome(d).backoff = "SKY_ERROR_NONE"
  BY <1>a, <1>t, <1>4, TokenAssumption
     DEF Deserialized, AuthState, IsTbrEnabled, Outcome, RegistrationInv, Unsanctioned
<1>7. AuthCoherent'
  BY <1>3, <1>5 DEF AuthCoherent, SingleTransaction
<1>8. Unsanctioned'
  BY <1>a, <1>2, <1>6 DEF Unsanctioned, RegistrationInv
<1> QED
  BY <1>7, <1>8

\* RegistrationInv is inductive.
LEMMA NextRegistrationInv ==
    ASSUME SingleTransaction, RegistrationInv, [Next]_vars
    PROVE  RegistrationInv'
<1>t. sctx \in SessionRecord /\ rctx \in [Rctx -> RequestRecord]
  BY DEF RegistrationInv, TypeOK
<1>l. TypeOK' /\ LiveOnlyOpen'
  BY NextTypeOK, NextLiveOnlyOpen DEF RegistrationInv
<1> SUFFICES AuthCoherent' /\ Unsanctioned'
  BY <1>l DEF RegistrationInv
<1> USE DEF RegistrationInv
<1>1. CASE Tick \/ ClockChange \/ SkyOpenRefused \/ UNCHANGED vars
  <2>1. UNCHANGED <<sctx, saved, rctx>>
    BY <1>1 DEF Tick, ClockChange, SkyOpenRefused, vars
  <2> QED
    BY <2>1 DEF AuthCoherent, Unsanctioned, AuthState, RequestKind, IsTbrEnabled
<1>2. ASSUME NEW sku \in Sku, NEW partner \in Partner, NEW key \in Key,
             SkyOpenBadParameters(sku, partner, key)
      PROVE  AuthCoherent' /\ Unsanctioned'
  <2>1. \A r \in Rctx : rctx'[r].phase = "idle"
    BY <1>2, ClosedIsIdle DEF SkyOpenBadParameters
  <2>2. sctx'.token # TBR_TOKEN_UNKNOWN => sctx'.backoff = "SKY_ERROR_NONE"
    BY <1>2, <1>t, OpenBaseUnsanctioned
       DEF SkyOpenBadParameters, SessionRecord, Unsanctioned
  <2> QED
    BY <1>2, <2>1, <2>2 DEF SkyOpenBadParameters, AuthCoherent, Unsanctioned
<1>3. ASSUME NEW sku \in Sku, NEW partner \in Partner, NEW key \in Key,
             SkyOpenAccepted(sku, partner, key)
      PROVE  AuthCoherent' /\ Unsanctioned'
  <2>1. \A r \in Rctx : rctx'[r].phase = "idle"
    BY <1>3, ClosedIsIdle DEF SkyOpenAccepted
  <2>2. OpenBase(sku, partner, key) \in SessionRecord
    BY OpenBaseType
  <2>3. sctx'.token # TBR_TOKEN_UNKNOWN => sctx'.backoff = "SKY_ERROR_NONE"
    BY <1>3, <2>2, OpenBaseUnsanctioned DEF SkyOpenAccepted, SessionRecord
  <2> QED
    BY <1>3, <2>1, <2>3 DEF SkyOpenAccepted, AuthCoherent, Unsanctioned
<1>4. CASE SkyClose
  <2>1. sctx'.token = sctx.token /\ sctx'.backoff = sctx.backoff /\ saved' = saved
    BY <1>4, <1>t DEF SkyClose, SessionRecord
  <2>2. \A r \in Rctx : rctx'[r].phase = "idle"
    BY <1>4 DEF SkyClose, LiveOnlyOpen, IdleRequest
  <2> QED
    BY <2>1, <2>2 DEF AuthCoherent, Unsanctioned
<1>5. CASE SaveSession
  BY <1>5 DEF SaveSession, AuthCoherent, Unsanctioned, AuthState, RequestKind, IsTbrEnabled
<1>6. CASE Restart
  <2>1. \A r \in Rctx : rctx'[r].phase = "idle"
    BY <1>6 DEF Restart, IdleRequest
  <2>2. Unsanctioned'
    BY <1>6 DEF Restart, Unsanctioned, EmptySession, CorruptSession
  <2> QED
    BY <2>1, <2>2 DEF AuthCoherent
<1>7. ASSUME NEW r \in Rctx, Request(r)
      PROVE  AuthCoherent' /\ Unsanctioned'
  <2>1. CASE SkyNewRequest(r)
    <3>1. UNCHANGED <<sctx, saved>> /\ Unsanctioned'
      BY <2>1 DEF SkyNewRequest, Unsanctioned
    <3>2. AuthState' = AuthState /\ RequestKind' = RequestKind
      BY <3>1 DEF AuthState, RequestKind, IsTbrEnabled
    <3>3. CASE UNCHANGED rctx
      BY <3>1, <3>2, <3>3 DEF AuthCoherent
    <3>4. CASE ~UNCHANGED rctx
      <4>1. rctx'[r].auth = AuthState /\ rctx'[r].phase # "sent"
        BY <2>1, <3>4, <1>t DEF SkyNewRequest, RequestRecord
      <4>2. ASSUME NEW s \in Rctx
            PROVE  rctx'[s].auth = AuthState /\ rctx'[s].phase # "sent"
        <5>1. s = r
          BY DEF SingleTransaction
        <5> QED
          BY <4>1, <5>1
      <4> QED
        BY <3>1, <3>2, <4>2 DEF AuthCoherent
    <3> QED
      BY <3>1, <3>3, <3>4
  <2>2. CASE SkySizeofRequestBuf(r)
    <3>1. /\ sctx'.token = sctx.token /\ sctx'.sku = sctx.sku
          /\ sctx'.backoff = sctx.backoff /\ saved' = saved
      BY <2>2, <1>t DEF SkySizeofRequestBuf, SessionRecord
    <3>2. /\ rctx[r].phase = "built" /\ rctx'[r].phase = "sized"
          /\ rctx'[r].auth = rctx[r].auth
      BY <2>2, <1>t DEF SkySizeofRequestBuf, RequestRecord
    <3> QED
      BY <3>1, <3>2, SameRegistration DEF SingleTransaction, Unsanctioned
  <2>3. CASE SkyEncodeRequest(r)
    <3>1. UNCHANGED <<sctx, saved>> /\ Unsanctioned'
      BY <2>3 DEF SkyEncodeRequest, Unsanctioned
    <3>2. /\ rctx[r].phase # "idle" /\ rctx'[r].auth = rctx[r].auth
          /\ rctx'[r].phase = "sent" => rctx'[r].kind = RequestKind
      BY <2>3, <1>t DEF SkyEncodeRequest, RequestRecord
    <3> QED
      BY <3>1, <3>2, SameRegistration DEF SingleTransaction
  <2>4. CASE NoResponse(r)
    <3>1. UNCHANGED <<sctx, saved>> /\ Unsanctioned'
      BY <2>4 DEF NoResponse, Unsanctioned
    <3>2. /\ rctx[r].phase # "idle" /\ rctx'[r].auth = rctx[r].auth
          /\ rctx'[r].phase # "sent"
      BY <2>4, <1>t DEF NoResponse, RequestRecord
    <3> QED
      BY <3>1, <3>2, SameRegistration DEF SingleTransaction
  <2>5. CASE SkyDecodeGarbage(r)
    <3>1. /\ sctx'.token = sctx.token /\ sctx'.sku = sctx.sku
          /\ sctx'.backoff = sctx.backoff /\ saved' = saved
      BY <2>5, <1>t DEF SkyDecodeGarbage, SessionRecord
    <3>2. /\ rctx[r].phase # "idle" /\ rctx'[r].phase # "sent"
          /\ rctx'[r].auth = rctx[r].auth
      BY <2>5, <1>t DEF SkyDecodeGarbage, RequestRecord
    <3> QED
      BY <3>1, <3>2, SameRegistration DEF SingleTransaction, Unsanctioned
  <2>6. CASE SkyDecodeResponse(r)
    BY <2>6, DecodeKeepsRegistration
  <2> QED
    BY <1>7, <2>1, <2>2, <2>3, <2>4, <2>5, <2>6 DEF Request
<1> QED
  BY <1>1, <1>2, <1>3, <1>4, <1>5, <1>6, <1>7 DEF Next, SkyOpen

\* A new buffer is not registered.
LEMMA InitRegistrationInv == Init => RegistrationInv
<1> SUFFICES ASSUME Init PROVE AuthCoherent /\ Unsanctioned
  BY InitTypeOK, InitLiveOnlyOpen DEF RegistrationInv
<1> QED
  BY DEF Init, AuthCoherent, Unsanctioned, EmptySession, IdleRequest

\* Under one transaction at a time, and whatever the clock, the storage and
\* the server do, a registered session is under no sanction.
THEOREM RegistrationLifts ==
    ASSUME SingleTransaction
    PROVE  Spec => []RegisteredNotBlocked
<1>1. RegistrationInv /\ [Next]_vars => RegistrationInv'
  BY NextRegistrationInv
<1>2. RegistrationInv => RegisteredNotBlocked
  BY DEF RegistrationInv, Unsanctioned, RegisteredNotBlocked
<1> QED
  BY <1>1, <1>2, InitRegistrationInv, PTL DEF Spec

\* Under one transaction at a time, a location is reported exactly for the
\* located answers to location requests.
THEOREM AnswersMatch ==
    ASSUME SingleTransaction
    PROVE  Spec => ResponsesMatchRequests
<1>1. ASSUME RegistrationInv, NEW r \in Rctx, SkyDecodeResponse(r)
      PROVE  ret'.err = "SKY_ERROR_NONE" <=>
               rctx[r].kind # "registration" /\ ret'.status = "SUCCESS"
  <2>1. /\ rctx[r].phase = "sent" /\ rctx[r].auth = AuthState
        /\ rctx[r].kind = RequestKind
    BY <1>1 DEF SkyDecodeResponse, RegistrationInv, AuthCoherent
  <2>2. rctx[r].kind = "registration" <=> rctx[r].auth = "UNREGISTERED"
    BY <2>1 DEF AuthState, RequestKind, IsTbrEnabled
  <2>3. PICK rsp \in ServerResponse(rctx[r].kind) :
           ret' = Returned("decode", Outcome(Deserialized(rctx[r], rsp)).err, rsp.status)
    BY <1>1 DEF SkyDecodeResponse
  <2> DEFINE d == Deserialized(rctx[r], rsp)
  <2>4. d.status = "SUCCESS" <=>
           rctx[r].auth # "UNREGISTERED" /\ rsp.status = "SUCCESS"
    BY DEF Deserialized
  <2>5. d.status = "AUTH_ERROR" => d.auth # "DISABLED"
    BY <2>1 DEF Deserialized, AuthState
  <2>6. Outcome(d).err = "SKY_ERROR_NONE" <=> d.status = "SUCCESS"
    BY <2>5 DEF Outcome, NextBackoff
  <2>7. ret'.err = Outcome(d).err /\ ret'.status = rsp.status
    BY <2>3 DEF Returned
  <2> QED
    BY <2>2, <2>4, <2>6, <2>7
<1>2. RegistrationInv /\ [Next]_vars => RegistrationInv'
  BY NextRegistrationInv
<1>3. RegistrationInv /\ [Next]_vars =>
        [\A r \in Rctx :
           SkyDecodeResponse(r)
             => (ret'.err = "SKY_ERROR_NONE" <=>
                   rctx[r].kind # "registration" /\ ret'.status = "SUCCESS")]_vars
  BY <1>1
<1> QED
  BY <1>2, <1>3, InitRegistrationInv, PTL DEF Spec, ResponsesMatchRequests

(***************************************************************************)
(* The clock shows real time.                                              *)
(***************************************************************************)

\* The device's clock is set, and stays set.
SteadyClock == "clock" \notin Faults

\* A new buffer is not blocked.
LEMMA InitGateInv ==
    ASSUME SteadyClock
    PROVE  Init => GateInv
<1> SUFFICES ASSUME Init PROVE Timed
  BY InitTypeOK, InitLiveOnlyOpen DEF GateInv
<1> QED
  BY ClockAssumption DEF Init, SteadyClock, Timed, EmptySession, IdleRequest

\* A session opened afresh or continued is timed.
LEMMA OpenBaseTimed ==
    ASSUME GateInv, NEW sku, NEW partner, NEW key
    PROVE  LET s == OpenBase(sku, partner, key)
           IN  /\ s.heard <= now
               /\ s.backoff # "SKY_ERROR_NONE" => s.time = Epoch + s.heard
BY DEF OpenBase, EmptySession, GateInv, Timed, TypeOK

\* GateInv is inductive.
LEMMA NextGateInv ==
    ASSUME SteadyClock, GateInv, [Next]_vars
    PROVE  GateInv'
<1>t. /\ sctx \in SessionRecord /\ rctx \in [Rctx -> RequestRecord]
      /\ saved \in SessionRecord /\ now \in Nat
  BY DEF GateInv, TypeOK
<1>l. TypeOK' /\ LiveOnlyOpen'
  BY NextTypeOK, NextLiveOnlyOpen DEF GateInv
<1>c. Clock = Epoch + now /\ Epoch \in Nat
  BY ClockAssumption DEF Clock, GateInv, Timed
<1> SUFFICES Timed'
  BY <1>l DEF GateInv
<1> USE DEF GateInv
<1>s. ASSUME UNCHANGED <<now, clockSet, saved>>,
             sctx'.heard <= now,
             sctx'.backoff # "SKY_ERROR_NONE" => sctx'.time = Epoch + sctx'.heard,
             \A r \in Rctx : rctx'[r].time <= Epoch + now
      PROVE  Timed'
  BY <1>s DEF Timed
<1>r. \A r \in Rctx : rctx[r].time <= Epoch + now
  BY DEF Timed
<1>u. /\ sctx.heard <= now
      /\ sctx.backoff # "SKY_ERROR_NONE" => sctx.time = Epoch + sctx.heard
  BY DEF Timed
<1>i. IdleRequest.time <= Epoch + now
  BY <1>t, <1>c DEF IdleRequest
<1>1. CASE Tick
  <2>1. \A r \in Rctx : rctx[r].time \in Nat
    BY <1>t DEF RequestRecord
  <2>2. sctx.heard \in Nat /\ saved.heard \in Nat
    BY <1>t DEF SessionRecord
  <2> QED
    BY <1>1, <1>t, <1>c, <2>1, <2>2 DEF Tick, Timed
<1>2. CASE SkyOpenRefused \/ SaveSession \/ UNCHANGED vars
  BY <1>2 DEF SkyOpenRefused, SaveSession, vars, Timed
<1>3. CASE ClockChange
  BY <1>3 DEF ClockChange, SteadyClock
<1>4. ASSUME NEW sku \in Sku, NEW partner \in Partner, NEW key \in Key,
             SkyOpenBadParameters(sku, partner, key)
      PROVE  Timed'
  <2>1. /\ sctx'.heard <= now
        /\ sctx'.backoff # "SKY_ERROR_NONE" => sctx'.time = Epoch + sctx'.heard
    BY <1>4, <1>t, <1>u, OpenBaseTimed DEF SkyOpenBadParameters, SessionRecord
  <2> QED
    BY <1>4, <1>r, <1>s, <2>1 DEF SkyOpenBadParameters
<1>5. ASSUME NEW sku \in Sku, NEW partner \in Partner, NEW key \in Key,
             SkyOpenAccepted(sku, partner, key)
      PROVE  Timed'
  <2>1. OpenBase(sku, partner, key) \in SessionRecord
    BY OpenBaseType
  <2>2. /\ sctx'.heard <= now
        /\ sctx'.backoff # "SKY_ERROR_NONE" => sctx'.time = Epoch + sctx'.heard
    BY <1>5, <2>1, OpenBaseTimed DEF SkyOpenAccepted, SessionRecord
  <2> QED
    BY <1>5, <1>r, <1>s, <2>2 DEF SkyOpenAccepted
<1>6. CASE SkyClose
  <2>1. /\ sctx'.heard = sctx.heard /\ sctx'.backoff = sctx.backoff
        /\ sctx'.time = sctx.time
    BY <1>6, <1>t DEF SkyClose, SessionRecord
  <2>2. \A r \in Rctx : rctx'[r].time <= Epoch + now
    BY <1>6, <1>r, <1>i DEF SkyClose
  <2> QED
    BY <1>6, <1>s, <1>u, <2>1, <2>2 DEF SkyClose
<1>7. CASE Restart
  <2>1. /\ sctx'.heard <= now
        /\ sctx'.backoff # "SKY_ERROR_NONE" => sctx'.time = Epoch + sctx'.heard
    BY <1>7, <1>t DEF Restart, EmptySession, CorruptSession, Timed
  <2>2. \A r \in Rctx : rctx'[r].time <= Epoch + now
    BY <1>7, <1>i DEF Restart
  <2> QED
    BY <1>7, <1>s, <2>1, <2>2 DEF Restart
<1>8. ASSUME NEW r \in Rctx, Request(r)
      PROVE  Timed'
  <2>1. UNCHANGED <<now, clockSet, saved>>
    BY <1>8 DEF Request, SkyNewRequest, SkySizeofRequestBuf, SkyEncodeRequest,
                NoResponse, SkyDecodeGarbage, SkyDecodeResponse
  <2>2. \A q \in Rctx : rctx'[q].time <= Epoch + now
    <3>1. CASE SkyNewRequest(r)
      BY <3>1, <1>t, <1>r, <1>c DEF SkyNewRequest
    <3>2. CASE ~SkyNewRequest(r)
      <4>1. \A q \in Rctx : rctx'[q].time = rctx[q].time
        <5>1. CASE SkySizeofRequestBuf(r) \/ SkyEncodeRequest(r) \/ NoResponse(r)
          BY <5>1, <1>t DEF SkySizeofRequestBuf, SkyEncodeRequest, NoResponse, RequestRecord
        <5>2. CASE SkyDecodeGarbage(r)
          BY <5>2, <1>t DEF SkyDecodeGarbage, RequestRecord
        <5>3. CASE SkyDecodeResponse(r)
          BY <5>3, <1>t DEF SkyDecodeResponse, RequestRecord
        <5> QED
          BY <1>8, <3>2, <5>1, <5>2, <5>3 DEF Request
      <4> QED
        BY <4>1, <1>r
    <3> QED
      BY <3>1, <3>2
  <2>3. \/ /\ sctx'.heard = sctx.heard /\ sctx'.backoff = sctx.backoff
           /\ sctx'.time = sctx.time
        \/ sctx'.heard = now /\ sctx'.time = Epoch + now
    BY <1>8, <1>t, <1>c
       DEF Request, SkyNewRequest, SkySizeofRequestBuf, SkyEncodeRequest, NoResponse,
           SkyDecodeGarbage, SkyDecodeResponse, SessionRecord
  <2> QED
    BY <1>s, <1>t, <1>u, <2>1, <2>2, <2>3
<1> QED
  BY <1>1, <1>2, <1>3, <1>4, <1>5, <1>6, <1>7, <1>8 DEF Next, SkyOpen

\* A refusal of backoff_violation means that the prohibition runs, and a
\* request that is not refused leaves after it.
LEMMA ViolationMeansProhibited ==
    ASSUME GateInv, NEW t \in Nat, t <= Epoch + now
    PROVE  /\ BackoffViolation(t) /\ t = Epoch + now => now < ProhibitedUntil
           /\ ~BackoffViolation(t) => now >= ProhibitedUntil
<1>1. /\ sctx.backoff \in BackoffCode /\ sctx.heard \in Nat /\ now \in Nat
      /\ sctx.backoff # "SKY_ERROR_NONE" => sctx.time = Epoch + sctx.heard
      /\ Epoch \in Nat
  BY ClockAssumption DEF GateInv, TypeOK, SessionRecord, Timed
<1>2. CASE sctx.backoff \in {"SKY_ERROR_NONE", "SKY_AUTH_RETRY"}
  BY <1>1, <1>2 DEF BackoffViolation, ProhibitedUntil, Period, Rung
<1>3. CASE sctx.backoff = "SKY_AUTH_RETRY_8H"
  BY <1>1, <1>3, PeriodAssumption DEF BackoffViolation, ProhibitedUntil, Period, Rung
<1>4. CASE sctx.backoff = "SKY_AUTH_RETRY_16H"
  BY <1>1, <1>4, PeriodAssumption DEF BackoffViolation, ProhibitedUntil, Period, Rung
<1>5. CASE sctx.backoff = "SKY_AUTH_RETRY_1D"
  BY <1>1, <1>5, PeriodAssumption DEF BackoffViolation, ProhibitedUntil, Period, Rung
<1> QED
  BY <1>1, <1>2, <1>3, <1>4, <1>5 DEF BackoffCode

\* While the clock is set, sky_new_request turns the application away only
\* during a prohibition, with any number of transactions under way.
THEOREM AdmittedWhenOpen ==
    ASSUME SteadyClock
    PROVE  Spec => NewRequestAdmitted
<1>1. ASSUME GateInv, NEW r \in Rctx, SkyNewRequest(r),
             ret'.err = "SKY_ERROR_SERVICE_DENIED"
      PROVE  now < ProhibitedUntil
  <2>1. Clock = Epoch + now /\ Clock \in Nat /\ ~(Clock < Epoch)
    BY <1>1, ClockAssumption DEF Clock, GateInv, Timed, TypeOK
  <2>2. BackoffViolation(Clock)
    BY <1>1, <2>1 DEF SkyNewRequest, Returned
  <2> QED
    BY <1>1, <2>1, <2>2, ViolationMeansProhibited
<1>2. GateInv /\ [Next]_vars => GateInv'
  BY NextGateInv
<1>3. GateInv /\ [Next]_vars =>
        [\A r \in Rctx :
           SkyNewRequest(r) /\ ret'.err = "SKY_ERROR_SERVICE_DENIED"
             => now < ProhibitedUntil]_vars
  BY <1>1
<1> QED
  BY <1>2, <1>3, InitGateInv, PTL DEF Spec, NewRequestAdmitted

(***************************************************************************)
(* The session implements ServiceGate.                                     *)
(***************************************************************************)

\* The period a rung prohibits is a number, and a rung is one of five.
LEMMA RungType ==
    ASSUME NEW b
    PROVE  Rung(b) \in 0..4 /\ Period[Rung(b)] \in Nat
BY PeriodAssumption DEF Rung, Period

\* A response climbs the ladder by at most one rung, or leaves it.
LEMMA OutcomeRung ==
    ASSUME NEW d, sctx.backoff \in BackoffCode
    PROVE  LET l == Rung(Outcome(d).backoff) IN
           \/ l = Rung(sctx.backoff)
           \/ Rung(sctx.backoff) < 4 /\ l = Rung(sctx.backoff) + 1
           \/ l = 0
<1>1. ASSUME NEW b \in BackoffCode
      PROVE  \/ Rung(NextBackoff(b)) = Rung(b)
             \/ Rung(b) < 4 /\ Rung(NextBackoff(b)) = Rung(b) + 1
  BY <1>1 DEF Rung, NextBackoff, BackoffCode
<1>2. Rung("SKY_ERROR_NONE") = 0
  BY DEF Rung
<1>3. Outcome(d).backoff \in {"SKY_ERROR_NONE", sctx.backoff, NextBackoff(sctx.backoff)}
  BY DEF Outcome
<1> QED
  BY <1>1, <1>2, <1>3

\* When a session is replaced, its level and end of prohibition are those of
\* some earlier response.
LEMMA ReplacedSession ==
    ASSUME GateInv, GateInv', now' = now,
           \A r \in Rctx : rctx'[r].phase = "idle"
    PROVE  Gate!Replace
<1>1. sctx'.heard \in 0..now
  BY DEF GateInv, Timed, TypeOK, SessionRecord
<1>2. Rung(sctx'.backoff) \in 0..4
  BY RungType
<1>3. Period' = Period
  BY DEF Period
<1>4. ProhibitedUntil' = Gate!Until(Rung(sctx'.backoff), sctx'.heard)
  BY <1>3 DEF ProhibitedUntil, Gate!Until
<1>5. {r \in Rctx : rctx'[r].phase = "sent"} = {}
  OBVIOUS
<1> QED
  BY <1>1, <1>2, <1>4, <1>5 DEF Gate!Replace, Gate!Level

\* Ending transactions and changing nothing else is giving them up.
LEMMA GivenUp ==
    ASSUME now' = now, sctx'.backoff = sctx.backoff, sctx'.heard = sctx.heard,
           \A r \in Rctx : rctx'[r].phase = "sent" => rctx[r].phase = "sent"
    PROVE  Gate!Abandon
<1>1. ProhibitedUntil' = ProhibitedUntil /\ Rung(sctx.backoff)' = Rung(sctx.backoff)
  BY DEF ProhibitedUntil, Period, Rung
<1> QED
  BY <1>1 DEF Gate!Abandon

\* A response received now moves the level by at most one rung, and the
\* period of the new level starts now.
LEMMA Responded ==
    ASSUME NEW r \in Rctx, rctx[r].phase = "sent", now' = now, sctx'.heard = now,
           \/ Rung(sctx'.backoff) = Rung(sctx.backoff)
           \/ Rung(sctx.backoff) < 4 /\ Rung(sctx'.backoff) = Rung(sctx.backoff) + 1
           \/ Rung(sctx'.backoff) = 0,
           rctx'[r].phase # "sent",
           \A q \in Rctx \ {r} : rctx'[q].phase = rctx[q].phase
    PROVE  Gate!Respond(r)
<1>1. Period' = Period
  BY DEF Period
<1>2. ProhibitedUntil' = Gate!Until(Rung(sctx'.backoff), now)
  BY <1>1 DEF ProhibitedUntil, Gate!Until
<1>3. {q \in Rctx : rctx'[q].phase = "sent"}
        = {q \in Rctx : rctx[q].phase = "sent"} \ {r}
  OBVIOUS
<1> QED
  BY <1>2, <1>3 DEF Gate!Respond

\* A new buffer maps to an open gate.
LEMMA GateInit == Init => Gate!Init
BY DEF Init, Gate!Init, EmptySession, IdleRequest, Rung, ProhibitedUntil, Period

\* Every step of the session is a step of the gate or leaves it unchanged.
LEMMA GateStep ==
    ASSUME GateInv, GateInv', [Next]_vars
    PROVE  [Gate!Next]_(Gate!vars)
<1>t. /\ sctx \in SessionRecord /\ rctx \in [Rctx -> RequestRecord]
      /\ now \in Nat /\ LiveOnlyOpen
  BY DEF GateInv, TypeOK
<1>1. CASE Tick
  <2>1. ProhibitedUntil' = ProhibitedUntil /\ Rung(sctx.backoff)' = Rung(sctx.backoff)
    BY <1>1 DEF Tick, ProhibitedUntil, Period, Rung
  <2> QED
    BY <1>1, <1>t, <2>1 DEF Tick, Gate!Next, Gate!Advance
<1>2. CASE ClockChange \/ SkyOpenRefused \/ SaveSession \/ UNCHANGED vars
  <2>1. UNCHANGED <<now, sctx, rctx>>
    BY <1>2 DEF ClockChange, SkyOpenRefused, SaveSession, vars
  <2> QED
    BY <2>1, GivenUp DEF Gate!Next
<1>3. ASSUME NEW sku \in Sku, NEW partner \in Partner, NEW key \in Key,
             SkyOpenBadParameters(sku, partner, key) \/ SkyOpenAccepted(sku, partner, key)
      PROVE  Gate!Next
  <2>1. UNCHANGED <<now, rctx>> /\ \A r \in Rctx : rctx[r].phase = "idle"
    BY <1>3, <1>t, ClosedIsIdle DEF SkyOpenBadParameters, SkyOpenAccepted
  <2> QED
    BY <2>1, ReplacedSession DEF Gate!Next
<1>4. CASE SkyClose
  <2>1. sctx'.backoff = sctx.backoff /\ sctx'.heard = sctx.heard /\ now' = now
    BY <1>4, <1>t DEF SkyClose, SessionRecord
  <2>2. \A r \in Rctx : rctx'[r].phase = "sent" => rctx[r].phase = "sent"
    BY <1>4 DEF SkyClose, IdleRequest
  <2> QED
    BY <2>1, <2>2, GivenUp DEF Gate!Next
<1>5. CASE Restart
  <2>1. now' = now /\ \A r \in Rctx : rctx'[r].phase = "idle"
    BY <1>5 DEF Restart, IdleRequest
  <2> QED
    BY <2>1, ReplacedSession DEF Gate!Next
<1>6. ASSUME NEW r \in Rctx, Request(r)
      PROVE  Gate!Next
  <2>1. CASE SkyNewRequest(r)
    <3>1. UNCHANGED <<now, sctx>>
      BY <2>1 DEF SkyNewRequest
    <3>2. \A q \in Rctx : rctx'[q].phase = "sent" => rctx[q].phase = "sent"
      BY <2>1, <1>t DEF SkyNewRequest, RequestRecord
    <3> QED
      BY <3>1, <3>2, GivenUp DEF Gate!Next
  <2>2. CASE SkySizeofRequestBuf(r)
    <3>1. sctx'.backoff = sctx.backoff /\ sctx'.heard = sctx.heard /\ now' = now
      BY <2>2, <1>t DEF SkySizeofRequestBuf, SessionRecord
    <3>2. \A q \in Rctx : rctx'[q].phase = "sent" => rctx[q].phase = "sent"
      BY <2>2, <1>t DEF SkySizeofRequestBuf, RequestRecord
    <3> QED
      BY <3>1, <3>2, GivenUp DEF Gate!Next
  <2>3. CASE SkyEncodeRequest(r)
    <3>1. UNCHANGED <<now, sctx>>
      BY <2>3 DEF SkyEncodeRequest
    <3>2. CASE UNCHANGED rctx
      BY <3>1, <3>2, GivenUp DEF Gate!Next
    <3>3. CASE ~UNCHANGED rctx
      <4>1. /\ ~BackoffViolation(rctx[r].time)
            /\ rctx' = [rctx EXCEPT ![r].phase = "sent", ![r].kind = RequestKind]
        BY <2>3, <3>3 DEF SkyEncodeRequest
      <4>2. rctx[r].time \in Nat /\ rctx[r].time <= Epoch + now
        BY <1>t DEF RequestRecord, GateInv, Timed
      <4>3. now >= ProhibitedUntil
        BY <4>1, <4>2, ViolationMeansProhibited
      <4>4. {q \in Rctx : rctx'[q].phase = "sent"}
              = {q \in Rctx : rctx[q].phase = "sent"} \cup {r}
        BY <4>1, <1>t DEF RequestRecord
      <4>5. ProhibitedUntil' = ProhibitedUntil /\ Rung(sctx.backoff)' = Rung(sctx.backoff)
        BY <3>1 DEF ProhibitedUntil, Period, Rung
      <4> QED
        BY <3>1, <4>3, <4>4, <4>5 DEF Gate!Next, Gate!Generate
    <3> QED
      BY <3>2, <3>3
  <2>4. CASE NoResponse(r)
    <3>1. UNCHANGED <<now, sctx>>
      BY <2>4 DEF NoResponse
    <3>2. \A q \in Rctx : rctx'[q].phase = "sent" => rctx[q].phase = "sent"
      BY <2>4, <1>t DEF NoResponse, RequestRecord
    <3> QED
      BY <3>1, <3>2, GivenUp DEF Gate!Next
  <2>5. CASE SkyDecodeGarbage(r)
    <3>1. /\ rctx[r].phase = "sent" /\ now' = now /\ sctx'.heard = now
          /\ sctx'.backoff = sctx.backoff
      BY <2>5, <1>t DEF SkyDecodeGarbage, SessionRecord
    <3>2. /\ rctx'[r].phase # "sent"
          /\ \A q \in Rctx \ {r} : rctx'[q].phase = rctx[q].phase
      BY <2>5, <1>t DEF SkyDecodeGarbage, RequestRecord
    <3> QED
      BY <3>1, <3>2, Responded DEF Gate!Next
  <2>6. CASE SkyDecodeResponse(r)
    <3>1. PICK rsp \in ServerResponse(rctx[r].kind) :
            LET d == Deserialized(rctx[r], rsp) IN
            /\ sctx' = [sctx EXCEPT
                     !.time = Clock,
                     !.heard = now,
                     !.last_config_time =
                         IF rsp.body /\ @ = CONFIG_UPDATE_DUE THEN Clock ELSE @,
                     !.token = d.token,
                     !.backoff = Outcome(d).backoff]
            /\ rctx' = [rctx EXCEPT
                     ![r].phase = IF d.status = "SUCCESS" THEN "idle" ELSE "built",
                     ![r].kind = "none",
                     ![r].auth = d.auth]
      BY <2>6 DEF SkyDecodeResponse, ConfigTime
    <3> DEFINE d == Deserialized(rctx[r], rsp)
    <3>2. /\ rctx[r].phase = "sent" /\ now' = now /\ sctx'.heard = now
          /\ sctx'.backoff = Outcome(d).backoff
      BY <2>6, <3>1, <1>t DEF SkyDecodeResponse, SessionRecord
    <3>3. /\ rctx'[r].phase # "sent"
          /\ \A q \in Rctx \ {r} : rctx'[q].phase = rctx[q].phase
      BY <3>1, <1>t DEF RequestRecord
    <3>4. LET l == Rung(Outcome(d).backoff) IN
          \/ l = Rung(sctx.backoff)
          \/ Rung(sctx.backoff) < 4 /\ l = Rung(sctx.backoff) + 1
          \/ l = 0
      BY <1>t, OutcomeRung DEF SessionRecord
    <3> QED
      BY <3>2, <3>3, <3>4, Responded DEF Gate!Next
  <2> QED
    BY <1>6, <2>1, <2>2, <2>3, <2>4, <2>5, <2>6 DEF Request
<1> QED
  BY <1>1, <1>2, <1>3, <1>4, <1>5, <1>6 DEF Next, SkyOpen

\* While the clock is set, no request of any transaction leaves during a
\* prohibition, refusals climb the ladder one rung at a time, and only an
\* authorised response or another session takes it down.
THEOREM SessionKeepsGate ==
    ASSUME SteadyClock
    PROVE  Spec => ImplementsGate
<1>1. GateInv /\ [Next]_vars => GateInv'
  BY NextGateInv
<1>2. GateInv /\ GateInv' /\ [Next]_vars => [Gate!Next]_(Gate!vars)
  BY GateStep
<1> QED
  BY <1>1, <1>2, InitGateInv, GateInit, PTL DEF Spec, ImplementsGate, Gate!Spec

(***************************************************************************)
(* Configuration is not used when it is out of date.                       *)
(***************************************************************************)

\* What sky_sizeof_request_buf() found still holds when the request is encoded.
FreshWhenSized ==
    \A r \in Rctx :
       rctx[r].phase = "sized" /\ sctx.last_config_time # CONFIG_UPDATE_DUE
         => rctx[r].time - sctx.last_config_time <= ConfigInterval

\* Inductive if there is one transaction or the clock is set.
ConfigInv == TypeOK /\ LiveOnlyOpen /\ (SteadyClock => Timed) /\ FreshWhenSized

\* A response dates the configuration with the present time: it can harm only
\* another transaction, whose time is not later unless the clock was lost.
LEMMA DecodeKeepsFresh ==
    ASSUME SingleTransaction \/ SteadyClock, ConfigInv, NEW r \in Rctx, SkyDecodeResponse(r)
    PROVE  FreshWhenSized'
<1>t. sctx \in SessionRecord /\ rctx \in [Rctx -> RequestRecord]
  BY DEF ConfigInv, TypeOK
<1>1. /\ rctx[r].phase = "sent" /\ rctx'[r].phase # "sized"
      /\ \A q \in Rctx \ {r} : rctx'[q] = rctx[q]
      /\ sctx'.last_config_time \in {Clock, sctx.last_config_time}
  BY <1>t DEF SkyDecodeResponse, ConfigTime, RequestRecord, SessionRecord
<1> SUFFICES ASSUME NEW q \in Rctx, rctx'[q].phase = "sized",
                    sctx'.last_config_time # CONFIG_UPDATE_DUE
             PROVE  rctx'[q].time - sctx'.last_config_time <= ConfigInterval
  BY DEF FreshWhenSized, CONFIG_UPDATE_DUE
<1>2. q # r /\ rctx'[q] = rctx[q] /\ SteadyClock
  BY <1>1 DEF SingleTransaction
<1>3. CASE sctx'.last_config_time = sctx.last_config_time
  BY <1>2, <1>3 DEF ConfigInv, FreshWhenSized
<1>4. CASE sctx'.last_config_time = Clock
  <2>1. rctx[q].time <= Epoch + now /\ rctx[q].time \in Nat /\ now \in Nat
    BY <1>2, <1>t DEF ConfigInv, Timed, RequestRecord, TypeOK
  <2>2. Clock = Epoch + now /\ Epoch \in Nat /\ ConfigInterval \in Nat
    BY <1>2, ClockAssumption DEF ConfigInv, Timed, Clock
  <2> QED
    BY <1>2, <1>4, <2>1, <2>2
<1> QED
  BY <1>1, <1>3, <1>4

\* ConfigInv is inductive.
LEMMA NextConfigInv ==
    ASSUME SingleTransaction \/ SteadyClock, ConfigInv, [Next]_vars
    PROVE  ConfigInv'
<1>t. sctx \in SessionRecord /\ rctx \in [Rctx -> RequestRecord] /\ LiveOnlyOpen
  BY DEF ConfigInv, TypeOK
<1>1. TypeOK' /\ LiveOnlyOpen' /\ (SteadyClock => Timed')
  BY NextTypeOK, NextLiveOnlyOpen, NextGateInv DEF ConfigInv, GateInv
<1> SUFFICES FreshWhenSized'
  BY <1>1 DEF ConfigInv
<1>i. ASSUME \A r \in Rctx : rctx'[r].phase # "sized"
      PROVE  FreshWhenSized'
  BY <1>i DEF FreshWhenSized
<1>k. ASSUME \/ sctx'.last_config_time = sctx.last_config_time
             \/ sctx'.last_config_time = CONFIG_UPDATE_DUE,
             \A r \in Rctx : rctx'[r].phase = "sized"
                => rctx[r].phase = "sized" /\ rctx'[r].time = rctx[r].time
      PROVE  FreshWhenSized'
  BY <1>k DEF ConfigInv, FreshWhenSized, CONFIG_UPDATE_DUE
<1>2. CASE Tick \/ ClockChange \/ SkyOpenRefused \/ SaveSession \/ UNCHANGED vars
  BY <1>2, <1>k DEF Tick, ClockChange, SkyOpenRefused, SaveSession, vars
<1>3. ASSUME NEW sku \in Sku, NEW partner \in Partner, NEW key \in Key,
             SkyOpenBadParameters(sku, partner, key) \/ SkyOpenAccepted(sku, partner, key)
      PROVE  FreshWhenSized'
  <2>1. UNCHANGED rctx /\ \A r \in Rctx : rctx[r].phase = "idle"
    BY <1>3, <1>t, ClosedIsIdle DEF SkyOpenBadParameters, SkyOpenAccepted
  <2> QED
    BY <2>1, <1>i
<1>4. CASE SkyClose
  BY <1>4, <1>t, <1>k DEF SkyClose, IdleRequest, SessionRecord
<1>5. CASE Restart
  BY <1>5, <1>i DEF Restart, IdleRequest
<1>6. ASSUME NEW r \in Rctx, Request(r)
      PROVE  FreshWhenSized'
  <2>1. CASE SkyNewRequest(r)
    BY <2>1, <1>t, <1>k DEF SkyNewRequest, RequestRecord
  <2>2. CASE SkySizeofRequestBuf(r)
    <3>1. /\ \/ sctx'.last_config_time = CONFIG_UPDATE_DUE
             \/ /\ sctx'.last_config_time = sctx.last_config_time
                /\ ~(rctx[r].time - sctx.last_config_time > ConfigInterval)
          /\ \A q \in Rctx : rctx'[q].time = rctx[q].time
          /\ \A q \in Rctx \ {r} : rctx'[q].phase = rctx[q].phase
      BY <2>2, <1>t DEF SkySizeofRequestBuf, RequestRecord, SessionRecord
    <3>2. /\ rctx[r].time \in Nat /\ sctx.last_config_time \in Nat /\ ConfigInterval \in Nat
      BY <1>t, ClockAssumption DEF RequestRecord, SessionRecord
    <3> QED
      BY <3>1, <3>2 DEF ConfigInv, FreshWhenSized, CONFIG_UPDATE_DUE
  <2>3. CASE SkyEncodeRequest(r)
    BY <2>3, <1>t, <1>k DEF SkyEncodeRequest, RequestRecord
  <2>4. CASE NoResponse(r)
    BY <2>4, <1>t, <1>k DEF NoResponse, RequestRecord
  <2>5. CASE SkyDecodeGarbage(r)
    BY <2>5, <1>t, <1>k DEF SkyDecodeGarbage, RequestRecord, SessionRecord
  <2>6. CASE SkyDecodeResponse(r)
    BY <2>6, DecodeKeepsFresh
  <2> QED
    BY <1>6, <2>1, <2>2, <2>3, <2>4, <2>5, <2>6 DEF Request
<1> QED
  BY <1>2, <1>3, <1>4, <1>5, <1>6 DEF Next, SkyOpen

\* With one transaction at a time, or with any number while the clock is set, a
\* request that does not ask for configuration leaves only while the session's
\* is at most ConfigInterval older than the request.
THEOREM ConfigInDate ==
    ASSUME SingleTransaction \/ SteadyClock
    PROVE  Spec => ConfigNeverStale
<1>1. ASSUME Init PROVE ConfigInv
  <2>1. TypeOK /\ LiveOnlyOpen
    BY <1>1, InitTypeOK, InitLiveOnlyOpen
  <2>2. SteadyClock => Timed
    BY <1>1, InitGateInv DEF GateInv
  <2>3. FreshWhenSized
    BY <1>1 DEF Init, FreshWhenSized, IdleRequest
  <2> QED
    BY <2>1, <2>2, <2>3 DEF ConfigInv
<1>2. ConfigInv /\ [Next]_vars => ConfigInv'
  BY NextConfigInv
<1>3. ConfigInv /\ [Next]_vars =>
        [\A r \in Rctx :
           rctx[r].phase = "sized" /\ rctx'[r].phase = "sent"
             /\ sctx.last_config_time # CONFIG_UPDATE_DUE
             => rctx[r].time - sctx.last_config_time <= ConfigInterval]_vars
  BY DEF ConfigInv, FreshWhenSized
<1> QED
  BY <1>1, <1>2, <1>3, PTL DEF Spec, ConfigNeverStale

=============================================================================
