------------------------- MODULE NetworkTokensProofs -------------------------
(***************************************************************************)
(* Theorems about NetworkTokens, for any number of calls, retries and dates. *)
(***************************************************************************)
EXTENDS NetworkTokens, FiniteSetTheorems, TLAPS

SrvStates == {"none", "arrived", "store", "store_dual", "find", "found", "halfread", "halfwritten",
              "refused", "network", "dual_vault", "valid", "info", "refreshed", "closed"}

(* What a call has asked for, and how many requests it may have sent.          *)
CallInv ==
    /\ tries \in [Callers -> Nat]
    /\ \A c \in Callers :
        /\ mgr[c] = "idle" <=> op[c] = "none"
        /\ mgr[c] = "idle" <=> tries[c] = 0
        /\ mgr[c] = "backoff" => op[c] = "create" /\ tries[c] <= MaxRetries
        /\ op[c] = "create" => tries[c] <= MaxRetries + 1 /\ date[c] \in Dates
        /\ op[c] \in {"validate", "refresh"} => tries[c] <= 1
        /\ op[c] = "info" => tries[c] <= 2
        /\ op[c] \in {"validate", "info", "refresh"} => want[c] \in Tokens
        /\ op[c] = "refresh" => date[c] \in Dates

(* What a handler is at belongs to what its call is about.                   *)
RequestInv ==
    \A q \in Slots :
        /\ q[2] > tries[q[1]] => srv[q] = "none"
        /\ srv[q] \in {"store", "store_dual", "network", "dual_vault"} => op[q[1]] = "create"
        /\ srv[q] \in {"find", "found"} => op[q[1]] \in {"validate", "info", "refresh"}
        /\ srv[q] = "valid" => op[q[1]] = "validate"
        /\ srv[q] \in {"halfread", "info"} => op[q[1]] = "info"
        /\ srv[q] \in {"halfwritten", "refreshed"} => op[q[1]] = "refresh"

IType == TypeOK /\ CallInv /\ RequestInv

LEMMA SlotBound == Max2(MaxRetries + 1, 2) \in Nat /\ MaxRetries + 1 <= Max2(MaxRetries + 1, 2)
                    /\ 2 <= Max2(MaxRetries + 1, 2)
BY NetworkTokensAssumption DEF Max2

LEMMA CurrentIsSlot ==
    ASSUME IType, NEW c \in Callers, mgr[c] # "idle"
    PROVE  Current(c) \in Slots /\ Current(c)[1] = c /\ Current(c)[2] = tries[c]
<1>1. tries[c] \in 1 .. Max2(MaxRetries + 1, 2)
  <2>1. op[c] \in {"create", "validate", "info", "refresh"}
    BY DEF IType, CallInv, TypeOK
  <2>2. tries[c] \in Nat /\ tries[c] # 0
    BY DEF IType, CallInv
  <2>3. tries[c] <= MaxRetries + 1 \/ tries[c] <= 2
    BY <2>1, <2>2 DEF IType, CallInv
  <2> QED
    BY <2>2, <2>3, SlotBound, NetworkTokensAssumption
<1> QED
  BY <1>1 DEF Current, Slots

(* The steps of the service leave the calls alone.                           *)
LEMMA ServeType == IType /\ (\E q \in Slots : Serve(q)) => IType'
<1> SUFFICES ASSUME IType, NEW q \in Slots, Serve(q) PROVE IType'
  OBVIOUS
<1> USE DEF Kept, mgrVars, Enter, At, InMap, Writing
<1>q. q[1] \in Callers /\ q \in Tokens
  BY DEF Slots, Tokens
<1>i. TypeOK /\ CallInv /\ RequestInv
  BY DEF IType
<1>c. CallInv'
  <2>1. UNCHANGED <<op, mgr, tries, want, date>>
    BY DEF Serve, Refuse, BeginStore, BeginStoreDual, EndStore, BeginFind, EndFind, Validate,
           ReadCard, ReadExpiresAt, WriteCard, WriteExpiresAt
  <2> QED
    BY <1>i, <2>1 DEF CallInv
<1>1. CASE Refuse(q) \/ BeginStore(q) \/ BeginStoreDual(q) \/ BeginFind(q)
  <2>1. TypeOK'
    BY <1>1, <1>i DEF Refuse, BeginStore, BeginStoreDual, BeginFind, TypeOK
  <2>2. RequestInv'
    <3>1. CASE Refuse(q) \/ BeginStore(q) \/ BeginStoreDual(q)
      BY <1>i, <3>1 DEF Refuse, BeginStore, BeginStoreDual, RequestInv, TypeOK
    <3>2. CASE BeginFind(q)
      <4>1. op[q[1]] \in {"validate", "info", "refresh"}
        <5>1. q[2] <= tries[q[1]]
          BY <1>i, <1>q, <3>2, SlotBound DEF BeginFind, RequestInv, CallInv, Slots
        <5>2. tries[q[1]] # 0
          BY <1>q, <5>1, SlotBound DEF Slots
        <5> QED
          BY <1>i, <1>q, <3>2, <5>2 DEF BeginFind, TypeOK, CallInv
      <4> QED
        BY <1>i, <3>2, <4>1 DEF BeginFind, RequestInv, TypeOK
    <3> QED
      BY <1>1, <3>1, <3>2
  <2> QED
    BY <1>c, <2>1, <2>2 DEF IType
<1>2. CASE EndStore(q)
  <2>1. Token(date[q[1]], date[q[1]]) \in Expiries
    BY <1>q, <1>i DEF Token, Expiries, TypeOK
  <2>2. TypeOK'
    BY <1>2, <1>i, <1>q, <2>1 DEF EndStore, Stored, TypeOK
  <2>3. RequestInv'
    BY <1>2, <1>i DEF EndStore, RequestInv, TypeOK
  <2> QED
    BY <1>c, <2>2, <2>3 DEF IType
<1>3. CASE EndFind(q) \/ Validate(q)
  <2>1. TypeOK'
    BY <1>3, <1>i DEF EndFind, Validate, TypeOK
  <2>2. RequestInv'
    BY <1>3, <1>i DEF EndFind, Validate, RequestInv, TypeOK
  <2> QED
    BY <1>c, <2>1, <2>2 DEF IType
<1>4. CASE ReadCard(q) \/ ReadExpiresAt(q)
  <2>1. want[q[1]] \in Tokens /\ srv[q] \in {"found", "halfread"} /\ op[q[1]] = "info"
    BY <1>4, <1>q, <1>i DEF ReadCard, ReadExpiresAt, CallInv, RequestInv
  <2>2. vault[want[q[1]]] \in Expiries /\ seen[q] \in Expiries
    BY <1>i, <2>1 DEF TypeOK
  <2>3. seen' \in [Slots -> Expiries]
    <3>1. seen \in [Slots -> Expiries]
      BY <1>i DEF TypeOK
    <3>2. seen'[q] \in Expiries /\ seen' = [seen EXCEPT ![q] = seen'[q]]
      BY <1>4, <2>2, <3>1 DEF ReadCard, ReadExpiresAt, Expiries
    <3> QED
      BY <3>1, <3>2
  <2>4. TypeOK'
    BY <1>4, <1>i, <2>3 DEF ReadCard, ReadExpiresAt, TypeOK
  <2>5. RequestInv'
    BY <1>4, <1>i, <2>1 DEF ReadCard, ReadExpiresAt, RequestInv, TypeOK
  <2> QED
    BY <1>c, <2>4, <2>5 DEF IType
<1>5. CASE WriteCard(q) \/ WriteExpiresAt(q)
  <2> DEFINE t == want[q[1]]
  <2>1. t \in Tokens /\ op[q[1]] = "refresh" /\ date[q[1]] \in Dates
    BY <1>5, <1>q, <1>i DEF WriteCard, WriteExpiresAt, CallInv, RequestInv
  <2>2. vault[t] \in Expiries
    BY <1>i, <2>1 DEF TypeOK
  <2>3. vault' \in [Tokens -> Expiries]
    <3>1. vault \in [Tokens -> Expiries]
      BY <1>i DEF TypeOK
    <3>2. vault'[t] \in Expiries /\ vault' = [vault EXCEPT ![t] = vault'[t]]
      BY <1>5, <2>1, <2>2, <3>1 DEF WriteCard, WriteExpiresAt, Expiries
    <3> QED
      BY <3>1, <3>2
  <2>4. TypeOK'
    BY <1>5, <1>i, <2>3 DEF WriteCard, WriteExpiresAt, Asking, TypeOK
  <2>5. RequestInv'
    BY <1>5, <1>i, <2>1 DEF WriteCard, WriteExpiresAt, RequestInv, TypeOK
  <2> QED
    BY <1>c, <2>4, <2>5 DEF IType
<1> QED
  BY <1>1, <1>2, <1>3, <1>4, <1>5 DEF Serve

(* The steps of a call.                                                     *)
LEMMA ManageType ==
    IType /\ (\E c \in Callers : Manage(c) \/ \E o \in {"create", "validate", "refresh"},
                                 t \in granted, d \in Dates : Call(c, o, t, d)) => IType'
<1> SUFFICES ASSUME IType, NEW c \in Callers,
                    Manage(c) \/ \E o \in {"create", "validate", "refresh"}, t \in granted,
                                    d \in Dates : Call(c, o, t, d)
             PROVE  IType'
  OBVIOUS
<1>i. TypeOK /\ CallInv /\ RequestInv
  BY DEF IType
<1>s. \A q \in Slots : q[1] \in Callers /\ q[2] \in Nat \ {0} /\ q = <<q[1], q[2]>>
  BY SlotBound DEF Slots
<1>k. mgr[c] # "idle" => Current(c) \in Slots /\ Current(c)[1] = c /\ Current(c)[2] = tries[c]
  BY CurrentIsSlot
<1>n. NoAnswer \in [ok : BOOLEAN, token : Tokens \cup {None}, got : Expiries] /\ Nothing \in Expiries
  BY DEF NoAnswer, Nothing, Token, Expiries
<1>c. ASSUME mgr[c] # "idle", Close(c), UNCHANGED <<op, tries>> PROVE RequestInv'
  <2>1. srv' = [srv EXCEPT ![Current(c)] = "closed"] /\ srv \in [Slots -> SrvStates]
    BY <1>c, <1>i DEF Close, TypeOK, SrvStates
  <2> QED
    BY <1>c, <1>i, <1>k, <2>1 DEF RequestInv, CallInv
<1>b. CallInv' /\ op' \in [Callers -> {"none", "create", "validate", "info", "refresh"}]
        => \A x \in Callers : tries'[x] <= IF op'[x] = "create" THEN MaxRetries + 1 ELSE 2
  <2> SUFFICES ASSUME CallInv', NEW x \in Callers,
                      op'[x] \in {"none", "create", "validate", "info", "refresh"}
               PROVE  tries'[x] <= IF op'[x] = "create" THEN MaxRetries + 1 ELSE 2
    OBVIOUS
  <2>1. tries'[x] \in Nat /\ (op'[x] = "none" => tries'[x] = 0)
    BY DEF CallInv
  <2> QED
    BY <2>1 DEF CallInv
<1>1. ASSUME NEW o \in {"create", "validate", "refresh"}, NEW t \in granted, NEW d \in Dates,
             Call(c, o, t, d)
      PROVE  IType'
  <2>2. CallInv'
    BY <1>1, <1>i, NetworkTokensAssumption DEF Call, Send, TypeOK, CallInv
  <2>1. TypeOK'
    BY <1>1, <1>i, <1>b, <2>2 DEF Call, Send, TypeOK
  <2>3. RequestInv'
    BY <1>1, <1>i, <1>s DEF Call, Send, TypeOK, CallInv, RequestInv
  <2> QED
    BY <2>1, <2>2, <2>3 DEF IType
<1>2. CASE Created(c)
  <2>1. Current(c) \in Tokens
    BY <1>2, <1>k DEF Created, Tokens
  <2>2. TypeOK'
    BY <1>2, <1>i, <1>n, <2>1 DEF Created, Close, Return, TypeOK
  <2>3. CallInv'
    BY <1>2, <1>i DEF Created, Close, Return, TypeOK, CallInv
  <2>4. RequestInv'
    BY <1>2, <1>c DEF Created
  <2> QED
    BY <2>2, <2>3, <2>4 DEF IType
<1>3. ASSUME BackOff(c), mgr[c] = "waiting", UNCHANGED <<op, tries, want, date>>
      PROVE  CallInv' /\ mgr' \in [Callers -> {"idle", "waiting", "backoff", "returned"}]
             /\ answer' \in [Callers -> [ok : BOOLEAN, token : Tokens \cup {None}, got : Expiries]]
             /\ granted' = granted
  <2>1. CASE op[c] = "create" /\ TriesLeft(c)
    BY <1>3, <1>i, <2>1 DEF BackOff, TriesLeft, TypeOK, CallInv
  <2>2. CASE ~(op[c] = "create" /\ TriesLeft(c))
    <3>1. Return(c, NoAnswer) /\ NoAnswer.ok = FALSE
      BY <1>3, <2>2 DEF BackOff, NoAnswer
    <3> QED
      BY <1>3, <1>i, <1>n, <3>1 DEF Return, TypeOK, CallInv
  <2> QED
    BY <2>1, <2>2
<1>4. CASE Refused(c)
  <2>1. Return(c, NoAnswer) \/ BackOff(c)
    BY <1>4 DEF Refused
  <2>2. /\ CallInv' /\ mgr' \in [Callers -> {"idle", "waiting", "backoff", "returned"}]
        /\ answer' \in [Callers -> [ok : BOOLEAN, token : Tokens \cup {None}, got : Expiries]]
        /\ granted' = granted
    <3>1. CASE Return(c, NoAnswer)
      BY <1>4, <1>i, <1>n, <3>1 DEF Refused, Return, NoAnswer, TypeOK, CallInv
    <3> QED
      BY <1>3, <1>4, <2>1, <3>1 DEF Refused
  <2>3. TypeOK'
    BY <1>4, <1>i, <2>2 DEF Refused, Close, TypeOK
  <2>4. RequestInv'
    BY <1>4, <1>c DEF Refused
  <2> QED
    BY <2>2, <2>3, <2>4 DEF IType
<1>5. CASE ConnectionFails(c)
  <2>1. /\ CallInv' /\ mgr' \in [Callers -> {"idle", "waiting", "backoff", "returned"}]
        /\ answer' \in [Callers -> [ok : BOOLEAN, token : Tokens \cup {None}, got : Expiries]]
        /\ granted' = granted
    BY <1>3, <1>5 DEF ConnectionFails
  <2> QED
    BY <1>5, <1>i, <2>1 DEF ConnectionFails, TypeOK, RequestInv, IType
<1>6. CASE Retry(c)
  <2>2. CallInv'
    BY <1>6, <1>i, NetworkTokensAssumption DEF Retry, Send, TypeOK, CallInv
  <2>1. TypeOK'
    BY <1>6, <1>i, <1>b, <2>2 DEF Retry, Send, TypeOK
  <2>3. RequestInv'
    BY <1>6, <1>i, <1>s DEF Retry, Send, TypeOK, CallInv, RequestInv
  <2> QED
    BY <2>1, <2>2, <2>3 DEF IType
<1>7. CASE GiveUp(c)
  BY <1>7, <1>i, <1>n DEF GiveUp, Return, NoAnswer, TypeOK, CallInv, RequestInv, IType
<1>8. CASE Validated(c)
  <2>1. tries[c] = 1
    BY <1>8, <1>i DEF Validated, CallInv
  <2>3. CallInv'
    BY <1>8, <1>i, <2>1 DEF Validated, TypeOK, CallInv
  <2>2. TypeOK'
    BY <1>8, <1>i, <1>b, <2>3 DEF Validated, TypeOK
  <2>4. RequestInv'
    <3> SUFFICES ASSUME NEW q \in Slots PROVE RequestInv!(q)'
      BY DEF RequestInv
    <3>1. CASE q[1] # c
      BY <1>8, <1>i, <1>s, <1>k, <3>1 DEF Validated, TypeOK, RequestInv, Current
    <3>2. CASE q = <<c, 1>>
      BY <1>8, <1>i, <1>s, <1>k, <2>1, <3>2 DEF Validated, TypeOK, RequestInv, Current
    <3>3. CASE q = <<c, 2>>
      <4>1. srv'[q] = "arrived"
        BY <1>8, <1>i, <2>1, <3>3 DEF Validated, TypeOK, Current
      <4>2. tries'[c] = 2 /\ q[1] = c /\ q[2] = 2
        BY <1>8, <1>i, <2>1, <3>3 DEF Validated, CallInv
      <4> QED
        BY <4>1, <4>2
    <3>4. CASE q[1] = c /\ q[2] > 2
      BY <1>8, <1>i, <1>s, <1>k, <2>1, <3>4 DEF Validated, TypeOK, RequestInv, Current
    <3> QED
      BY <1>s, <3>1, <3>2, <3>3, <3>4
  <2> QED
    BY <2>2, <2>3, <2>4 DEF IType
<1>9. CASE Informed(c) \/ Refreshed(c)
  <2>1. want[c] \in Tokens /\ seen[Current(c)] \in Expiries
    BY <1>9, <1>i, <1>k DEF Informed, Refreshed, CallInv, TypeOK
  <2>2. TypeOK'
    <3>1. CASE Informed(c)
      <4>1. /\ [ok |-> TRUE, token |-> want[c], got |-> seen[Current(c)]]
                 \in [ok : BOOLEAN, token : Tokens \cup {None}, got : Expiries]
            /\ granted \cup ({want[c]} \cap minted) \subseteq Tokens
        BY <2>1, <1>i DEF TypeOK
      <4> QED
        BY <1>i, <3>1, <4>1 DEF Informed, Close, Return, TypeOK
    <3>2. CASE Refreshed(c)
      <4>1. /\ [ok |-> TRUE, token |-> want[c], got |-> Nothing]
                 \in [ok : BOOLEAN, token : Tokens \cup {None}, got : Expiries]
            /\ granted \cup ({want[c]} \cap minted) \subseteq Tokens
        BY <2>1, <1>i, <1>n DEF TypeOK
      <4> QED
        BY <1>i, <3>2, <4>1 DEF Refreshed, Close, Return, TypeOK
    <3> QED
      BY <1>9, <3>1, <3>2
  <2>3. CallInv'
    BY <1>9, <1>i DEF Informed, Refreshed, Close, Return, TypeOK, CallInv
  <2>4. RequestInv'
    BY <1>9, <1>c DEF Informed, Refreshed
  <2> QED
    BY <2>2, <2>3, <2>4 DEF IType
<1> QED
  BY <1>1, <1>2, <1>4, <1>5, <1>6, <1>7, <1>8, <1>9 DEF Manage

LEMMA ITypeStays == IType /\ [Next]_vars => IType'
<1> SUFFICES ASSUME IType, [Next]_vars PROVE IType'
  OBVIOUS
<1>1. CASE \E d \in Dates : MonthBegins(d)
  BY <1>1 DEF MonthBegins, Asking, Kept, mgrVars, IType, TypeOK, CallInv, RequestInv
<1>2. CASE Die
  <2>1. TypeOK'
    BY <1>2 DEF Die, Kept, mgrVars, IType, TypeOK, Expiries, Nothing, Token
  <2>2. CallInv' /\ RequestInv'
    BY <1>2 DEF Die, Kept, mgrVars, IType, TypeOK, CallInv, RequestInv
  <2> QED
    BY <2>1, <2>2 DEF IType
<1>3. CASE UNCHANGED vars
  BY <1>3 DEF vars, IType, TypeOK, CallInv, RequestInv
<1> QED
  BY <1>1, <1>2, <1>3, ServeType, ManageType DEF Next

LEMMA ITypeHolds == Spec => []IType
<1>1. Init => IType
  <2> SUFFICES ASSUME Init PROVE IType
    OBVIOUS
  <2>1. vault \in [Tokens -> Expiries] /\ seen \in [Slots -> Expiries]
    BY DEF Init, Expiries, Nothing, Token
  <2>2. TypeOK
    BY <2>1, NetworkTokensAssumption DEF Init, TypeOK, NoAnswer, Nothing, Token, Expiries, Tokens
  <2> QED
    BY <2>2 DEF Init, IType, CallInv, RequestInv
<1> QED
  BY <1>1, ITypeStays, PTL DEF Spec

(* Every variable of the service and of the manager keeps its type, and no call *)
(* sends more requests than its retries allow.                              *)
THEOREM TypeCorrect == Spec => []TypeOK
BY ITypeHolds, PTL DEF IType

-----------------------------------------------------------------------------
(* The mutex.                                                               *)
Exclusive ==
    \A p, q \in Slots : p # q /\ srv[p] = "store" => srv[q] \notin {"store", "find"}

(* Nobody but who takes the lock gets to where it is needed.                 *)
LEMMA OnlyBeginEnters ==
    ASSUME IType, [Next]_vars, NEW q \in Slots, srv'[q] \in {"store", "find"}
    PROVE  \/ srv'[q] = srv[q]
           \/ /\ BeginStore(q) \/ BeginFind(q)
              /\ \A p \in Slots : p # q => srv'[p] = srv[p]
<1> USE DEF At, Enter, Kept
<1>t. srv \in [Slots -> SrvStates]
  BY DEF IType, TypeOK, SrvStates
<1>1. ASSUME NEW c \in Callers, NEW o, NEW t, NEW d, Call(c, o, t, d) PROVE srv'[q] = srv[q]
  BY <1>1, <1>t DEF Call, Send
<1>2. ASSUME NEW c \in Callers, Manage(c) PROVE srv'[q] = srv[q]
  BY <1>2, <1>t DEF Manage, Created, Refused, ConnectionFails, Retry, GiveUp, Validated, Informed,
     Refreshed, Close, Send, mgrVars
<1>3. ASSUME NEW p \in Slots, Serve(p), ~BeginStore(p), ~BeginFind(p) PROVE srv'[q] = srv[q]
  BY <1>3, <1>t DEF Serve, Refuse, BeginStoreDual, EndStore, EndFind, Validate, ReadCard,
     ReadExpiresAt, WriteCard, WriteExpiresAt
<1>4. ASSUME NEW p \in Slots, BeginStore(p) \/ BeginFind(p)
      PROVE  /\ p # q => srv'[q] = srv[q]
             /\ \A x \in Slots : x # p => srv'[x] = srv[x]
  BY <1>4, <1>t DEF BeginStore, BeginFind
<1>5. ASSUME NEW d \in Dates, MonthBegins(d) PROVE srv'[q] = srv[q]
  BY <1>5 DEF MonthBegins
<1>6. ~Die
  BY DEF Die
<1>7. CASE UNCHANGED vars
  BY <1>7 DEF vars
<1> QED
  BY <1>1, <1>2, <1>3, <1>4, <1>5, <1>6, <1>7 DEF Next

(* The map is accessed by one writer alone, or by readers, but for the paths    *)
(* that store a dual-vault token.                                           *)
THEOREM RacesNeedDualVault == Spec => []RaceNeedsDualVault
<1>1. Init => Exclusive
  BY DEF Init, Exclusive
<1>2. IType /\ Exclusive /\ [Next]_vars => Exclusive'
  <2> SUFFICES ASSUME IType, Exclusive, [Next]_vars, NEW p \in Slots, NEW q \in Slots, p # q,
                      srv'[p] = "store", srv'[q] \in {"store", "find"}
               PROVE  FALSE
    BY DEF Exclusive
  <2>1. CASE srv'[p] = srv[p] /\ srv'[q] = srv[q]
    BY <2>1 DEF Exclusive
  <2>2. CASE srv'[p] = srv[p] /\ (BeginStore(q) \/ BeginFind(q))
    BY <2>2 DEF BeginStore, BeginFind, Locked
  <2>3. CASE (BeginStore(p) \/ BeginFind(p)) /\ srv'[q] = srv[q]
    <3>1. BeginStore(p)
      BY <2>3 DEF BeginFind, Enter, At, IType, TypeOK
    <3> QED
      BY <2>3, <3>1 DEF BeginStore, Locked, RLocked
  <2>4. srv'[p] = srv[p] \/ srv'[q] = srv[q]
    BY OnlyBeginEnters
  <2> QED
    BY <2>1, <2>2, <2>3, <2>4, OnlyBeginEnters
<1>3. Exclusive => RaceNeedsDualVault
  BY DEF Exclusive, RaceNeedsDualVault, InMap, Writing
<1> QED
  BY <1>1, <1>2, <1>3, ITypeHolds, PTL DEF Spec

-----------------------------------------------------------------------------
(* A token is minted once, by the request it is named after, and stays known    *)
(* while the service lives; who found one will find it again.               *)
Holding == {"found", "valid", "halfread", "info", "halfwritten", "refreshed"}

Remembered(q) ==
    /\ q \in minted => srv[q] \in {"network", "dual_vault", "closed"} /\ op[q[1]] = "create"
    /\ q \in minted /\ srv[q] \in {"network", "dual_vault"} => vault[q] # Nothing
    /\ srv[q] \in Holding => vault[want[q[1]]] # Nothing

KnownInv ==
    /\ \A q \in Slots : Remembered(q)
    /\ \A t \in granted : vault[t] # Nothing

(* No write removes a token.                                                *)
LEMMA VaultKept ==
    ASSUME IType, [Next]_vars, ~Die, NEW t \in Tokens, vault[t] # Nothing
    PROVE  vault'[t] # Nothing
<1>t. /\ vault \in [Tokens -> Expiries] /\ None \notin Dates /\ CallInv /\ RequestInv
  BY NetworkTokensAssumption DEF IType, TypeOK
<1>s. \A q \in Slots : q[1] \in Callers /\ q[2] \in Nat \ {0}
  BY SlotBound DEF Slots
<1>1. ASSUME NEW q \in Slots, EndStore(q) PROVE vault'[t] # Nothing
  <2>1. op[q[1]] = "create" /\ q[1] \in Callers
    BY <1>1, <1>t, <1>s DEF EndStore, Writing, RequestInv
  <2>2. date[q[1]] \in Dates
    BY <1>t, <2>1 DEF CallInv
  <2> QED
    BY <1>1, <1>t, <2>2 DEF EndStore, Stored, Nothing, Token
<1>2. ASSUME NEW q \in Slots, WriteCard(q) \/ WriteExpiresAt(q) PROVE vault'[t] # Nothing
  <2>1. op[q[1]] = "refresh" /\ q[1] \in Callers
    BY <1>2, <1>t, <1>s DEF WriteCard, WriteExpiresAt, RequestInv
  <2>2. date[q[1]] \in Dates
    BY <1>t, <2>1 DEF CallInv
  <2>3. CASE t # want[q[1]]
    BY <1>2, <1>t, <2>3 DEF WriteCard, WriteExpiresAt
  <2>4. CASE t = want[q[1]]
    <3>1. vault[t] \in Expiries
      BY <1>t
    <3>2. vault'[t].card = date[q[1]] \/ vault'[t].until = date[q[1]]
      BY <1>2, <1>t, <2>4, <3>1 DEF WriteCard, WriteExpiresAt, Expiries
    <3> QED
      BY <1>t, <2>2, <3>2 DEF Nothing, Token
  <2> QED
    BY <2>3, <2>4
<1>3. CASE UNCHANGED vault
  BY <1>3
<1> QED
  BY <1>1, <1>2, <1>3 DEF Next, Call, Manage, Created, Refused, ConnectionFails, Retry, GiveUp,
     Validated, Informed, Refreshed, Serve, Refuse, BeginStore, BeginStoreDual, BeginFind, EndFind,
     Validate, ReadCard, ReadExpiresAt, MonthBegins, mgrVars, vars, Kept

(* What a step that is not Die makes of a request.                            *)
LEMMA RememberedStays ==
    ASSUME IType, KnownInv, [Next]_vars, ~Die, NEW q \in Slots
    PROVE  Remembered(q)'
<1> USE DEF Kept, mgrVars, At, Enter
<1>t. /\ srv \in [Slots -> SrvStates] /\ CallInv /\ RequestInv /\ Remembered(q)
      /\ op \in [Callers -> {"none", "create", "validate", "info", "refresh"}]
      /\ want \in [Callers -> Tokens \cup {None}] /\ vault \in [Tokens -> Expiries]
  BY DEF IType, TypeOK, SrvStates, KnownInv
<1>s. q[1] \in Callers /\ q[2] \in Nat \ {0} /\ q = <<q[1], q[2]>> /\ q \in Tokens
  BY SlotBound DEF Slots, Tokens
<1>v. \A x \in Tokens : vault[x] # Nothing => vault'[x] # Nothing
  BY VaultKept
<1>w. srv[q] \in Holding => want[q[1]] \in Tokens
  <2> SUFFICES ASSUME srv[q] \in Holding PROVE want[q[1]] \in Tokens
    OBVIOUS
  <2>1. op[q[1]] \in {"validate", "info", "refresh"}
    BY <1>t DEF Holding, RequestInv
  <2> QED
    BY <1>t, <1>s, <2>1 DEF CallInv
<1>1. CASE UNCHANGED <<srv[q], want[q[1]], minted>> /\ (op'[q[1]] = op[q[1]] \/ q \notin minted)
  BY <1>1, <1>t, <1>s, <1>v, <1>w DEF Remembered
<1>2. ASSUME srv'[q] \in {"closed", "arrived", "refused"}, q \in minted' => q \in minted,
             q \in minted => srv'[q] = "closed" /\ op'[q[1]] = op[q[1]]
      PROVE  Remembered(q)'
  BY <1>2, <1>t DEF Remembered, Holding
<1>3. ASSUME NEW c \in Callers, NEW o \in {"create", "validate", "refresh"}, NEW t \in granted,
             NEW d \in Dates, Call(c, o, t, d)
      PROVE  Remembered(q)'
  <2>1. CASE q[1] = c
    <3>1. srv[q] = "none" /\ q \notin minted
      BY <1>3, <1>t, <1>s, <2>1 DEF Call, CallInv, RequestInv, Remembered
    <3>2. srv'[q] \in {"none", "arrived"} /\ minted' = minted
      BY <1>3, <1>t, <3>1 DEF Call, Send
    <3> QED
      BY <3>1, <3>2 DEF Remembered, Holding
  <2>2. CASE q[1] # c
    BY <1>1, <1>3, <1>t, <1>s, <2>2 DEF Call, Send
  <2> QED
    BY <2>1, <2>2
<1>4. ASSUME NEW c \in Callers, Close(c), UNCHANGED <<op, want, minted>> PROVE Remembered(q)'
  BY <1>1, <1>2, <1>4, <1>t DEF Close
<1>5. ASSUME NEW c \in Callers, Manage(c) PROVE Remembered(q)'
  <2>1. CASE Created(c) \/ Refused(c) \/ Informed(c) \/ Refreshed(c)
    BY <1>4, <2>1 DEF Created, Refused, Informed, Refreshed
  <2>2. CASE ConnectionFails(c) \/ GiveUp(c)
    BY <1>1, <2>2 DEF ConnectionFails, GiveUp
  <2>3. CASE Retry(c)
    <3>1. CASE q = <<c, tries[c] + 1>>
      <4>1. srv[q] = "none" /\ q \notin minted
        BY <1>t, <1>s, <3>1 DEF CallInv, RequestInv, Remembered
      <4> QED
        BY <1>2, <1>t, <2>3, <3>1, <4>1 DEF Retry, Send
    <3>2. CASE q # <<c, tries[c] + 1>>
      BY <1>1, <1>t, <2>3, <3>2 DEF Retry, Send
    <3> QED
      BY <3>1, <3>2
  <2>4. CASE Validated(c)
    <3>1. q[1] = c => q \notin minted
      BY <1>t, <2>4 DEF Validated, Remembered
    <3>2. /\ op' = [op EXCEPT ![c] = "info"] /\ UNCHANGED <<want, minted>>
          /\ srv'[q] \in {srv[q], "closed", "arrived"}
      BY <1>t, <2>4 DEF Validated
    <3>3. q[1] # c => srv'[q] = srv[q]
      BY <1>t, <1>s, <2>4 DEF Validated, Current
    <3>4. q[1] # c => op'[q[1]] = op[q[1]]
      BY <1>t, <1>s, <3>2
    <3> QED
      BY <1>1, <1>2, <3>1, <3>2, <3>3, <3>4
  <2> QED
    BY <1>5, <2>1, <2>2, <2>3, <2>4 DEF Manage
<1>6. ASSUME NEW p \in Slots, p # q, Serve(p) PROVE Remembered(q)'
  <2>1. UNCHANGED <<op, want, srv[q]>> /\ (q \in minted' => q \in minted)
    BY <1>6, <1>t DEF Serve, Refuse, BeginStore, BeginStoreDual, EndStore, BeginFind, EndFind,
       Validate, ReadCard, ReadExpiresAt, WriteCard, WriteExpiresAt
  <2> QED
    BY <1>t, <1>v, <1>w, <1>s, <2>1 DEF Remembered
<1>7. CASE Serve(q)
  <2>1. q \notin minted
    BY <1>7, <1>t DEF Serve, Refuse, BeginStore, BeginStoreDual, EndStore, BeginFind, EndFind,
       Validate, ReadCard, ReadExpiresAt, WriteCard, WriteExpiresAt, Writing, Remembered
  <2>2. CASE EndStore(q)
    <3>1. srv'[q] \in {"network", "dual_vault"} /\ UNCHANGED <<op, want>>
      BY <1>t, <2>2 DEF EndStore
    <3>2. op[q[1]] = "create" /\ date[q[1]] \in Dates
      BY <1>t, <1>s, <2>2 DEF EndStore, Writing, RequestInv, CallInv
    <3>3. q \in minted' => vault'[q] = Token(date[q[1]], date[q[1]])
      BY <1>t, <1>s, <2>1, <2>2 DEF EndStore, Stored
    <3> QED
      BY <3>1, <3>2, <3>3, NetworkTokensAssumption DEF Remembered, Holding, Nothing, Token
  <2>3. CASE EndFind(q)
    BY <1>t, <2>1, <2>3 DEF EndFind, Remembered, Holding
  <2>4. CASE ~EndStore(q) /\ ~EndFind(q)
    <3>1. UNCHANGED <<op, want, minted>>
      BY <1>7, <2>4 DEF Serve, Refuse, BeginStore, BeginStoreDual, BeginFind,
         Validate, ReadCard, ReadExpiresAt, WriteCard, WriteExpiresAt
    <3>2. srv'[q] \in Holding => srv[q] \in Holding
      BY <1>7, <1>t, <2>4 DEF Serve, Refuse, BeginStore, BeginStoreDual, BeginFind,
         Validate, ReadCard, ReadExpiresAt, WriteCard, WriteExpiresAt, Holding
    <3> QED
      BY <1>t, <1>v, <1>w, <2>1, <3>1, <3>2 DEF Remembered
  <2> QED
    BY <2>2, <2>3, <2>4
<1>8. CASE \E d \in Dates : MonthBegins(d)
  BY <1>1, <1>8 DEF MonthBegins
<1>9. CASE UNCHANGED vars
  BY <1>1, <1>9 DEF vars
<1> QED
  BY <1>3, <1>5, <1>6, <1>7, <1>8, <1>9 DEF Next

LEMMA KnownInvStays == IType /\ KnownInv /\ [Next]_vars => KnownInv'
<1> SUFFICES ASSUME IType, KnownInv, [Next]_vars PROVE KnownInv'
  OBVIOUS
<1>1. CASE Die
  <2>1. granted' = {} /\ \A q \in Slots : srv'[q] \in {"none", "closed"}
    BY <1>1 DEF Die
  <2>2. \A q \in Slots : q \in minted => srv'[q] = "closed"
    BY <1>1 DEF Die, KnownInv, Remembered
  <2> QED
    BY <1>1, <2>1, <2>2 DEF Die, Kept, mgrVars, KnownInv, Remembered, Holding
<1>2. CASE ~Die
  <2>1. \A q \in Slots : Remembered(q)'
    BY <1>2, RememberedStays
  <2>2. granted \subseteq Tokens
    BY DEF IType, TypeOK
  <2>3. \A t \in granted : vault'[t] # Nothing
    BY <1>2, <2>2, VaultKept DEF KnownInv
  <2>4. ASSUME NEW c \in Callers, Created(c) PROVE granted' \subseteq granted \cup {t \in Tokens : vault'[t] # Nothing}
    <3>1. /\ granted' \subseteq granted \cup ({Current(c)} \cap minted)
          /\ srv[Current(c)] \in {"network", "dual_vault"} /\ vault' = vault
      BY <2>4 DEF Created, Return, Succeeded
    <3>2. Current(c) \in Slots
      BY <2>4, CurrentIsSlot DEF Created
    <3> QED
      BY <3>1, <3>2 DEF KnownInv, Remembered, Tokens
  <2>5. ASSUME NEW c \in Callers, Informed(c) \/ Refreshed(c)
        PROVE  granted' \subseteq granted \cup {t \in Tokens : vault'[t] # Nothing}
    <3>1. /\ granted' \subseteq granted \cup ({want[c]} \cap minted)
          /\ srv[Current(c)] \in Holding /\ vault' = vault
      BY <2>5 DEF Informed, Refreshed, Return, Holding
    <3>2. Current(c) \in Slots /\ Current(c)[1] = c
      BY <2>5, CurrentIsSlot DEF Informed, Refreshed
    <3>3. vault[want[c]] # Nothing /\ minted \subseteq Tokens
      BY <3>1, <3>2 DEF KnownInv, Remembered, IType, TypeOK
    <3> QED
      BY <3>1, <3>3
  <2>6. ASSUME NEW c \in Callers, Refused(c) \/ ConnectionFails(c) \/ GiveUp(c)
        PROVE  granted' \subseteq granted
    BY <2>6 DEF Refused, ConnectionFails, GiveUp, BackOff, Return, NoAnswer
  <2>7. ASSUME NEW c \in Callers, Retry(c) \/ Validated(c) PROVE granted' = granted
    BY <2>7 DEF Retry, Validated
  <2>8. ASSUME NEW q \in Slots, Serve(q) PROVE granted' = granted
    BY <2>8 DEF Serve, Refuse, BeginStore, BeginStoreDual, EndStore, BeginFind, EndFind, Validate,
       ReadCard, ReadExpiresAt, WriteCard, WriteExpiresAt
  <2>9. granted' \subseteq granted \cup {t \in Tokens : vault'[t] # Nothing}
    BY <1>2, <2>4, <2>5, <2>6, <2>7, <2>8 DEF Next, Manage, Call, MonthBegins, vars
  <2> QED
    BY <2>1, <2>3, <2>9 DEF KnownInv
<1> QED
  BY <1>1, <1>2

LEMMA KnownInvHolds == Spec => []KnownInv
<1>1. Init => KnownInv
  <2> SUFFICES ASSUME Init PROVE KnownInv
    OBVIOUS
  <2>1. \A q \in Slots : q \notin minted /\ srv[q] = "none"
    BY NetworkTokensAssumption DEF Init
  <2>2. \A t \in granted : vault[t] # Nothing
    BY NetworkTokensAssumption DEF Init, Tokens, Nothing, Token
  <2> QED
    BY <2>1, <2>2 DEF KnownInv, Remembered, Holding
<1> QED
  BY <1>1, ITypeHolds, KnownInvStays, PTL DEF Spec

(* A token that was returned stays known, unless the service died or lost the   *)
(* write that created it.                                                   *)
THEOREM GrantedStaysKnown == Spec => []GrantedIsKnown
<1>1. KnownInv => GrantedIsKnown
  BY DEF KnownInv, GrantedIsKnown
<1> QED
  BY <1>1, KnownInvHolds, PTL

-----------------------------------------------------------------------------
(* A call tries again only when a connection failed it.                      *)
TriesInv ==
    \A c \in Callers \ lost : op[c] = "create" => tries[c] <= 1 /\ mgr[c] # "backoff"

LEMMA TriesInvStays == IType /\ TriesInv /\ [Next]_vars => TriesInv'
<1> SUFFICES ASSUME IType, TriesInv, [Next]_vars, NEW x \in Callers, x \notin lost',
                    op'[x] = "create"
             PROVE  tries'[x] <= 1 /\ mgr'[x] # "backoff"
  BY DEF TriesInv
<1>t. /\ tries \in [Callers -> Nat] /\ CallInv
      /\ op \in [Callers -> {"none", "create", "validate", "info", "refresh"}]
      /\ mgr \in [Callers -> {"idle", "waiting", "backoff", "returned"}]
  BY DEF IType, TypeOK, CallInv
<1>1. CASE UNCHANGED <<tries[x], mgr[x], op[x]>> /\ lost \subseteq lost'
  BY <1>1 DEF TriesInv
<1>2. ASSUME NEW c \in Callers, NEW o, NEW t, NEW d, Call(c, o, t, d)
      PROVE  tries'[x] <= 1 /\ mgr'[x] # "backoff"
  BY <1>1, <1>2, <1>t DEF Call, Send, CallInv
<1>3. ASSUME NEW c \in Callers, Manage(c), c # x PROVE tries'[x] <= 1 /\ mgr'[x] # "backoff"
  <2>1. UNCHANGED <<tries[x], mgr[x], op[x]>> /\ lost \subseteq lost'
    BY <1>3, <1>t DEF Manage, Created, Refused, ConnectionFails, Retry, GiveUp, Validated,
       Informed, Refreshed, Close, Send, Return, BackOff
  <2> QED
    BY <1>1, <2>1
<1>4. CASE Manage(x)
  <2>1. x \notin lost /\ ~ConnectionFails(x)
    BY <1>4 DEF Manage, Created, Refused, ConnectionFails, Retry, GiveUp, Validated, Informed,
       Refreshed
  <2>2. op[x] = "create" /\ ~Validated(x)
    BY <1>4, <1>t, <2>1 DEF Manage, Created, Refused, Retry, GiveUp, Validated, Informed, Refreshed
  <2>3. tries[x] <= 1 /\ mgr[x] # "backoff"
    BY <2>1, <2>2 DEF TriesInv
  <2>4. CASE Refused(x)
    <3>1. srv[Current(x)] = "refused"
      BY <2>2, <2>4 DEF Refused, Succeeded
    <3> QED
      BY <1>t, <2>3, <2>4, <3>1 DEF Refused, Return
  <2> QED
    BY <1>4, <1>t, <2>1, <2>2, <2>3, <2>4 DEF Manage, Created, Retry, GiveUp, Informed, Refreshed,
       Return
<1>5. CASE UNCHANGED <<tries, mgr, op>> /\ lost \subseteq lost'
  BY <1>1, <1>5
<1>6. ASSUME NEW q \in Slots, Serve(q) PROVE UNCHANGED <<tries, mgr, op, lost>>
  BY <1>6 DEF Serve, Refuse, BeginStore, BeginStoreDual, EndStore, BeginFind, EndFind, Validate,
     ReadCard, ReadExpiresAt, WriteCard, WriteExpiresAt, Kept, mgrVars
<1> QED
  BY <1>2, <1>3, <1>4, <1>5, <1>6 DEF Next, MonthBegins, Die, Kept, mgrVars, vars

(* A call leaves a second token behind only if a connection failed it.         *)
THEOREM ExtraTokensNeedLoss == Spec => []ExtraTokenNeedsLoss
<1>1. Init => TriesInv
  BY DEF Init, TriesInv
<1>2. IType /\ KnownInv /\ TriesInv => ExtraTokenNeedsLoss
  <2> SUFFICES ASSUME IType, KnownInv, TriesInv, NEW c \in Callers \ lost
               PROVE  Cardinality({t \in minted \cap Slots : t[1] = c}) <= 1
    BY DEF ExtraTokenNeedsLoss
  <2> DEFINE own == {t \in minted \cap Slots : t[1] = c}
  <2>1. \A t \in own : t = <<c, 1>>
    <3> SUFFICES ASSUME NEW t \in own PROVE t = <<c, 1>>
      OBVIOUS
    <3>1. t = <<c, t[2]>> /\ t[2] \in Nat \ {0}
      BY SlotBound DEF Slots
    <3>2. op[c] = "create" /\ srv[t] # "none"
      BY DEF KnownInv, Remembered
    <3>3. t[2] <= tries[c] /\ tries[c] <= 1 /\ tries[c] \in Nat
      BY <3>1, <3>2 DEF IType, CallInv, RequestInv, TriesInv
    <3> QED
      BY <3>1, <3>3
  <2>2. own = {} \/ own = {<<c, 1>>}
    BY <2>1
  <2>3. Cardinality({}) = 0 /\ Cardinality({<<c, 1>>}) = 1
    BY FS_EmptySet, FS_Singleton
  <2>4. Cardinality(own) \in {0, 1}
    BY <2>2, <2>3
  <2> QED
    BY <2>4
<1> QED
  BY <1>1, <1>2, ITypeHolds, KnownInvHolds, TriesInvStays, PTL DEF Spec

-----------------------------------------------------------------------------
(* A refresh writes the card's date and then ExpiresAt, in one section of the  *)
(* lock: the two differ only on the token of the one request between them.    *)
Refreshing(q) == srv[q] = "halfwritten"

MintedInv ==
    /\ granted \subseteq minted
    /\ \A c \in Callers : want[c] \in minted \cup {None}

WriteInv ==
    /\ \A p, q \in Slots : Refreshing(p) => srv[q] # "find" /\ (Refreshing(q) => p = q)
    /\ \A q \in Slots : Refreshing(q) => vault[want[q[1]]].card = date[q[1]]
    /\ \A t \in Tokens :
        vault[t].card = vault[t].until \/ \E q \in Slots : Refreshing(q) /\ want[q[1]] = t

(* What a call does leaves the map, the month and the refreshes alone.         *)
LEMMA CallsWriteNothing ==
    ASSUME IType, NEW c \in Callers,
           Manage(c) \/ \E o \in {"create", "validate", "refresh"}, t \in granted, d \in Dates :
                           Call(c, o, t, d)
    PROVE  /\ UNCHANGED <<past, vault, seen, minted, disturbed>>
           /\ \A q \in Slots : q[1] # c => srv'[q] = srv[q]
           /\ \A q \in Slots : srv'[q] # srv[q] =>
                /\ srv[q] \in {"none", "network", "dual_vault", "refused", "valid", "info", "refreshed"}
                /\ srv'[q] \in {"arrived", "closed"}
           /\ \A d \in Callers : d # c => UNCHANGED <<op[d], mgr[d], tries[d], want[d], date[d],
                                                      answer[d]>>
           /\ mgr[c] # "idle" => want'[c] = want[c] /\ date'[c] = date[c]
<1>t. /\ srv \in [Slots -> SrvStates] /\ CallInv /\ RequestInv
      /\ op \in [Callers -> {"none", "create", "validate", "info", "refresh"}]
      /\ mgr \in [Callers -> {"idle", "waiting", "backoff", "returned"}]
      /\ want \in [Callers -> Tokens \cup {None}] /\ date \in [Callers -> Dates \cup {None}]
      /\ answer \in [Callers -> [ok : BOOLEAN, token : Tokens \cup {None}, got : Expiries]]
      /\ tries \in [Callers -> Nat]
  BY DEF IType, TypeOK, SrvStates, CallInv
<1>s. \A q \in Slots : q[1] \in Callers /\ q[2] \in Nat \ {0} /\ q = <<q[1], q[2]>>
  BY SlotBound DEF Slots
<1>n. \A q \in Slots : q = <<c, tries[c] + 1>> => srv[q] = "none"
  BY <1>s, <1>t DEF RequestInv, CallInv
<1>1. ASSUME NEW o \in {"create", "validate", "refresh"}, NEW t \in granted, NEW d \in Dates,
             Call(c, o, t, d)
      PROVE  /\ UNCHANGED <<past, vault, seen, minted, disturbed>>
             /\ srv' = [srv EXCEPT ![<<c, tries[c] + 1>>] = "arrived"]
             /\ \A e \in Callers : e # c => UNCHANGED <<op[e], mgr[e], tries[e], want[e], date[e],
                                                        answer[e]>>
             /\ mgr[c] = "idle"
  BY <1>1, <1>t DEF Call, Send
<1>2. ASSUME Close(c), srv[Current(c)] \in {"network", "dual_vault", "refused", "info", "refreshed"}
      PROVE  \A q \in Slots : \/ srv'[q] = srv[q]
                              \/ /\ q = Current(c) /\ srv'[q] = "closed"
                                 /\ srv[q] \in {"network", "dual_vault", "refused", "info", "refreshed"}
  BY <1>2, <1>t DEF Close
<1>3. ASSUME Manage(c)
      PROVE  /\ UNCHANGED <<past, vault, seen, minted, disturbed, want, date>>
             /\ \A e \in Callers : e # c => UNCHANGED <<op[e], mgr[e], tries[e], answer[e]>>
  BY <1>3, <1>t DEF Manage, Created, Refused, ConnectionFails, Retry, GiveUp, Validated, Informed,
     Refreshed, Close, Send, Return, BackOff
<1>4. ASSUME Manage(c)
      PROVE  \A q \in Slots :
                \/ srv'[q] = srv[q]
                \/ /\ q = Current(c) /\ srv'[q] = "closed"
                   /\ srv[q] \in {"network", "dual_vault", "refused", "valid", "info", "refreshed"}
                \/ /\ q = <<c, tries[c] + 1>> /\ srv'[q] = "arrived"
  <2>1. CASE Created(c) \/ Refused(c) \/ Informed(c) \/ Refreshed(c)
    BY <1>2, <2>1 DEF Created, Succeeded, Refused, Informed, Refreshed
  <2>2. CASE Validated(c)
    BY <1>t, <2>2 DEF Validated, IsValid
  <2>3. CASE Retry(c)
    BY <1>t, <2>3 DEF Retry, Send
  <2>4. CASE ConnectionFails(c) \/ GiveUp(c)
    BY <2>4 DEF ConnectionFails, GiveUp
  <2> QED
    BY <1>4, <2>1, <2>2, <2>3, <2>4 DEF Manage
<1>5. CASE Manage(c)
  <2>1. \A q \in Slots : srv'[q] # srv[q] =>
          /\ q[1] = c /\ srv'[q] \in {"arrived", "closed"}
          /\ srv[q] \in {"none", "network", "dual_vault", "refused", "valid", "info", "refreshed"}
    BY <1>4, <1>5, <1>n DEF Current
  <2>2. /\ UNCHANGED <<past, vault, seen, minted, disturbed, want, date>>
        /\ \A d \in Callers : d # c => UNCHANGED <<op[d], mgr[d], tries[d], answer[d]>>
    BY <1>3, <1>5
  <2>3. \A d \in Callers : d # c => UNCHANGED <<op[d], mgr[d], tries[d], want[d], date[d], answer[d]>>
    BY <2>2
  <2> QED
    BY <2>1, <2>2, <2>3
<1>6. CASE \E o \in {"create", "validate", "refresh"}, t \in granted, d \in Dates : Call(c, o, t, d)
  <2>1. /\ UNCHANGED <<past, vault, seen, minted, disturbed>>
        /\ srv' = [srv EXCEPT ![<<c, tries[c] + 1>>] = "arrived"]
        /\ \A d \in Callers : d # c => UNCHANGED <<op[d], mgr[d], tries[d], want[d], date[d],
                                                   answer[d]>>
        /\ mgr[c] = "idle"
    BY <1>1, <1>6
  <2>2. \A q \in Slots : srv'[q] # srv[q] =>
          q[1] = c /\ srv[q] = "none" /\ srv'[q] = "arrived"
    BY <1>n, <1>t, <2>1
  <2> QED
    BY <2>1, <2>2
<1> QED
  BY <1>5, <1>6

(* What a request does leaves the calls and the other requests alone, and only  *)
(* three of its steps write the map.                                        *)
LEMMA ServesAlone ==
    ASSUME IType, NEW q \in Slots, Serve(q)
    PROVE  /\ UNCHANGED <<past, op, mgr, tries, want, date, answer, lost, granted>>
           /\ \A p \in Slots : p # q => srv'[p] = srv[p] /\ seen'[p] = seen[p]
           /\ minted \subseteq minted' /\ disturbed \subseteq disturbed'
           /\ EndStore(q) \/ WriteCard(q) \/ WriteExpiresAt(q) \/ vault' = vault
           /\ srv'[q] = "halfwritten" => WriteCard(q)
           /\ srv'[q] = "find" => BeginFind(q)
           /\ srv[q] = "halfwritten" => WriteExpiresAt(q)
<1>t. srv \in [Slots -> SrvStates] /\ seen \in [Slots -> Expiries] /\ RequestInv
  BY DEF IType, TypeOK, SrvStates
<1> USE DEF Kept, mgrVars, At, Enter
<1>1. UNCHANGED <<past, op, mgr, tries, want, date, answer, lost, granted>>
  BY DEF Serve, Refuse, BeginStore, BeginStoreDual, EndStore, BeginFind, EndFind, Validate,
     ReadCard, ReadExpiresAt, WriteCard, WriteExpiresAt
<1>2. \A p \in Slots : p # q => srv'[p] = srv[p] /\ seen'[p] = seen[p]
  BY <1>t DEF Serve, Refuse, BeginStore, BeginStoreDual, EndStore, BeginFind, EndFind, Validate,
     ReadCard, ReadExpiresAt, WriteCard, WriteExpiresAt
<1>3. /\ minted \subseteq minted' /\ disturbed \subseteq disturbed'
      /\ EndStore(q) \/ WriteCard(q) \/ WriteExpiresAt(q) \/ vault' = vault
  BY DEF Serve, Refuse, BeginStore, BeginStoreDual, EndStore, BeginFind, EndFind, Validate,
     ReadCard, ReadExpiresAt, WriteCard, WriteExpiresAt
<1>4. /\ srv'[q] = "halfwritten" => WriteCard(q)
      /\ srv'[q] = "find" => BeginFind(q)
      /\ srv[q] = "halfwritten" => WriteExpiresAt(q)
  BY <1>t DEF Serve, Refuse, BeginStore, BeginStoreDual, EndStore, BeginFind, EndFind, Validate,
     ReadCard, ReadExpiresAt, WriteCard, WriteExpiresAt, Writing
<1> QED
  BY <1>1, <1>2, <1>3, <1>4

LEMMA MintedStays == IType /\ MintedInv /\ [Next]_vars => MintedInv'
<1> SUFFICES ASSUME IType, MintedInv, [Next]_vars PROVE MintedInv'
  OBVIOUS
<1>t. /\ op \in [Callers -> {"none", "create", "validate", "info", "refresh"}]
      /\ want \in [Callers -> Tokens \cup {None}]
  BY DEF IType, TypeOK
<1>1. ASSUME NEW q \in Slots, Serve(q) PROVE MintedInv'
  BY <1>1, ServesAlone DEF MintedInv
<1>2. ASSUME NEW c \in Callers, Manage(c) PROVE MintedInv'
  <2>1. want' = want /\ minted' = minted
    BY <1>2 DEF Manage, Created, Refused, ConnectionFails, Retry, GiveUp, Validated, Informed,
       Refreshed
  <2>2. granted' \subseteq granted \cup minted
    BY <1>2 DEF Manage, Created, Refused, ConnectionFails, Retry, GiveUp, Validated, Informed,
       Refreshed, BackOff, Return
  <2> QED
    BY <2>1, <2>2 DEF MintedInv
<1>3. ASSUME NEW c \in Callers, NEW o \in {"create", "validate", "refresh"}, NEW t \in granted,
             NEW d \in Dates, Call(c, o, t, d)
      PROVE  MintedInv'
  BY <1>3, <1>t DEF Call, MintedInv
<1>4. CASE Die \/ (\E d \in Dates : MonthBegins(d)) \/ UNCHANGED vars
  BY <1>4 DEF Die, MonthBegins, Kept, mgrVars, vars, MintedInv
<1> QED
  BY <1>1, <1>2, <1>3, <1>4 DEF Next

LEMMA WriteStays == IType /\ KnownInv /\ MintedInv /\ WriteInv /\ [Next]_vars => WriteInv'
<1> SUFFICES ASSUME IType, KnownInv, MintedInv, WriteInv, [Next]_vars PROVE WriteInv'
  OBVIOUS
<1>t. /\ srv \in [Slots -> SrvStates] /\ RequestInv /\ CallInv /\ vault \in [Tokens -> Expiries]
      /\ want \in [Callers -> Tokens \cup {None}]
  BY DEF IType, TypeOK, SrvStates
<1>s. \A q \in Slots : q[1] \in Callers
  BY SlotBound DEF Slots
<1>w. \A q \in Slots : srv[q] = "halfwritten" \/ op[q[1]] = "refresh"
                         => want[q[1]] \in Tokens /\ want[q[1]] \in minted
  BY <1>t, <1>s, NetworkTokensAssumption DEF RequestInv, CallInv, MintedInv
<1>1. ASSUME vault' = vault,
             \A q \in Slots : srv'[q] = "halfwritten" <=> srv[q] = "halfwritten",
             \A q \in Slots : srv'[q] = "find" => srv[q] = "find" \/ ~Locked,
             \A q \in Slots : srv[q] = "halfwritten" =>
                want'[q[1]] = want[q[1]] /\ date'[q[1]] = date[q[1]]
      PROVE  WriteInv'
  BY <1>1 DEF WriteInv, Refreshing, Locked
<1>2. ASSUME NEW c \in Callers,
             Manage(c) \/ \E o \in {"create", "validate", "refresh"}, t \in granted, d \in Dates :
                             Call(c, o, t, d)
      PROVE  WriteInv'
  <2>1. \A q \in Slots : q[1] = c /\ srv[q] = "halfwritten" => mgr[c] # "idle"
    BY <1>t DEF RequestInv, CallInv
  <2> QED
    BY <1>1, <1>2, <1>s, <2>1, CallsWriteNothing
<1>3. ASSUME NEW q \in Slots, Serve(q), ~EndStore(q), ~WriteCard(q), ~WriteExpiresAt(q)
      PROVE  WriteInv'
  <2>1. \A p \in Slots : srv'[p] = "halfwritten" <=> srv[p] = "halfwritten"
    BY <1>3, ServesAlone
  <2>2. \A p \in Slots : srv'[p] = "find" => srv[p] = "find" \/ ~Locked
    BY <1>3, ServesAlone DEF BeginFind
  <2> QED
    BY <1>1, <1>3, <2>1, <2>2, ServesAlone
<1>4. ASSUME NEW q \in Slots, EndStore(q)
      PROVE  WriteInv'
  <2>1. Serve(q) /\ srv'[q] \in {"network", "dual_vault"} /\ q \in Tokens
    BY <1>4, <1>t DEF Serve, EndStore, At, Tokens
  <2>2. q \notin minted
    BY <1>4 DEF EndStore, Writing, KnownInv, Remembered
  <2>3. \A p \in Slots : /\ srv'[p] = "halfwritten" <=> srv[p] = "halfwritten"
                         /\ srv'[p] = "find" => srv[p] = "find"
    BY <1>4, <2>1, ServesAlone DEF EndStore, Writing
  <2>4. UNCHANGED <<want, date>>
    BY <2>1, ServesAlone
  <2>5. \A t \in Tokens : t # q => vault'[t] = vault[t]
    BY <1>4, <1>t DEF EndStore, Stored
  <2>6. vault'[q] = vault[q] \/ vault'[q].card = vault'[q].until
    BY <1>4, <1>t, <2>1 DEF EndStore, Stored, Token
  <2>7. \A p \in Slots : srv[p] = "halfwritten" => vault'[want[p[1]]] = vault[want[p[1]]]
    BY <1>w, <2>2, <2>5
  <2> QED
    BY <2>3, <2>4, <2>5, <2>6, <2>7 DEF WriteInv, Refreshing
<1>5. ASSUME NEW q \in Slots, WriteCard(q)
      PROVE  WriteInv'
  <2> DEFINE t == want[q[1]]
  <2>1. Serve(q) /\ srv'[q] = "halfwritten" /\ t \in Tokens
    BY <1>5, <1>t, <1>w DEF Serve, WriteCard, At
  <2>2. \A p \in Slots : srv[p] \notin {"halfwritten", "find"}
    BY <1>5 DEF WriteCard, Locked, RLocked
  <2>3. \A p \in Slots : srv'[p] # "find" /\ (srv'[p] = "halfwritten" => p = q)
    BY <2>1, <2>2, ServesAlone
  <2>4. vault'[t].card = date[q[1]] /\ \A x \in Tokens : x # t => vault'[x] = vault[x]
    BY <1>5, <1>t, <2>1 DEF WriteCard, Expiries
  <2>5. UNCHANGED <<want, date>>
    BY <2>1, ServesAlone
  <2> QED
    BY <2>1, <2>2, <2>3, <2>4, <2>5 DEF WriteInv, Refreshing
<1>6. ASSUME NEW q \in Slots, WriteExpiresAt(q)
      PROVE  WriteInv'
  <2> DEFINE t == want[q[1]]
  <2>1. Serve(q) /\ srv'[q] = "refreshed" /\ t \in Tokens /\ srv[q] = "halfwritten"
    BY <1>6, <1>t, <1>w DEF Serve, WriteExpiresAt, At
  <2>2. \A p \in Slots : srv'[p] \notin {"halfwritten", "find"}
    BY <2>1, ServesAlone DEF WriteInv, Refreshing
  <2>3. /\ vault'[t].until = date[q[1]] /\ vault'[t].card = vault[t].card
        /\ \A x \in Tokens : x # t => vault'[x] = vault[x]
    BY <1>6, <1>t, <2>1 DEF WriteExpiresAt, Expiries
  <2>4. vault[t].card = date[q[1]]
    BY <2>1 DEF WriteInv, Refreshing
  <2>5. ASSUME NEW x \in Tokens, x # t PROVE vault[x].card = vault[x].until
    BY <2>1, <2>5 DEF WriteInv, Refreshing
  <2> QED
    BY <2>2, <2>3, <2>4, <2>5 DEF WriteInv, Refreshing
<1>7. CASE Die
  <2>1. \A q \in Slots : srv'[q] \in {"none", "closed"}
    BY <1>7 DEF Die
  <2>2. \A t \in Tokens : vault'[t].card = vault'[t].until
    BY <1>7 DEF Die, Nothing, Token
  <2> QED
    BY <2>1, <2>2 DEF WriteInv, Refreshing
<1>8. CASE (\E d \in Dates : MonthBegins(d)) \/ UNCHANGED vars
  BY <1>1, <1>8 DEF MonthBegins, Kept, mgrVars, vars
<1> QED
  BY <1>2, <1>3, <1>4, <1>5, <1>6, <1>7, <1>8 DEF Next

LEMMA WriteHolds == Spec => [](MintedInv /\ WriteInv)
<1>1. Init => MintedInv /\ WriteInv
  BY DEF Init, MintedInv, WriteInv, Refreshing, Token, Nothing
<1> QED
  BY <1>1, ITypeHolds, KnownInvHolds, MintedStays, WriteStays, PTL DEF Spec

(* A call whose token nobody refreshes: once a handler of it has looked the     *)
(* token up no refresh is between its writes, and what was read stays true.    *)
Undisturbed(c) == mgr[c] = "waiting" /\ op[c] \in {"validate", "info"} /\ c \notin disturbed

HasFound(c) == op[c] = "info" \/ srv[Current(c)] \in {"find", "found", "valid", "halfread", "info"}

Calm(c) ==
    LET q == Current(c)
    IN  /\ HasFound(c) => \A p \in Slots : Refreshing(p) => want[p[1]] # want[c]
        /\ op[c] = "info" \/ srv[q] = "valid" => vault[want[c]].until \notin past
        /\ srv[q] \in {"halfread", "info"} => seen[q].card = vault[want[c]].card
        /\ srv[q] = "info" => seen[q].until = vault[want[c]].until

CalmInv == \A c \in Callers : Undisturbed(c) => Calm(c)

(* A step that touches neither the call, nor its request, nor its token.        *)
LEMMA CalmKept ==
    ASSUME IType, CalmInv, NEW c \in Callers, Undisturbed(c)',
           UNCHANGED <<past, op[c], mgr[c], tries[c], want[c]>>,
           srv'[Current(c)] = srv[Current(c)], seen'[Current(c)] = seen[Current(c)],
           vault'[want[c]] = vault[want[c]], disturbed \subseteq disturbed',
           \A p \in Slots : srv'[p] = "halfwritten" /\ want'[p[1]] = want[c]
                              => srv[p] = "halfwritten" /\ want[p[1]] = want[c]
    PROVE  Calm(c)'
<1>1. Undisturbed(c) /\ Calm(c)
  BY DEF Undisturbed, CalmInv
<1>2. Current(c)' = Current(c)
  BY DEF Current
<1> QED
  BY <1>1, <1>2 DEF Calm, HasFound, Refreshing

(* Who waits has a request, and asks about a token.                           *)
LEMMA UndisturbedAsks ==
    ASSUME IType, MintedInv, NEW c \in Callers, Undisturbed(c)
    PROVE  /\ Current(c) \in Slots /\ Current(c)[1] = c
           /\ want[c] \in Tokens /\ want[c] \in minted /\ c \in Asking(want[c])
<1>1. Current(c) \in Slots /\ Current(c)[1] = c
  BY CurrentIsSlot DEF Undisturbed
<1>2. want[c] \in Tokens
  BY DEF Undisturbed, IType, CallInv
<1> QED
  BY <1>1, <1>2, NetworkTokensAssumption DEF Undisturbed, MintedInv, Asking

LEMMA CallsCalm ==
    ASSUME IType, MintedInv, CalmInv, NEW x \in Callers,
           Manage(x) \/ \E o \in {"create", "validate", "refresh"}, t \in granted, d \in Dates :
                           Call(x, o, t, d)
    PROVE  CalmInv'
<1> SUFFICES ASSUME NEW c \in Callers, Undisturbed(c)' PROVE Calm(c)'
  BY DEF CalmInv
<1>t. /\ srv \in [Slots -> SrvStates] /\ CallInv /\ RequestInv
      /\ op \in [Callers -> {"none", "create", "validate", "info", "refresh"}]
      /\ mgr \in [Callers -> {"idle", "waiting", "backoff", "returned"}]
      /\ want \in [Callers -> Tokens \cup {None}] /\ tries \in [Callers -> Nat]
  BY DEF IType, TypeOK, SrvStates, CallInv
<1>s. \A q \in Slots : q[1] \in Callers /\ q = <<q[1], q[2]>> /\ q[2] \in Nat \ {0}
  BY SlotBound DEF Slots
<1>f. \A p \in Slots : srv'[p] = "halfwritten" => srv[p] = "halfwritten" /\ want'[p[1]] = want[p[1]]
  <2> SUFFICES ASSUME NEW p \in Slots, srv'[p] = "halfwritten"
               PROVE  srv[p] = "halfwritten" /\ want'[p[1]] = want[p[1]]
    OBVIOUS
  <2>1. srv[p] = "halfwritten"
    BY CallsWriteNothing
  <2>2. mgr[p[1]] # "idle"
    BY <1>t, <1>s, <2>1 DEF RequestInv, CallInv
  <2> QED
    BY <1>s, <2>1, <2>2, CallsWriteNothing
<1>1. CASE c # x
  <2>1. UNCHANGED <<past, op[c], mgr[c], tries[c], want[c], vault, seen, disturbed>>
    BY <1>1, CallsWriteNothing
  <2>2. Undisturbed(c)
    BY <2>1 DEF Undisturbed
  <2>3. srv'[Current(c)] = srv[Current(c)]
    BY <1>1, <2>2, UndisturbedAsks, CallsWriteNothing
  <2> QED
    BY <1>f, <2>1, <2>3, CalmKept
<1>2. CASE c = x /\ Manage(x)
  <2>1. Retry(c) \/ Validated(c)
    BY <1>2, <1>t DEF Undisturbed, Manage, Created, Refused, ConnectionFails, GiveUp, Informed,
       Refreshed, Return, BackOff
  <2>2. ~Retry(c)
    BY <1>t DEF Undisturbed, Retry, CallInv
  <2>3. Validated(c)
    BY <2>1, <2>2
  <2>4. /\ op[c] = "validate" /\ mgr[c] = "waiting" /\ srv[Current(c)] = "valid"
        /\ UNCHANGED <<vault, past, want, disturbed>>
    BY <2>3 DEF Validated, IsValid
  <2>5. Undisturbed(c) /\ Calm(c)
    BY <2>4 DEF Undisturbed, CalmInv
  <2>6. vault'[want'[c]].until \notin past'
    BY <2>4, <2>5 DEF Calm
  <2>7. \A p \in Slots : srv'[p] = "halfwritten" => want'[p[1]] # want'[c]
    BY <1>f, <2>4, <2>5 DEF Calm, HasFound, Refreshing
  <2>8. srv'[Current(c)'] = "arrived"
    <3>1. tries[c] = 1
      BY <1>t, <2>4 DEF CallInv
    <3>2. Current(c)' = <<c, 2>> /\ <<c, 2>> \in Slots
      BY <1>t, <2>3, <3>1, SlotBound DEF Validated, Current, Slots
    <3> QED
      BY <1>t, <2>3, <3>1, <3>2 DEF Validated
  <2> QED
    BY <2>6, <2>7, <2>8 DEF Calm, Refreshing
<1>3. ASSUME NEW o \in {"create", "validate", "refresh"}, NEW t \in granted, NEW d \in Dates,
             Call(c, o, t, d)
      PROVE  Calm(c)'
  <2>1. tries[c] = 0 /\ op'[c] = o /\ Current(c)' = <<c, 1>>
    BY <1>3, <1>t DEF Call, Send, CallInv, Current
  <2>2. <<c, 1>> \in Slots
    BY SlotBound DEF Slots
  <2>3. srv'[Current(c)'] = "arrived"
    BY <1>3, <1>t, <2>1, <2>2 DEF Call, Send
  <2> QED
    BY <2>1, <2>3 DEF Calm, HasFound
<1> QED
  BY <1>1, <1>2, <1>3

LEMMA ServesCalm ==
    ASSUME IType, KnownInv, MintedInv, CalmInv, NEW x \in Slots, Serve(x)
    PROVE  CalmInv'
<1> SUFFICES ASSUME NEW c \in Callers, Undisturbed(c)' PROVE Calm(c)'
  BY DEF CalmInv
<1>t. /\ srv \in [Slots -> SrvStates] /\ CallInv /\ RequestInv /\ seen \in [Slots -> Expiries]
      /\ vault \in [Tokens -> Expiries] /\ want \in [Callers -> Tokens \cup {None}]
  BY DEF IType, TypeOK, SrvStates
<1>0. /\ UNCHANGED <<past, op, mgr, tries, want, date, answer, lost, granted>>
      /\ disturbed \subseteq disturbed'
  BY ServesAlone
<1>1. Undisturbed(c) /\ Calm(c)
  BY <1>0 DEF Undisturbed, CalmInv
<1>2. /\ Current(c) \in Slots /\ Current(c)[1] = c /\ want[c] \in Tokens /\ want[c] \in minted
      /\ c \in Asking(want[c]) /\ Current(c)' = Current(c)
  BY <1>0, <1>1, UndisturbedAsks DEF Current
<1> DEFINE q == Current(c)
<1>3. ASSUME NEW p \in Slots, srv'[p] = "halfwritten", want'[p[1]] = want[c]
      PROVE  srv[p] = "halfwritten"
  <2>1. ~WriteCard(p)
    BY <1>0, <1>2, <1>3 DEF WriteCard, Undisturbed
  <2> QED
    BY <1>3, <2>1, ServesAlone
<1>4. vault'[want[c]] = vault[want[c]]
  <2>1. ASSUME EndStore(x) PROVE vault'[want[c]] = vault[want[c]]
    <3>1. x \notin minted
      BY <2>1 DEF EndStore, Writing, KnownInv, Remembered
    <3> QED
      BY <1>t, <1>2, <2>1, <3>1 DEF EndStore, Stored
  <2>2. ASSUME WriteCard(x) \/ WriteExpiresAt(x) PROVE vault'[want[c]] = vault[want[c]]
    <3>1. want[x[1]] # want[c]
      BY <1>2, <2>2 DEF WriteCard, WriteExpiresAt, Undisturbed
    <3> QED
      BY <1>t, <1>2, <2>2, <3>1 DEF WriteCard, WriteExpiresAt
  <2> QED
    BY <2>1, <2>2, ServesAlone
<1>5. CASE x # q
  <2>1. srv'[q] = srv[q] /\ seen'[q] = seen[q]
    BY <1>2, <1>5, ServesAlone
  <2> QED
    BY <1>0, <1>3, <1>4, <2>1, CalmKept
<1>6. CASE x = q
  <2>1. op[q[1]] \in {"validate", "info"}
    BY <1>1, <1>2 DEF Undisturbed
  <2>2. /\ srv[q] \in {"arrived", "find", "found", "halfread"}
        /\ BeginFind(q) \/ EndFind(q) \/ Validate(q) \/ ReadCard(q) \/ ReadExpiresAt(q)
    BY <1>t, <1>2, <1>6, <2>1 DEF Serve, Refuse, BeginStore, BeginStoreDual, EndStore, Writing,
       WriteCard, WriteExpiresAt, BeginFind, EndFind, Validate, ReadCard, ReadExpiresAt, RequestInv
  <2>3. vault'[want'[c]] = vault[want[c]] /\ want'[c] = want[c] /\ op'[c] = op[c] /\ past' = past
    BY <1>0, <1>4
  <2>4. ASSUME HasFound(c)' PROVE \A p \in Slots : srv'[p] = "halfwritten" => want'[p[1]] # want'[c]
    <3>1. CASE HasFound(c)
      BY <1>1, <1>3, <2>3, <3>1, <1>0 DEF Calm, Refreshing
    <3>2. CASE ~HasFound(c)
      <4>1. BeginFind(q)
        BY <1>t, <1>2, <2>2, <3>2 DEF EndFind, Validate, ReadCard, ReadExpiresAt, HasFound
      <4>2. \A p \in Slots : srv[p] # "halfwritten"
        BY <4>1 DEF BeginFind, Locked
      <4> QED
        BY <1>3, <2>3, <4>2
    <3> QED
      BY <3>1, <3>2
  <2>5. CASE BeginFind(q) \/ EndFind(q)
    <3>1. srv'[q] \in {"find", "refused", "found"}
      BY <1>t, <1>2, <2>5 DEF BeginFind, EndFind, Enter, At
    <3> QED
      BY <1>1, <1>2, <2>3, <2>4, <3>1 DEF Calm, Refreshing
  <2>6. CASE Validate(q)
    <3>1. /\ srv'[q] \in {"refused", "valid"}
          /\ srv'[q] = "valid" => vault[want[c]].until \notin past
      BY <1>t, <1>2, <2>6 DEF Validate, At
    <3> QED
      BY <1>1, <1>2, <2>3, <2>4, <3>1 DEF Calm, Refreshing
  <2>7. CASE ReadCard(q)
    <3>1. srv'[q] = "halfread" /\ seen'[q].card = vault[want[c]].card /\ op[c] = "info"
      BY <1>t, <1>2, <2>7 DEF ReadCard, At, Expiries
    <3> QED
      BY <1>1, <1>2, <2>3, <2>4, <3>1 DEF Calm, Refreshing
  <2>8. CASE ReadExpiresAt(q)
    <3>1. /\ srv[q] = "halfread" /\ srv'[q] = "info" /\ seen'[q].until = vault[want[c]].until
          /\ seen'[q].card = seen[q].card
      BY <1>t, <1>2, <2>8 DEF ReadExpiresAt, At, Expiries
    <3> QED
      BY <1>1, <1>2, <2>3, <2>4, <3>1 DEF Calm, Refreshing
  <2> QED
    BY <2>2, <2>5, <2>6, <2>7, <2>8
<1> QED
  BY <1>5, <1>6

LEMMA CalmStays == IType /\ KnownInv /\ MintedInv /\ CalmInv /\ [Next]_vars => CalmInv'
<1> SUFFICES ASSUME IType, KnownInv, MintedInv, CalmInv, [Next]_vars PROVE CalmInv'
  OBVIOUS
<1>1. ASSUME NEW d \in Dates, MonthBegins(d)
      PROVE  CalmInv'
  <2> SUFFICES ASSUME NEW c \in Callers, Undisturbed(c)' PROVE FALSE
    BY DEF CalmInv
  <2>1. Undisturbed(c)
    BY <1>1 DEF MonthBegins, Kept, mgrVars, Undisturbed
  <2>2. c \in disturbed'
    BY <1>1, <2>1, UndisturbedAsks DEF MonthBegins
  <2> QED
    BY <2>2 DEF Undisturbed
<1>2. CASE Die
  <2> SUFFICES ASSUME NEW c \in Callers, Undisturbed(c)' PROVE Calm(c)'
    BY DEF CalmInv
  <2>1. Undisturbed(c) /\ UNCHANGED <<past, want, op, mgr, tries, disturbed>>
    BY <1>2 DEF Die, Kept, mgrVars, Undisturbed
  <2>2. Current(c)' = Current(c) /\ Current(c) \in Slots /\ want[c] \in Tokens
    BY <2>1, UndisturbedAsks DEF Current
  <2>3. \A q \in Slots : srv'[q] \in {"none", "closed"}
    BY <1>2 DEF Die
  <2>4. vault'[want'[c]].until \notin past'
    BY <1>2, <2>1, <2>2, NetworkTokensAssumption DEF Die, Nothing, Token, IType, TypeOK
  <2> QED
    BY <2>2, <2>3, <2>4 DEF Calm, Refreshing
<1>3. CASE UNCHANGED vars
  BY <1>3 DEF vars, CalmInv, Undisturbed, Calm, HasFound, Current, Refreshing
<1> QED
  BY <1>1, <1>2, <1>3, CallsCalm, ServesCalm DEF Next

(* What ValidateAndGetToken returns is one date, read whole, and a valid one,   *)
(* unless the token was refreshed or expired while it asked; no other call, no  *)
(* race and no death of the service makes it return anything else.           *)
THEOREM InfoWhole == Spec => InfoIsWhole
<1>1. Init => CalmInv
  BY DEF Init, CalmInv, Undisturbed
<1>2. ASSUME IType, MintedInv, WriteInv, CalmInv, [Next]_vars, NEW c \in Callers,
             answer'[c].ok, ~answer[c].ok, op[c] = "info", c \notin disturbed
      PROVE  answer'[c].got.card = answer'[c].got.until /\ answer'[c].got.until \notin past
  <2>t. answer \in [Callers -> [ok : BOOLEAN, token : Tokens \cup {None}, got : Expiries]]
    BY <1>2 DEF IType, TypeOK
  <2>1. answer'[c] # answer[c]
    BY <1>2
  <2>2. Manage(c)
    <3>1. ASSUME NEW q \in Slots, Serve(q) PROVE FALSE
      BY <1>2, <2>1, <3>1, ServesAlone
    <3>2. ASSUME NEW d \in Callers, Manage(d), d # c PROVE FALSE
      BY <1>2, <2>1, <3>2, CallsWriteNothing
    <3> QED
      BY <1>2, <2>1, <3>1, <3>2 DEF Next, Call, MonthBegins, Die, Kept, mgrVars, vars
  <2>3. Informed(c)
    BY <1>2, <2>t, <2>1, <2>2 DEF Manage, Created, Refused, ConnectionFails, Retry, GiveUp,
       Validated, Refreshed, Return, BackOff, NoAnswer
  <2>4. /\ mgr[c] = "waiting" /\ srv[Current(c)] = "info"
        /\ answer'[c].got = seen[Current(c)]
    BY <2>3, <2>t DEF Informed, Return
  <2>5. Undisturbed(c) /\ Calm(c)
    BY <1>2, <2>4 DEF Undisturbed, CalmInv
  <2>6. want[c] \in Tokens
    BY <1>2, <2>5, UndisturbedAsks
  <2>7. /\ vault[want[c]].until \notin past
        /\ seen[Current(c)].card = vault[want[c]].card
        /\ seen[Current(c)].until = vault[want[c]].until
        /\ \A p \in Slots : Refreshing(p) => want[p[1]] # want[c]
    BY <1>2, <2>4, <2>5 DEF Calm, HasFound
  <2>8. vault[want[c]].card = vault[want[c]].until
    BY <1>2, <2>6, <2>7 DEF WriteInv
  <2> QED
    BY <2>4, <2>7, <2>8
<1>3. IType /\ MintedInv /\ WriteInv /\ CalmInv /\ [Next]_vars =>
        [\A c \in Callers :
          answer'[c].ok /\ ~answer[c].ok /\ op[c] = "info" /\ c \notin disturbed =>
              /\ answer'[c].got.card = answer'[c].got.until
              /\ answer'[c].got.until \notin past]_vars
  BY <1>2
<1> QED
  BY <1>1, <1>3, ITypeHolds, KnownInvHolds, WriteHolds, CalmStays, PTL DEF Spec, InfoIsWhole

=============================================================================
