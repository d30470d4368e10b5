---------------------------- MODULE NetworkTokens ----------------------------
(***************************************************************************)
(* cmd/network-token-service together with its client library,              *)
(* internal/tokens: the map of tokens, its mutex, which one path does not    *)
(* take, and the calls of TokenManager with their retries.  A call sends     *)
(* requests one after the other; one it stopped waiting for goes on in the   *)
(* service.  One action is one access to the map or to a token, or one step  *)
(* of the client.                                                           *)
(***************************************************************************)
EXTENDS FiniteSets, Naturals

CONSTANTS
    Callers,        \* calls of CreateTokenWithRetry, ValidateAndGetToken or RefreshToken
    MaxRetries,     \* the argument of CreateTokenWithRetry
    Dates,          \* expiry dates of cards
    Past,           \* those whose month has begun at first: ExpiresAt is its first instant
    Old,            \* a token created earlier
    None            \* no token, no date

Max2(a, b) == IF a > b THEN a ELSE b
(* A call's n-th request.  A token is named by the request that created it.  *)
Slots == Callers \X (1 .. Max2(MaxRetries + 1, 2))
Tokens == Slots \cup {Old}

ASSUME NetworkTokensAssumption ==
    /\ MaxRetries \in Nat /\ Past \subseteq Dates /\ Dates # {}
    /\ Old \notin Slots /\ None \notin Tokens /\ None \notin Dates

VARIABLES
    past,       \* the dates whose month has begun
    vault,      \* networkTokens: the card's date and ExpiresAt of each token; None: not there
    srv,        \* where the handler of each request is
    seen,       \* the dates a handler read
    op, mgr,    \* each call: which, and where it is
    tries,      \* requests it has sent
    want,       \* the token it asks about
    date,       \* the date it sends
    answer,     \* what it returned
    racing,     \* requests in the map that met another there, one of them writing
    granted,    \* history: tokens returned to a caller and not lost in a crash or a race
    minted,     \* history: tokens ever created
    lost,       \* history: calls one of whose replies did not arrive
    disturbed   \* history: calls during which the token they ask about was refreshed, or a
                \* month began

srvVars == <<vault, srv, seen, racing>>
mgrVars == <<op, mgr, tries, want, date, answer>>
vars == <<past, vault, srv, seen, op, mgr, tries, want, date, answer, racing, granted, minted,
          lost, disturbed>>

Token(c, u) == [card |-> c, until |-> u]
Nothing == Token(None, None)
NoAnswer == [ok |-> FALSE, token |-> None, got |-> Nothing]

Init ==
    /\ past = Past
    /\ \E d \in Dates : vault = [t \in Tokens |-> IF t = Old THEN Token(d, d) ELSE Nothing]
    /\ srv = [q \in Slots |-> "none"]
    /\ seen = [q \in Slots |-> Nothing]
    /\ op = [c \in Callers |-> "none"] /\ mgr = [c \in Callers |-> "idle"]
    /\ tries = [c \in Callers |-> 0]
    /\ want = [c \in Callers |-> None] /\ date = [c \in Callers |-> None]
    /\ answer = [c \in Callers |-> NoAnswer]
    /\ racing = {} /\ granted = {Old} /\ minted = {Old}
    /\ lost = {} /\ disturbed = {}

-----------------------------------------------------------------------------
(* The client.                                                              *)
Current(c) == <<c, tries[c]>>

Send(c) ==
    /\ tries' = [tries EXCEPT ![c] = @ + 1]
    /\ srv' = [srv EXCEPT ![<<c, tries[c] + 1>>] = "arrived"]
    /\ mgr' = [mgr EXCEPT ![c] = "waiting"]

Call(c, o, t, d) ==
    /\ mgr[c] = "idle"
    /\ op' = [op EXCEPT ![c] = o]
    /\ want' = [want EXCEPT ![c] = IF o = "create" THEN None ELSE t]
    /\ date' = [date EXCEPT ![c] = IF o = "validate" THEN None ELSE d]
    /\ Send(c)
    /\ UNCHANGED <<past, vault, seen, answer, racing, granted, minted, lost, disturbed>>

Return(c, a) ==
    /\ answer' = [answer EXCEPT ![c] = a]
    /\ mgr' = [mgr EXCEPT ![c] = "returned"]
    /\ granted' = IF a.ok THEN granted \cup ({a.token} \cap minted) ELSE granted

Close(c) == srv' = [srv EXCEPT ![Current(c)] = "closed"]

Succeeded_NetworkOnly(q) == srv[q] = "network"
Succeeded(q) == srv[q] \in {"network", "dual_vault"}

(* CreateTokenWithRetry: a token of either kind is a success, a refusal of the *)
(* service is final, and an error of the connection is tried again.          *)
Created(c) ==
    LET q == Current(c)
    IN  /\ mgr[c] = "waiting" /\ op[c] = "create" /\ Succeeded(q)
        /\ Close(c)
        /\ Return(c, [ok |-> TRUE, token |-> q, got |-> Nothing])
        /\ UNCHANGED <<past, vault, seen, op, tries, want, date, racing, minted, lost, disturbed>>

TriesLeft_Always(c) == TRUE
TriesLeft(c) == tries[c] <= MaxRetries

BackOff(c) ==
    IF op[c] = "create" /\ TriesLeft(c)
    THEN /\ mgr' = [mgr EXCEPT ![c] = "backoff"]
         /\ UNCHANGED <<answer, granted>>
    ELSE Return(c, NoAnswer)

(* A reply that says no, or that CreateTokenWithRetry does not recognise.     *)
Refused(c) ==
    /\ mgr[c] = "waiting"
    /\ srv[Current(c)] \in {"refused", "network", "dual_vault"}
    /\ ~(op[c] = "create" /\ Succeeded(Current(c)))
    /\ Close(c)
    /\ IF srv[Current(c)] = "refused" THEN Return(c, NoAnswer) ELSE BackOff(c)
    /\ UNCHANGED <<past, vault, seen, op, tries, want, date, racing, minted, lost, disturbed>>

(* The client's 10 s are over, or the connection broke.                      *)
ConnectionFails(c) ==
    /\ mgr[c] = "waiting"
    /\ lost' = lost \cup {c}
    /\ BackOff(c)
    /\ UNCHANGED <<past, vault, srv, seen, op, tries, want, date, racing, minted, disturbed>>

Retry(c) ==
    /\ mgr[c] = "backoff"
    /\ Send(c)
    /\ UNCHANGED <<past, vault, seen, op, want, date, answer, racing, granted, minted, lost, disturbed>>

(* The context ends during the delay before a retry.                         *)
GiveUp(c) ==
    /\ mgr[c] = "backoff"
    /\ Return(c, NoAnswer)
    /\ UNCHANGED <<past, vault, srv, seen, op, tries, want, date, racing, minted, lost, disturbed>>

(* ValidateAndGetToken sends its second request only for a valid token.      *)
IsValid_Ignored(q) == srv[q] \in {"valid", "refused"}
IsValid(q) == srv[q] = "valid"

Validated(c) ==
    /\ mgr[c] = "waiting" /\ op[c] = "validate" /\ IsValid(Current(c))
    /\ op' = [op EXCEPT ![c] = "info"]
    /\ tries' = [tries EXCEPT ![c] = @ + 1]
    /\ srv' = [srv EXCEPT ![Current(c)] = "closed", ![<<c, tries[c] + 1>>] = "arrived"]
    /\ UNCHANGED <<past, vault, seen, mgr, want, date, answer, racing, granted, minted, lost, disturbed>>

Informed(c) ==
    /\ mgr[c] = "waiting" /\ op[c] = "info" /\ srv[Current(c)] = "info"
    /\ Close(c)
    /\ Return(c, [ok |-> TRUE, token |-> want[c], got |-> seen[Current(c)]])
    /\ UNCHANGED <<past, vault, seen, op, tries, want, date, racing, minted, lost, disturbed>>

Refreshed(c) ==
    /\ mgr[c] = "waiting" /\ op[c] = "refresh" /\ srv[Current(c)] = "refreshed"
    /\ Close(c)
    /\ Return(c, [ok |-> TRUE, token |-> want[c], got |-> Nothing])
    /\ UNCHANGED <<past, vault, seen, op, tries, want, date, racing, minted, lost, disturbed>>

-----------------------------------------------------------------------------
(* The service: its mutex and its map.                                       *)
Writing(q) == srv[q] \in {"store", "store_dual"}
InMap(q) == Writing(q) \/ srv[q] = "find"

Locked_Shared == \E q \in Slots : srv[q] = "halfwritten"
Locked == \E q \in Slots : srv[q] \in {"store", "halfwritten"}

RLocked == \E q \in Slots : srv[q] = "find"

At(q, s) == srv' = [srv EXCEPT ![q] = s]
Kept == UNCHANGED <<mgrVars, lost>>

(* Who enters the map meets who is there; it is a race if one of them writes. *)
Enter(q, s) ==
    LET met == {p \in Slots : InMap(p) /\ (Writing(p) \/ s \in {"store", "store_dual"})}
    IN  /\ At(q, s)
        /\ racing' = IF met = {} THEN racing ELSE racing \cup met \cup {q}

(* createToken refuses a card, or chooses by chance.  The path of a network   *)
(* token takes the lock, the other writes the map without it.               *)
Refuse(q) ==
    /\ srv[q] = "arrived" /\ op[q[1]] = "create"
    /\ At(q, "refused")
    /\ Kept /\ UNCHANGED <<past, vault, seen, racing, granted, minted, disturbed>>

BeginStore(q) ==
    /\ srv[q] = "arrived" /\ op[q[1]] = "create"
    /\ ~Locked /\ ~RLocked
    /\ Enter(q, "store")
    /\ Kept /\ UNCHANGED <<past, vault, seen, granted, minted, disturbed>>

BeginStoreDual(q) ==
    /\ srv[q] = "arrived" /\ op[q[1]] = "create"
    /\ Enter(q, "store_dual")
    /\ Kept /\ UNCHANGED <<past, vault, seen, granted, minted, disturbed>>

Stored_NetworkOnly(q) ==
    IF srv[q] = "store" THEN [vault EXCEPT ![q] = Token(date[q[1]], date[q[1]])] ELSE vault
Stored(q) == [vault EXCEPT ![q] = Token(date[q[1]], date[q[1]])]

(* A write that raced may be lost; the reply has the token all the same.      *)
EndStore(q) ==
    /\ Writing(q)
    /\ \/ vault' = Stored(q) /\ minted' = minted \cup {q}
       \/ q \in racing /\ UNCHANGED <<past, vault, minted>>
    /\ At(q, IF srv[q] = "store" THEN "network" ELSE "dual_vault")
    /\ racing' = racing \ {q}
    /\ Kept /\ UNCHANGED <<past, seen, granted, disturbed>>

(* The other handlers look the token up under the read lock, and go on without *)
(* it, with a pointer to the token.                                         *)
BeginFind(q) ==
    /\ srv[q] = "arrived" /\ op[q[1]] # "create" /\ ~Locked
    /\ Enter(q, "find")
    /\ Kept /\ UNCHANGED <<past, vault, seen, granted, minted, disturbed>>

EndFind(q) ==
    /\ srv[q] = "find"
    /\ At(q, IF vault[want[q[1]]] = Nothing THEN "refused" ELSE "found")
    /\ racing' = racing \ {q}
    /\ Kept /\ UNCHANGED <<past, vault, seen, granted, minted, disturbed>>

Validate(q) ==
    /\ srv[q] = "found" /\ op[q[1]] = "validate"
    /\ At(q, IF vault[want[q[1]]].until \in past THEN "refused" ELSE "valid")
    /\ Kept /\ UNCHANGED <<past, vault, seen, racing, granted, minted, disturbed>>

(* getTokenInfo reads the card's date, and then ExpiresAt.                    *)
ReadCard(q) ==
    /\ srv[q] = "found" /\ op[q[1]] = "info"
    /\ At(q, "halfread")
    /\ seen' = [seen EXCEPT ![q].card = vault[want[q[1]]].card]
    /\ Kept /\ UNCHANGED <<past, vault, racing, granted, minted, disturbed>>

ReadExpiresAt(q) ==
    /\ srv[q] = "halfread"
    /\ At(q, "info")
    /\ seen' = [seen EXCEPT ![q].until = vault[want[q[1]]].until]
    /\ Kept /\ UNCHANGED <<past, vault, racing, granted, minted, disturbed>>

(* refreshToken writes both under the lock, whatever the date.               *)
Asking(t) == {c \in Callers : want[c] = t /\ op[c] \in {"validate", "info"} /\ mgr[c] = "waiting"}

WriteCard(q) ==
    LET t == want[q[1]]
    IN  /\ srv[q] = "found" /\ op[q[1]] = "refresh" /\ ~Locked /\ ~RLocked
        /\ At(q, "halfwritten")
        /\ vault' = [vault EXCEPT ![t].card = date[q[1]]]
        /\ disturbed' = disturbed \cup Asking(t)
        /\ Kept /\ UNCHANGED <<past, seen, racing, granted, minted>>

WriteExpiresAt(q) ==
    LET t == want[q[1]]
    IN  /\ srv[q] = "halfwritten"
        /\ At(q, "refreshed")
        /\ vault' = [vault EXCEPT ![t].until = date[q[1]]]
        /\ disturbed' = disturbed \cup Asking(t)
        /\ Kept /\ UNCHANGED <<past, seen, racing, granted, minted>>

(* A month begins: tokens of that date have expired.                          *)
MonthBegins(d) ==
    /\ d \notin past
    /\ past' = past \cup {d}
    /\ disturbed' = disturbed \cup UNION {Asking(t) : t \in Tokens}
    /\ Kept /\ UNCHANGED <<vault, srv, seen, racing, granted, minted>>

(* The Go runtime ends a process it catches in a race on a map.  It starts    *)
(* again with an empty one; who was waiting learns of it as of any other     *)
(* broken connection.                                                       *)
Die ==
    /\ racing # {}
    /\ vault' = [t \in Tokens |-> Nothing]
    /\ srv' = [q \in Slots |-> IF srv[q] = "none" THEN "none" ELSE "closed"]
    /\ racing' = {} /\ granted' = {}
    /\ Kept /\ UNCHANGED <<past, seen, minted, disturbed>>

-----------------------------------------------------------------------------
Manage(c) ==
    \/ Created(c) \/ Refused(c) \/ ConnectionFails(c) \/ Retry(c) \/ GiveUp(c)
    \/ Validated(c) \/ Informed(c) \/ Refreshed(c)

Serve(q) ==
    \/ Refuse(q) \/ BeginStore(q) \/ BeginStoreDual(q) \/ EndStore(q)
    \/ BeginFind(q) \/ EndFind(q) \/ Validate(q) \/ ReadCard(q) \/ ReadExpiresAt(q)
    \/ WriteCard(q) \/ WriteExpiresAt(q)

Next ==
    \/ \E c \in Callers, o \in {"create", "validate", "refresh"}, t \in granted, d \in Dates :
         Call(c, o, t, d)
    \/ \E c \in Callers : Manage(c)
    \/ \E q \in Slots : Serve(q)
    \/ \E d \in Dates : MonthBegins(d)
    \/ Die

Spec == Init /\ [][Next]_vars

-----------------------------------------------------------------------------
(* Properties.                                                              *)

Expiries == [card : Dates \cup {None}, until : Dates \cup {None}]

TypeOK ==
    /\ past \subseteq Dates
    /\ vault \in [Tokens -> Expiries] /\ seen \in [Slots -> Expiries]
    /\ srv \in [Slots -> {"none", "arrived", "store", "store_dual", "find", "found", "halfread",
                          "halfwritten", "refused", "network", "dual_vault", "valid", "info",
                          "refreshed", "closed"}]
    /\ op \in [Callers -> {"none", "create", "validate", "info", "refresh"}]
    /\ mgr \in [Callers -> {"idle", "waiting", "backoff", "returned"}]
    /\ \A c \in Callers : tries[c] <= IF op[c] = "create" THEN MaxRetries + 1 ELSE 2
    /\ want \in [Callers -> Tokens \cup {None}] /\ date \in [Callers -> Dates \cup {None}]
    /\ answer \in [Callers -> [ok : BOOLEAN, token : Tokens \cup {None}, got : Expiries]]
    /\ racing \subseteq Slots
    /\ granted \subseteq Tokens /\ minted \subseteq Tokens
    /\ lost \subseteq Callers /\ disturbed \subseteq Callers

(* The map is accessed by one writer alone, or by readers: all but the paths   *)
(* that store a dual-vault token keep to that.                              *)
RaceNeedsDualVault ==
    \A p, q \in Slots :
        p # q /\ InMap(p) /\ InMap(q) /\ Writing(p) =>
            srv[p] = "store_dual" \/ srv[q] = "store_dual"

(* A token that was returned stays known, whatever refreshes, retries and      *)
(* abandoned requests do, unless the service died or its own write was lost. *)
GrantedIsKnown == \A t \in granted : vault[t] # Nothing

(* A call of CreateTokenWithRetry leaves a second token behind only if a       *)
(* connection failed it: a fallback to the dual vault is a success.          *)
ExtraTokenNeedsLoss ==
    \A c \in Callers \ lost : Cardinality({t \in minted \cap Slots : t[1] = c}) <= 1

(* What ValidateAndGetToken returns is one date, read whole, and a valid one,  *)
(* although it reads twice and without the lock, unless the token was        *)
(* refreshed, or expired, in the meantime.                                   *)
InfoIsWhole ==
    [][\A c \in Callers :
          answer'[c].ok /\ ~answer[c].ok /\ op[c] = "info" /\ c \notin disturbed =>
              /\ answer'[c].got.card = answer'[c].got.until
              /\ answer'[c].got.until \notin past]_vars
=============================================================================
