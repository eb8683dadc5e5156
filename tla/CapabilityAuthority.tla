------------------------ MODULE CapabilityAuthority ------------------------
(***************************************************************************)
(* The control plane's local capability authority (api/capabilities.py):   *)
(* the two bearer credentials and their generations, the bootstrap token   *)
(* that opens operator sessions, the handoffs by which a browser gets one  *)
(* approved at the launcher, and the rotation that revokes them all.       *)
(*                                                                         *)
(* Its callers are coroutines of one event loop and no method awaits, so a *)
(* method is one step.  The authority lives in memory; a restart makes a   *)
(* new one, which is Init again.  Digests are modelled by what they        *)
(* compare.  Handoff and session ids are random tokens: here the number of *)
(* the request and of the grant, which makes them new and keeps the order  *)
(* in which the dictionary holds them.                                     *)
(***************************************************************************)
EXTENDS Naturals, Sequences, FiniteSets

CONSTANTS
    Secrets,            \* credentials and bootstrap tokens of proper length
    Claims,             \* the claim tokens browsers make up
    Short,              \* a new bootstrap token of fewer than 8 characters
    None,               \* no new bootstrap token
    MaxHandoffs,        \* the slots of the handoff table (16)
    BootstrapTtl,       \* bootstrap_ttl_seconds, in ticks
    SessionTtl,         \* session_ttl_seconds, in ticks
    MaxTime,            \* bound: ticks
    MaxAsked,           \* bound: handoffs requested
    MaxGrants,          \* bound: sessions issued
    MaxGeneration       \* bound: generations of one credential

ASSUME AuthorityAssumption ==
    /\ Short \notin Secrets /\ None \notin Secrets /\ Short # None
    /\ MaxHandoffs \in Nat \ {0}
    /\ BootstrapTtl \in Nat \ {0} /\ SessionTtl \in Nat \ {0}
    /\ MaxTime \in Nat /\ MaxAsked \in Nat /\ MaxGrants \in Nat
    /\ MaxGeneration \in Nat

Capabilities == {"operator-console", "adk-developer"}

Other(capability) ==
    IF capability = "adk-developer" THEN "operator-console"
    ELSE "adk-developer"

VARIABLES
    credential,     \* per capability: the bearer credential
    generation,     \* per capability: how often it was set
    bootstrap,      \* the token, when it expires, used and revoked
    handoffs,       \* the handoff table
    sessions,       \* the live sessions
    now,            \* time.monotonic()
    asked,          \* history: the generation each handoff was requested in
    grants          \* history: the handoff (0: the direct exchange) and the
                    \* generation behind every session ever issued

vars == <<credential, generation, bootstrap, handoffs, sessions, now,
          asked, grants>>

Operator == "operator-console"

Handoffs ==
    [id : Nat, claim : Claims, expires : Nat,
     approved : BOOLEAN, used : BOOLEAN]

Sessions == [id : Nat, expires : Nat, generation : Nat]

-----------------------------------------------------------------------------

(* _issue_session *)
Issue(handoff) ==
    /\ Len(grants) < MaxGrants
    /\ sessions' = sessions \cup
          {[id |-> Len(grants) + 1, expires |-> now + SessionTtl,
            generation |-> generation[Operator]]}
    /\ grants' = Append(grants, [handoff |-> handoff,
                                 generation |-> generation[Operator]])

ExchangeBootstrap(token) ==
    /\ ~bootstrap.revoked
    /\ ~bootstrap.used
    /\ now < bootstrap.expires
    /\ token = bootstrap.token
    /\ bootstrap' = [bootstrap EXCEPT !.used = TRUE]
    /\ Issue(0)
    /\ UNCHANGED <<credential, generation, handoffs, now, asked>>

(* _discard_expired_handoffs *)
Pending == {h \in handoffs : ~h.used /\ h.expires > now}

(* Definitions named Fault... are slips a maintainer could make in the     *)
(* definition that follows them; no action uses one.                       *)
FaultEvictNewest(table) ==
    {h \in table : \A g \in table :
        h.expires > g.expires \/ (h.expires = g.expires /\ h.id >= g.id)}

(* min by expires_at; of equals the one the dictionary has first. *)
Oldest(table) ==
    {h \in table : \A g \in table :
        h.expires < g.expires \/ (h.expires = g.expires /\ h.id <= g.id)}

(* A full table gives up its oldest entry rather than refuse the request. *)
WithRoom(table) ==
    IF Cardinality(table) >= MaxHandoffs THEN table \ Oldest(table) ELSE table

CreateHandoff(claim) ==
    /\ Len(asked) < MaxAsked
    /\ ~bootstrap.revoked
    /\ handoffs' = WithRoom(Pending) \cup
          {[id |-> Len(asked) + 1, claim |-> claim,
            expires |-> now + BootstrapTtl,
            approved |-> FALSE, used |-> FALSE]}
    /\ asked' = Append(asked, generation[Operator])
    /\ UNCHANGED <<credential, generation, bootstrap, sessions, now, grants>>

(* The same call refused: the table has been swept all the same. *)
RefuseHandoff ==
    /\ bootstrap.revoked
    /\ handoffs' = Pending
    /\ UNCHANGED <<credential, generation, bootstrap, sessions, now,
                   asked, grants>>

FaultTokenStillGood(token, h) ==
    /\ ~bootstrap.revoked
    /\ token = bootstrap.token
    /\ ~h.used /\ h.expires > now
    /\ handoffs' = (handoffs \ {h}) \cup {[h EXCEPT !.approved = TRUE]}
    /\ UNCHANGED <<credential, generation, bootstrap, sessions, now,
                   asked, grants>>

(* The token's own expiry is not looked at: approval works as long as the  *)
(* process does.                                                           *)
ApproveHandoff(token, h) ==
    /\ ~bootstrap.revoked
    /\ token = bootstrap.token
    /\ ~h.used /\ h.expires > now
    /\ handoffs' = (handoffs \ {h}) \cup {[h EXCEPT !.approved = TRUE]}
    /\ bootstrap' = [bootstrap EXCEPT !.used = TRUE]
    /\ UNCHANGED <<credential, generation, sessions, now, asked, grants>>

FaultClaimAgain(claim, h) ==
    /\ h.approved
    /\ h.expires > now
    /\ claim = h.claim
    /\ Issue(h.id)
    /\ UNCHANGED <<credential, generation, bootstrap, handoffs, now, asked>>

(* Neither the bootstrap's state nor the generation is looked at. *)
ClaimHandoff(claim, h) ==
    /\ h.approved
    /\ ~h.used /\ h.expires > now
    /\ claim = h.claim
    /\ handoffs' = (handoffs \ {h}) \cup {[h EXCEPT !.used = TRUE]}
    /\ Issue(h.id)
    /\ UNCHANGED <<credential, generation, bootstrap, now, asked>>

(* The bootstrap after a rotation of the operator's credential. *)
Rearmed(token) ==
    IF token \in Secrets
    THEN [token |-> token, expires |-> now + BootstrapTtl,
          used |-> FALSE, revoked |-> FALSE]
    ELSE [bootstrap EXCEPT !.used = TRUE, !.revoked = TRUE]

FaultHandoffsSurvive(new, token) ==
    /\ generation[Operator] < MaxGeneration
    /\ new # credential["adk-developer"]
    /\ credential' = [credential EXCEPT ![Operator] = new]
    /\ generation' = [generation EXCEPT ![Operator] = @ + 1]
    /\ sessions' = {}
    /\ bootstrap' = Rearmed(token)
    /\ UNCHANGED <<handoffs, now, asked, grants>>

FaultSessionsSurvive(new, token) ==
    /\ generation[Operator] < MaxGeneration
    /\ new # credential["adk-developer"]
    /\ credential' = [credential EXCEPT ![Operator] = new]
    /\ generation' = [generation EXCEPT ![Operator] = @ + 1]
    /\ handoffs' = {}
    /\ bootstrap' = Rearmed(token)
    /\ UNCHANGED <<sessions, now, asked, grants>>

(* rotate of the operator's credential.  A new bootstrap token that is too *)
(* short is refused when everything is already revoked and the credential  *)
(* replaced: the caller gets a ValueError, the rotation has happened.      *)
RotateOperator(new, token) ==
    /\ generation[Operator] < MaxGeneration
    /\ new # credential["adk-developer"]
    /\ credential' = [credential EXCEPT ![Operator] = new]
    /\ generation' = [generation EXCEPT ![Operator] = @ + 1]
    /\ sessions' = {}
    /\ handoffs' = {}
    /\ bootstrap' = Rearmed(token)
    /\ UNCHANGED <<now, asked, grants>>

(* rotate of the ADK's credential. *)
RotateAdk(new) ==
    /\ generation["adk-developer"] < MaxGeneration
    /\ new # credential[Operator]
    /\ credential' = [credential EXCEPT !["adk-developer"] = new]
    /\ generation' = [generation EXCEPT !["adk-developer"] = @ + 1]
    /\ UNCHANGED <<bootstrap, handoffs, sessions, now, asked, grants>>

(* authenticate_session: whom the middleware lets through, and the session *)
(* that is forgotten when it does not.                                     *)
Lives(s) == s.expires > now /\ s.generation = generation[Operator]

AuthenticateSession(s) ==
    /\ ~Lives(s)
    /\ sessions' = sessions \ {s}
    /\ UNCHANGED <<credential, generation, bootstrap, handoffs, now,
                   asked, grants>>

Tick ==
    /\ now < MaxTime
    /\ now' = now + 1
    /\ UNCHANGED <<credential, generation, bootstrap, handoffs, sessions,
                   asked, grants>>

-----------------------------------------------------------------------------

Init ==
    /\ \E operator, adk, token \in Secrets :
          /\ operator # adk
          /\ credential = [c \in Capabilities |->
                IF c = Operator THEN operator ELSE adk]
          /\ bootstrap = [token |-> token, expires |-> BootstrapTtl,
                          used |-> FALSE, revoked |-> FALSE]
    /\ generation = [c \in Capabilities |-> 1]
    /\ handoffs = {}
    /\ sessions = {}
    /\ now = 0
    /\ asked = <<>>
    /\ grants = <<>>

Next ==
    \/ \E token \in Secrets : ExchangeBootstrap(token)
    \/ \E claim \in Claims : CreateHandoff(claim)
    \/ RefuseHandoff
    \/ \E token \in Secrets, h \in handoffs : ApproveHandoff(token, h)
    \/ \E claim \in Claims, h \in handoffs : ClaimHandoff(claim, h)
    \/ \E new \in Secrets, token \in Secrets \cup {Short, None} :
          RotateOperator(new, token)
    \/ \E new \in Secrets : RotateAdk(new)
    \/ \E s \in sessions : AuthenticateSession(s)
    \/ Tick

Spec == Init /\ [][Next]_vars

-----------------------------------------------------------------------------
(* Properties *)

(* The authority's shape. *)
TypeOK ==
    /\ credential \in [Capabilities -> Secrets]
    /\ generation \in [Capabilities -> Nat]
    /\ bootstrap \in [token : Secrets, expires : Nat,
                      used : BOOLEAN, revoked : BOOLEAN]
    /\ handoffs \subseteq Handoffs
    /\ sessions \subseteq Sessions
    /\ now \in Nat
    /\ asked \in Seq(Nat)
    /\ grants \in Seq([handoff : Nat, generation : Nat])

(* The two capabilities never share a credential, whatever is rotated to   *)
(* what, so that a bearer stands for one of them.                          *)
CredentialsIndependent == credential[Operator] # credential["adk-developer"]

(* adr-0003: a rotation without a usable bootstrap token closes the whole  *)
(* channel, also when it fails half-way: nothing is left that a claim,     *)
(* which does not ask whether the channel is revoked, could turn into a    *)
(* session.                                                                *)
RevokedIsClosed == bootstrap.revoked => handoffs = {} /\ sessions = {}

(* A rotation ends every session of the generations before it, and every   *)
(* handoff that was requested under them.                                  *)
RotationRevokes ==
    /\ \A s \in sessions : s.generation = generation[Operator]
    /\ \A h \in handoffs : asked[h.id] = generation[Operator]

(* Every session has a cause of its own: a handoff of the same generation  *)
(* is good for one session, and the direct exchange for one per arming.    *)
OneSessionPerGrant ==
    \A i, k \in 1 .. Len(grants) :
        /\ grants[i].handoff = grants[k].handoff
        /\ grants[i].generation = grants[k].generation
        => i = k

(* README.md:211: only the direct exchange is single-use, and an approval  *)
(* uses it up too: after a session from a handoff there is none from a     *)
(* direct exchange until the token is re-armed.                            *)
ApprovalSpendsExchange ==
    \A i, k \in 1 .. Len(grants) :
        /\ i < k
        /\ grants[i].generation = grants[k].generation
        => grants[k].handoff # 0

(* Anonymous requests cannot push out a handoff faster than the table      *)
(* turns over: in its life and generation a handoff stays, to be approved  *)
(* and claimed, until MaxHandoffs others were requested after it.          *)
RecentHandoffsStay ==
    [][\A h \in handoffs :
          /\ ~h.used /\ h.expires > now
          /\ generation' = generation
          /\ h.id + MaxHandoffs > Len(asked')
          => \E g \in handoffs' : g.id = h.id]_vars
=============================================================================
