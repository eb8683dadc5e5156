--------------------- MODULE CapabilityAuthorityProofs ---------------------
(***************************************************************************)
(* What holds of the capability authority for every set of secrets and     *)
(* claims, every size of the handoff table and all times to live.          *)
(***************************************************************************)
EXTENDS CapabilityAuthority, SequenceTheorems, FunctionTheorems,
        FiniteSetTheorems, TLAPS

-----------------------------------------------------------------------------
(* The inductive invariant *)

(* A handoff of the table was requested, and two are never the same. *)
HandoffsKnown ==
    /\ \A h \in handoffs : h.id \in 1 .. Len(asked)
    /\ \A g, h \in handoffs : g.id = h.id => g = h

(* What is still to be claimed has not led to a session. *)
UnusedUngranted ==
    \A i \in 1 .. Len(grants) :
        /\ grants[i].handoff \in 0 .. Len(asked)
        /\ \A h \in handoffs : grants[i].handoff = h.id => h.used

(* A session or an approval of this generation has spent the exchange. *)
ExchangeSpent ==
    /\ \A i \in 1 .. Len(grants) :
          /\ grants[i].generation <= generation[Operator]
          /\ grants[i].generation = generation[Operator] => bootstrap.used
    /\ \A h \in handoffs : h.approved => bootstrap.used

Inv ==
    /\ TypeOK
    /\ CredentialsIndependent
    /\ HandoffsKnown
    /\ RevokedIsClosed
    /\ RotationRevokes
    /\ UnusedUngranted
    /\ ExchangeSpent
    /\ OneSessionPerGrant
    /\ ApprovalSpendsExchange

-----------------------------------------------------------------------------
(* Lemmas *)

(* A grant appended to the history: what the sequence holds afterwards. *)
LEMMA GrantAppended ==
    ASSUME NEW h \in Nat, TypeOK, Issue(h)
    PROVE  /\ grants' \in Seq([handoff : Nat, generation : Nat])
           /\ Len(grants') = Len(grants) + 1
           /\ \A i \in 1 .. Len(grants) : grants'[i] = grants[i]
           /\ grants'[Len(grants) + 1] =
                 [handoff |-> h, generation |-> generation[Operator]]
<1>1. generation[Operator] \in Nat
  BY DEF TypeOK, Operator, Capabilities
<1>2. [handoff |-> h, generation |-> generation[Operator]]
         \in [handoff : Nat, generation : Nat]
  BY <1>1
<1> QED
  BY <1>2, AppendProperties DEF TypeOK, Issue

LEMMA SessionsTyped ==
    ASSUME NEW h \in Nat, TypeOK, AuthorityAssumption, Issue(h)
    PROVE  /\ sessions' \subseteq Sessions
           /\ \A s \in sessions' :
                 s \in sessions \/ s.generation = generation[Operator]
<1>1. generation[Operator] \in Nat
  BY DEF TypeOK, Operator, Capabilities
<1>2. Len(grants) + 1 \in Nat /\ now + SessionTtl \in Nat
  BY AuthorityAssumption, LenProperties DEF TypeOK
<1> QED
  BY <1>1, <1>2 DEF Issue, Sessions, TypeOK

(* A session issued for a cause that no session had, in a generation whose *)
(* exchange is spent, keeps what is said of grants.                        *)
LEMMA GrantIsNew ==
    ASSUME Inv, NEW h \in 0 .. Len(asked), Issue(h),
           bootstrap'.used, UNCHANGED <<generation, asked>>,
           \A i \in 1 .. Len(grants) :
               /\ grants[i].generation = generation[Operator]
               => grants[i].handoff # h /\ h # 0
    PROVE  /\ OneSessionPerGrant'
           /\ ApprovalSpendsExchange'
           /\ \A i \in 1 .. Len(grants') :
                 /\ grants'[i].handoff \in 0 .. Len(asked)
                 /\ grants'[i].generation <= generation[Operator]
                 /\ \/ grants'[i].handoff = h
                    \/ i \in 1 .. Len(grants) /\ grants'[i] = grants[i]
<1>0. TypeOK /\ UnusedUngranted /\ ExchangeSpent
      /\ OneSessionPerGrant /\ ApprovalSpendsExchange
  BY DEF Inv
<1>1. Len(asked) \in Nat /\ Len(grants) \in Nat /\ h \in Nat
      /\ generation[Operator] \in Nat
  BY <1>0, LenProperties DEF TypeOK, Operator, Capabilities
<1>2. /\ Len(grants') = Len(grants) + 1
      /\ \A i \in 1 .. Len(grants) : grants'[i] = grants[i]
      /\ grants'[Len(grants) + 1].handoff = h
      /\ grants'[Len(grants) + 1].generation = generation[Operator]
  <2>1. /\ Len(grants') = Len(grants) + 1
        /\ \A i \in 1 .. Len(grants) : grants'[i] = grants[i]
        /\ grants'[Len(grants) + 1] =
              [handoff |-> h, generation |-> generation[Operator]]
    BY <1>0, <1>1, GrantAppended
  <2> QED
    BY <2>1
<1>3. \A i \in 1 .. Len(grants') :
          i \in 1 .. Len(grants) \/ i = Len(grants) + 1
  BY <1>1, <1>2
<1>4. OneSessionPerGrant'
  BY <1>0, <1>1, <1>2, <1>3 DEF OneSessionPerGrant
<1>5. ApprovalSpendsExchange'
  BY <1>0, <1>1, <1>2, <1>3 DEF ApprovalSpendsExchange
<1>6. \A i \in 1 .. Len(grants') :
          /\ grants'[i].handoff \in 0 .. Len(asked)
          /\ grants'[i].generation <= generation[Operator]
          /\ \/ grants'[i].handoff = h
             \/ i \in 1 .. Len(grants) /\ grants'[i] = grants[i]
  BY <1>0, <1>1, <1>2, <1>3 DEF UnusedUngranted, ExchangeSpent
<1> QED
  BY <1>4, <1>5, <1>6

-----------------------------------------------------------------------------
(* Type correctness *)

LEMMA TypeStep == TypeOK /\ [Next]_vars => TypeOK'
<1> SUFFICES ASSUME TypeOK, [Next]_vars PROVE TypeOK'
  OBVIOUS
<1> USE AuthorityAssumption
<1>1. ASSUME NEW token \in Secrets, ExchangeBootstrap(token)
      PROVE  TypeOK'
  <2>1. Issue(0) /\ 0 \in Nat
    BY <1>1 DEF ExchangeBootstrap
  <2> QED
    BY <1>1, <2>1, GrantAppended, SessionsTyped
    DEF TypeOK, ExchangeBootstrap
<1>2. ASSUME NEW claim \in Claims, CreateHandoff(claim)
      PROVE  TypeOK'
  <2>0. [id |-> Len(asked) + 1, claim |-> claim,
         expires |-> now + BootstrapTtl,
         approved |-> FALSE, used |-> FALSE] \in Handoffs
    BY <1>2, LenProperties DEF TypeOK, Handoffs
  <2>1. handoffs' \subseteq Handoffs
    BY <1>2, <2>0 DEF TypeOK, CreateHandoff, WithRoom, Pending
  <2>2. asked' \in Seq(Nat)
    <3>1. generation[Operator] \in Nat
      BY DEF TypeOK, Operator, Capabilities
    <3> QED
      BY <1>2, <3>1, AppendProperties DEF TypeOK, CreateHandoff
  <2> QED
    BY <1>2, <2>1, <2>2 DEF TypeOK, CreateHandoff
<1>3. ASSUME RefuseHandoff
      PROVE  TypeOK'
  BY <1>3 DEF TypeOK, RefuseHandoff, Pending
<1>4. ASSUME NEW token \in Secrets, NEW h \in handoffs,
             ApproveHandoff(token, h)
      PROVE  TypeOK'
  BY <1>4 DEF TypeOK, ApproveHandoff, Handoffs
<1>5. ASSUME NEW claim \in Claims, NEW h \in handoffs,
             ClaimHandoff(claim, h)
      PROVE  TypeOK'
  <2>1. Issue(h.id) /\ h.id \in Nat
    BY <1>5 DEF ClaimHandoff, TypeOK, Handoffs
  <2>2. handoffs' \subseteq Handoffs
    BY <1>5 DEF ClaimHandoff, TypeOK, Handoffs
  <2> QED
    BY <1>5, <2>1, <2>2, GrantAppended, SessionsTyped
    DEF TypeOK, ClaimHandoff
<1>6. ASSUME NEW new \in Secrets,
             NEW token \in Secrets \cup {Short, None},
             RotateOperator(new, token)
      PROVE  TypeOK'
  <2>1. bootstrap' \in [token : Secrets, expires : Nat,
                        used : BOOLEAN, revoked : BOOLEAN]
    <3>1. CASE token \in Secrets
      BY <1>6, <3>1 DEF TypeOK, RotateOperator, Rearmed
    <3>2. CASE token \notin Secrets
      BY <1>6, <3>2 DEF TypeOK, RotateOperator, Rearmed
    <3> QED
      BY <3>1, <3>2
  <2>2. generation' \in [Capabilities -> Nat]
    BY <1>6 DEF TypeOK, RotateOperator, Capabilities, Operator
  <2>3. credential' \in [Capabilities -> Secrets]
    BY <1>6 DEF TypeOK, RotateOperator
  <2> QED
    BY <1>6, <2>1, <2>2, <2>3 DEF TypeOK, RotateOperator
<1>7. ASSUME NEW new \in Secrets, RotateAdk(new)
      PROVE  TypeOK'
  BY <1>7 DEF TypeOK, RotateAdk, Capabilities
<1>8. ASSUME NEW s \in sessions, AuthenticateSession(s)
      PROVE  TypeOK'
  BY <1>8 DEF TypeOK, AuthenticateSession
<1>9. ASSUME Tick
      PROVE  TypeOK'
  BY <1>9 DEF TypeOK, Tick
<1>10. ASSUME UNCHANGED vars
       PROVE  TypeOK'
  BY <1>10 DEF TypeOK, vars
<1> QED
  BY <1>1, <1>2, <1>3, <1>4, <1>5, <1>6, <1>7, <1>8, <1>9, <1>10 DEF Next

(* Every method leaves the authority's state in shape. *)
THEOREM TypeCorrect == Spec => []TypeOK
<1>1. Init => TypeOK
  BY AuthorityAssumption
  DEF Init, TypeOK, Capabilities, Operator
<1> QED
  BY <1>1, TypeStep, PTL DEF Spec

-----------------------------------------------------------------------------
(* The invariant is inductive *)

LEMMA InvHoldsInitially == Init => Inv
<1> SUFFICES ASSUME Init PROVE Inv
  OBVIOUS
<1>1. TypeOK
  BY AuthorityAssumption DEF Init, TypeOK, Capabilities, Operator
<1>2. CredentialsIndependent
  BY DEF Init, CredentialsIndependent, Capabilities, Operator
<1>3. Len(grants) = 0 /\ Len(asked) = 0
  BY DEF Init
<1>4. HandoffsKnown /\ RevokedIsClosed /\ RotationRevokes
  BY DEF Init, HandoffsKnown, RevokedIsClosed, RotationRevokes
<1>5. /\ UnusedUngranted /\ ExchangeSpent
      /\ OneSessionPerGrant /\ ApprovalSpendsExchange
  BY <1>3 DEF Init, UnusedUngranted, ExchangeSpent, OneSessionPerGrant,
              ApprovalSpendsExchange
<1> QED
  BY <1>1, <1>2, <1>4, <1>5 DEF Inv

LEMMA ExchangeKeepsInv ==
    ASSUME Inv, NEW token \in Secrets, ExchangeBootstrap(token), TypeOK'
    PROVE  Inv'
<1>1. /\ Issue(0) /\ bootstrap'.used
      /\ ~bootstrap.used /\ ~bootstrap.revoked
      /\ bootstrap'.revoked = bootstrap.revoked
      /\ UNCHANGED <<credential, generation, handoffs, now, asked>>
  BY DEF ExchangeBootstrap, Inv, TypeOK
<1>2. \A i \in 1 .. Len(grants) :
          grants[i].generation # generation[Operator]
  BY <1>1 DEF Inv, ExchangeSpent
<1>3. 0 \in 0 .. Len(asked) /\ 0 \in Nat
  BY LenProperties DEF Inv, TypeOK
<1>4. /\ OneSessionPerGrant'
      /\ ApprovalSpendsExchange'
      /\ \A i \in 1 .. Len(grants') :
            /\ grants'[i].handoff \in 0 .. Len(asked)
            /\ grants'[i].generation <= generation[Operator]
            /\ \/ grants'[i].handoff = 0
               \/ i \in 1 .. Len(grants) /\ grants'[i] = grants[i]
  BY <1>1, <1>2, <1>3, GrantIsNew
<1>5. HandoffsKnown' /\ CredentialsIndependent'
  BY <1>1 DEF Inv, HandoffsKnown, CredentialsIndependent
<1>6. RevokedIsClosed'
  BY <1>1 DEF RevokedIsClosed
<1>7. RotationRevokes'
  BY <1>1, <1>3, SessionsTyped, AuthorityAssumption DEF Inv, RotationRevokes
<1>8. UnusedUngranted'
  <2>1. \A h \in handoffs : h.id # 0
    BY LenProperties DEF Inv, HandoffsKnown, TypeOK
  <2> QED
    BY <1>1, <1>4, <2>1 DEF Inv, UnusedUngranted
<1>9. ExchangeSpent'
  BY <1>1, <1>4 DEF Inv, ExchangeSpent
<1> QED
  BY <1>4, <1>5, <1>6, <1>7, <1>8, <1>9 DEF Inv

LEMMA CreateKeepsInv ==
    ASSUME Inv, NEW claim \in Claims, CreateHandoff(claim), TypeOK'
    PROVE  Inv'
<1> DEFINE new == [id |-> Len(asked) + 1, claim |-> claim,
                   expires |-> now + BootstrapTtl,
                   approved |-> FALSE, used |-> FALSE]
<1>1. /\ Len(asked) \in Nat
      /\ asked' = Append(asked, generation[Operator])
      /\ \A h \in handoffs' : h \in handoffs \/ h = new
      /\ ~bootstrap.revoked
      /\ UNCHANGED <<credential, generation, bootstrap, sessions, now, grants>>
  BY LenProperties DEF CreateHandoff, WithRoom, Pending, Inv, TypeOK
<1>2. /\ Len(asked') = Len(asked) + 1
      /\ \A i \in 1 .. Len(asked) : asked'[i] = asked[i]
      /\ asked'[Len(asked) + 1] = generation[Operator]
  <2>1. asked \in Seq(Nat) /\ generation[Operator] \in Nat
    BY DEF Inv, TypeOK, Capabilities, Operator
  <2> QED
    BY <1>1, <2>1, AppendProperties
<1>3. CredentialsIndependent' /\ RevokedIsClosed'
  BY <1>1 DEF Inv, CredentialsIndependent, RevokedIsClosed
<1>4. HandoffsKnown'
  <2>1. \A h \in handoffs' : h.id \in 1 .. Len(asked')
    BY <1>1, <1>2 DEF Inv, HandoffsKnown
  <2>2. ASSUME NEW g \in handoffs', NEW h \in handoffs', g.id = h.id
        PROVE  g = h
    <3>1. \A k \in handoffs : k.id # new.id
      BY <1>1 DEF Inv, HandoffsKnown
    <3> QED
      BY <1>1, <2>2, <3>1 DEF Inv, HandoffsKnown
  <2> QED
    BY <2>1, <2>2 DEF HandoffsKnown
<1>5. RotationRevokes'
  <2>1. \A h \in handoffs' : asked'[h.id] = generation[Operator]
    <3>1. \A h \in handoffs : asked'[h.id] = generation[Operator]
      BY <1>2 DEF Inv, HandoffsKnown, RotationRevokes
    <3>2. asked'[new.id] = generation[Operator]
      BY <1>2
    <3> QED
      BY <1>1, <3>1, <3>2
  <2> QED
    BY <1>1, <2>1 DEF Inv, RotationRevokes
<1>6. UnusedUngranted'
  <2>1. \A i \in 1 .. Len(grants) :
            /\ grants[i].handoff \in 0 .. Len(asked')
            /\ grants[i].handoff # new.id
    BY <1>1, <1>2 DEF Inv, UnusedUngranted
  <2> QED
    BY <1>1, <2>1 DEF Inv, UnusedUngranted
<1>7. ExchangeSpent' /\ OneSessionPerGrant' /\ ApprovalSpendsExchange'
  BY <1>1 DEF Inv, ExchangeSpent, OneSessionPerGrant, ApprovalSpendsExchange
<1> QED
  BY <1>3, <1>4, <1>5, <1>6, <1>7 DEF Inv

(* An entry of the table replaced by one of the same id. *)
LEMMA ReplacementIsKnown ==
    ASSUME HandoffsKnown, NEW h \in handoffs, NEW new, new.id = h.id,
           handoffs' = (handoffs \ {h}) \cup {new}, asked' = asked
    PROVE  HandoffsKnown'
<1>1. \A g \in handoffs' : g = new \/ (g \in handoffs /\ g.id # new.id)
  BY DEF HandoffsKnown
<1>2. \A g \in handoffs' : g.id \in 1 .. Len(asked')
  BY <1>1 DEF HandoffsKnown
<1>3. \A f, g \in handoffs' : f.id = g.id => f = g
  BY <1>1 DEF HandoffsKnown
<1> QED
  BY <1>2, <1>3 DEF HandoffsKnown

LEMMA ApproveKeepsInv ==
    ASSUME Inv, NEW token \in Secrets, NEW h \in handoffs,
           ApproveHandoff(token, h), TypeOK'
    PROVE  Inv'
<1> DEFINE new == [h EXCEPT !.approved = TRUE]
<1>1. /\ handoffs' = (handoffs \ {h}) \cup {new}
      /\ new.id = h.id /\ new.used = h.used
      /\ bootstrap'.used /\ ~bootstrap'.revoked
      /\ UNCHANGED <<credential, generation, sessions, now, asked, grants>>
  BY DEF ApproveHandoff, Inv, TypeOK, Handoffs
<1>2. CredentialsIndependent' /\ RevokedIsClosed'
  BY <1>1 DEF Inv, CredentialsIndependent, RevokedIsClosed
<1>3. HandoffsKnown'
  <2>1. HandoffsKnown
    BY DEF Inv
  <2> QED
    BY <1>1, <2>1, ReplacementIsKnown
<1>4. RotationRevokes'
  BY <1>1 DEF Inv, RotationRevokes
<1>5. UnusedUngranted'
  BY <1>1 DEF Inv, UnusedUngranted
<1>6. ExchangeSpent' /\ OneSessionPerGrant' /\ ApprovalSpendsExchange'
  BY <1>1 DEF Inv, ExchangeSpent, OneSessionPerGrant, ApprovalSpendsExchange
<1> QED
  BY <1>2, <1>3, <1>4, <1>5, <1>6 DEF Inv

LEMMA ClaimKeepsInv ==
    ASSUME Inv, NEW claim \in Claims, NEW h \in handoffs,
           ClaimHandoff(claim, h), TypeOK'
    PROVE  Inv'
<1> DEFINE new == [h EXCEPT !.used = TRUE]
<1>1. /\ handoffs' = (handoffs \ {h}) \cup {new}
      /\ new.id = h.id /\ new.used /\ new.approved = h.approved
      /\ h.approved /\ ~h.used
      /\ Issue(h.id)
      /\ UNCHANGED <<credential, generation, bootstrap, now, asked>>
  BY DEF ClaimHandoff, Inv, TypeOK, Handoffs
<1>2. h.id \in 1 .. Len(asked) /\ Len(asked) \in Nat
      /\ h.id \in 0 .. Len(asked) /\ h.id \in Nat /\ h.id # 0
  BY LenProperties DEF Inv, HandoffsKnown, TypeOK
<1>3. bootstrap'.used /\ ~bootstrap.revoked
  BY <1>1 DEF Inv, ExchangeSpent, RevokedIsClosed
<1>4. \A i \in 1 .. Len(grants) : grants[i].handoff # h.id
  BY <1>1 DEF Inv, UnusedUngranted
<1>5. /\ OneSessionPerGrant'
      /\ ApprovalSpendsExchange'
      /\ \A i \in 1 .. Len(grants') :
            /\ grants'[i].handoff \in 0 .. Len(asked)
            /\ grants'[i].generation <= generation[Operator]
            /\ \/ grants'[i].handoff = h.id
               \/ i \in 1 .. Len(grants) /\ grants'[i] = grants[i]
  BY <1>1, <1>2, <1>3, <1>4, GrantIsNew
<1>6. HandoffsKnown' /\ CredentialsIndependent'
  <2>1. HandoffsKnown
    BY DEF Inv
  <2>2. HandoffsKnown'
    BY <1>1, <2>1, ReplacementIsKnown
  <2> QED
    BY <1>1, <2>2 DEF Inv, CredentialsIndependent
<1>7. RevokedIsClosed'
  BY <1>1, <1>3 DEF RevokedIsClosed
<1>8. RotationRevokes'
  <2>1. \A g \in handoffs' : asked'[g.id] = generation[Operator]
    BY <1>1 DEF Inv, RotationRevokes
  <2>2. \A s \in sessions' : s.generation = generation[Operator]
    <3>1. TypeOK /\ RotationRevokes
      BY DEF Inv
    <3>2. \A s \in sessions' :
              s \in sessions \/ s.generation = generation[Operator]
      BY <1>1, <1>2, <3>1, SessionsTyped, AuthorityAssumption
    <3> QED
      BY <3>1, <3>2 DEF RotationRevokes
  <2> QED
    BY <1>1, <2>1, <2>2 DEF RotationRevokes
<1>9. UnusedUngranted'
  <2>1. \A g \in handoffs' : g.id = h.id => g.used
    BY <1>1 DEF Inv, HandoffsKnown
  <2>2. \A i \in 1 .. Len(grants), g \in handoffs' :
            grants[i].handoff = g.id => g.used
    BY <1>1 DEF Inv, UnusedUngranted
  <2> QED
    BY <1>1, <1>5, <2>1, <2>2 DEF UnusedUngranted
<1>10. ExchangeSpent'
  BY <1>1, <1>3, <1>5 DEF Inv, ExchangeSpent
<1> QED
  BY <1>5, <1>6, <1>7, <1>8, <1>9, <1>10 DEF Inv

LEMMA RotateOperatorKeepsInv ==
    ASSUME Inv, NEW new \in Secrets,
           NEW token \in Secrets \cup {Short, None},
           RotateOperator(new, token), TypeOK'
    PROVE  Inv'
<1>1. /\ handoffs' = {} /\ sessions' = {}
      /\ credential' = [credential EXCEPT ![Operator] = new]
      /\ new # credential["adk-developer"]
      /\ UNCHANGED <<now, asked, grants>>
  BY DEF RotateOperator
<1>2. /\ generation'[Operator] = generation[Operator] + 1
      /\ generation[Operator] \in Nat
      /\ \A i \in 1 .. Len(grants) : grants[i].generation \in Nat
  <2>1. \A i \in 1 .. Len(grants) :
            grants[i] \in [handoff : Nat, generation : Nat]
    BY ElementOfSeq DEF Inv, TypeOK
  <2> QED
    BY <2>1 DEF RotateOperator, Inv, TypeOK, Capabilities, Operator
<1>3. CredentialsIndependent'
  BY <1>1 DEF Inv, TypeOK, CredentialsIndependent, Capabilities, Operator
<1>4. HandoffsKnown' /\ RevokedIsClosed' /\ RotationRevokes'
  BY <1>1 DEF HandoffsKnown, RevokedIsClosed, RotationRevokes
<1>5. UnusedUngranted' /\ OneSessionPerGrant' /\ ApprovalSpendsExchange'
  BY <1>1 DEF Inv, UnusedUngranted, OneSessionPerGrant, ApprovalSpendsExchange
<1>6. ExchangeSpent'
  BY <1>1, <1>2 DEF Inv, ExchangeSpent
<1> QED
  BY <1>3, <1>4, <1>5, <1>6 DEF Inv

LEMMA InvStep == Inv /\ [Next]_vars => Inv'
<1> SUFFICES ASSUME Inv, [Next]_vars PROVE Inv'
  OBVIOUS
<1>0. TypeOK'
  BY TypeStep DEF Inv
<1>1. ASSUME NEW token \in Secrets, ExchangeBootstrap(token)
      PROVE  Inv'
  BY <1>0, <1>1, ExchangeKeepsInv
<1>2. ASSUME NEW claim \in Claims, CreateHandoff(claim)
      PROVE  Inv'
  BY <1>0, <1>2, CreateKeepsInv
<1>3. ASSUME RefuseHandoff
      PROVE  Inv'
  <2>1. /\ handoffs' \subseteq handoffs
        /\ UNCHANGED <<credential, generation, bootstrap, sessions, now,
                       asked, grants>>
    BY <1>3 DEF RefuseHandoff, Pending
  <2> QED
    BY <1>0, <2>1
    DEF Inv, CredentialsIndependent, HandoffsKnown, RevokedIsClosed,
        RotationRevokes, UnusedUngranted, ExchangeSpent,
        OneSessionPerGrant, ApprovalSpendsExchange
<1>4. ASSUME NEW token \in Secrets, NEW h \in handoffs,
             ApproveHandoff(token, h)
      PROVE  Inv'
  BY <1>0, <1>4, ApproveKeepsInv
<1>5. ASSUME NEW claim \in Claims, NEW h \in handoffs,
             ClaimHandoff(claim, h)
      PROVE  Inv'
  BY <1>0, <1>5, ClaimKeepsInv
<1>6. ASSUME NEW new \in Secrets, NEW token \in Secrets \cup {Short, None},
             RotateOperator(new, token)
      PROVE  Inv'
  BY <1>0, <1>6, RotateOperatorKeepsInv
<1>7. ASSUME NEW new \in Secrets, RotateAdk(new)
      PROVE  Inv'
  <2>1. /\ generation'[Operator] = generation[Operator]
        /\ credential'[Operator] # credential'["adk-developer"]
        /\ UNCHANGED <<bootstrap, handoffs, sessions, now, asked, grants>>
    BY <1>7 DEF RotateAdk, Inv, TypeOK, Capabilities, Operator
  <2> QED
    BY <1>0, <2>1
    DEF Inv, CredentialsIndependent, HandoffsKnown, RevokedIsClosed,
        RotationRevokes, UnusedUngranted, ExchangeSpent,
        OneSessionPerGrant, ApprovalSpendsExchange
<1>8. ASSUME NEW s \in sessions, AuthenticateSession(s)
      PROVE  Inv'
  <2>1. /\ sessions' \subseteq sessions
        /\ UNCHANGED <<credential, generation, bootstrap, handoffs, now,
                       asked, grants>>
    BY <1>8 DEF AuthenticateSession
  <2> QED
    BY <1>0, <2>1
    DEF Inv, CredentialsIndependent, HandoffsKnown, RevokedIsClosed,
        RotationRevokes, UnusedUngranted, ExchangeSpent,
        OneSessionPerGrant, ApprovalSpendsExchange
<1>9. ASSUME UNCHANGED <<credential, generation, bootstrap, handoffs,
                         sessions, asked, grants>>
      PROVE  Inv'
  BY <1>0, <1>9
  DEF Inv, CredentialsIndependent, HandoffsKnown, RevokedIsClosed,
      RotationRevokes, UnusedUngranted, ExchangeSpent,
      OneSessionPerGrant, ApprovalSpendsExchange
<1> QED
  BY <1>1, <1>2, <1>3, <1>4, <1>5, <1>6, <1>7, <1>8, <1>9
  DEF Next, Tick, vars

-----------------------------------------------------------------------------
(* Theorems *)

LEMMA InvCorrect == Spec => []Inv
BY InvHoldsInitially, InvStep, PTL DEF Spec

(* No sequence of rotations gives both capabilities one credential. *)
THEOREM CredentialsStayIndependent == Spec => []CredentialsIndependent
<1>1. Inv => CredentialsIndependent
  BY DEF Inv
<1> QED
  BY <1>1, InvCorrect, PTL

(* While the channel is revoked nothing can become a session: no handoff   *)
(* is left to claim and no session to use.                                 *)
THEOREM RevocationCloses == Spec => []RevokedIsClosed
<1>1. Inv => RevokedIsClosed
  BY DEF Inv
<1> QED
  BY <1>1, InvCorrect, PTL

(* Sessions and handoffs are all of the operator's current generation. *)
THEOREM RotationReachesAll == Spec => []RotationRevokes
<1>1. Inv => RotationRevokes
  BY DEF Inv
<1> QED
  BY <1>1, InvCorrect, PTL

(* A handoff leads to one session and an armed token to one exchange. *)
THEOREM GrantsAreSingleUse == Spec => []OneSessionPerGrant
<1>1. Inv => OneSessionPerGrant
  BY DEF Inv
<1> QED
  BY <1>1, InvCorrect, PTL

(* After any session of a generation the direct exchange stays shut. *)
THEOREM ExchangeIsSpent == Spec => []ApprovalSpendsExchange
<1>1. Inv => ApprovalSpendsExchange
  BY DEF Inv
<1> QED
  BY <1>1, InvCorrect, PTL
-----------------------------------------------------------------------------
(* Recent handoffs stay *)

(* A handoff requested later expires no earlier, and none is given more    *)
(* time than the next one would be.                                        *)
LaterExpireLater ==
    /\ \A g, h \in handoffs : g.id < h.id => g.expires <= h.expires
    /\ \A h \in handoffs : h.expires <= now + BootstrapTtl

(* What the table keeps, and what an entry of it is replaced by. *)
LEMMA FewerExpireInOrder ==
    ASSUME LaterExpireLater, handoffs' \subseteq handoffs, now' = now
    PROVE  LaterExpireLater'
BY DEF LaterExpireLater

LEMMA ReplacementExpiresInOrder ==
    ASSUME TypeOK, HandoffsKnown, LaterExpireLater, NEW h \in handoffs,
           NEW new, new.id = h.id, new.expires = h.expires,
           handoffs' = (handoffs \ {h}) \cup {new}, now' = now
    PROVE  LaterExpireLater'
<1>1. \A g \in handoffs' :
          \E f \in handoffs : g.id = f.id /\ g.expires = f.expires
  OBVIOUS
<1>2. \A f, g \in handoffs' : f.id < g.id => f.expires <= g.expires
  BY <1>1 DEF LaterExpireLater
<1>3. \A g \in handoffs' : g.expires <= now' + BootstrapTtl
  BY <1>1 DEF LaterExpireLater
<1> QED
  BY <1>2, <1>3 DEF LaterExpireLater

LEMMA OrderStep == Inv /\ LaterExpireLater /\ [Next]_vars => LaterExpireLater'
<1> SUFFICES ASSUME Inv, LaterExpireLater, [Next]_vars
             PROVE  LaterExpireLater'
  OBVIOUS
<1>0. TypeOK /\ HandoffsKnown
  BY DEF Inv
<1>1. ASSUME NEW claim \in Claims, CreateHandoff(claim)
      PROVE  LaterExpireLater'
  <2> DEFINE new == [id |-> Len(asked) + 1, claim |-> claim,
                     expires |-> now + BootstrapTtl,
                     approved |-> FALSE, used |-> FALSE]
  <2>1. /\ now' = now
        /\ \A g \in handoffs' : g \in handoffs \/ g = new
    BY <1>1 DEF CreateHandoff, WithRoom, Pending
  <2>2. /\ Len(asked) \in Nat /\ now + BootstrapTtl \in Nat
        /\ \A g \in handoffs : g.id \in Nat /\ g.id <= Len(asked)
    BY <1>0, LenProperties, AuthorityAssumption
    DEF TypeOK, HandoffsKnown, Handoffs
  <2>3. new.id = Len(asked) + 1 /\ new.expires = now + BootstrapTtl
    OBVIOUS
  <2> HIDE DEF new
  <2>4. \A f, g \in handoffs' : f.id < g.id => f.expires <= g.expires
    <3> TAKE f, g \in handoffs'
    <3>1. CASE f \in handoffs /\ g \in handoffs
      BY <3>1 DEF LaterExpireLater
    <3>2. CASE f = new
      BY <2>1, <2>2, <2>3, <3>2
    <3>3. CASE f \in handoffs /\ g = new
      BY <2>3, <3>3 DEF LaterExpireLater
    <3> QED
      BY <2>1, <3>1, <3>2, <3>3
  <2>5. \A g \in handoffs' : g.expires <= now' + BootstrapTtl
    BY <2>1, <2>2, <2>3 DEF LaterExpireLater
  <2> QED
    BY <2>4, <2>5 DEF LaterExpireLater
<1>2. ASSUME NEW token \in Secrets, NEW h \in handoffs,
             ApproveHandoff(token, h)
      PROVE  LaterExpireLater'
  <2> DEFINE new == [h EXCEPT !.approved = TRUE]
  <2>1. /\ handoffs' = (handoffs \ {h}) \cup {new} /\ now' = now
        /\ new.id = h.id /\ new.expires = h.expires
    BY <1>0, <1>2 DEF ApproveHandoff, TypeOK, Handoffs
  <2> QED
    BY <1>0, <2>1, ReplacementExpiresInOrder
<1>3. ASSUME NEW claim \in Claims, NEW h \in handoffs,
             ClaimHandoff(claim, h)
      PROVE  LaterExpireLater'
  <2> DEFINE new == [h EXCEPT !.used = TRUE]
  <2>1. /\ handoffs' = (handoffs \ {h}) \cup {new} /\ now' = now
        /\ new.id = h.id /\ new.expires = h.expires
    BY <1>0, <1>3 DEF ClaimHandoff, TypeOK, Handoffs
  <2> QED
    BY <1>0, <2>1, ReplacementExpiresInOrder
<1>4. ASSUME Tick
      PROVE  LaterExpireLater'
  <2>1. handoffs' = handoffs /\ now' = now + 1
    BY <1>4 DEF Tick
  <2>2. now \in Nat /\ BootstrapTtl \in Nat
        /\ \A h \in handoffs : h.expires \in Nat
    BY <1>0, AuthorityAssumption DEF TypeOK, Handoffs
  <2> QED
    BY <2>1, <2>2 DEF LaterExpireLater
<1>5. ASSUME \/ \E token \in Secrets : ExchangeBootstrap(token)
             \/ RefuseHandoff
             \/ \E new \in Secrets, token \in Secrets \cup {Short, None} :
                   RotateOperator(new, token)
             \/ \E new \in Secrets : RotateAdk(new)
             \/ \E s \in sessions : AuthenticateSession(s)
             \/ UNCHANGED vars
      PROVE  LaterExpireLater'
  <2>1. handoffs' \subseteq handoffs /\ now' = now
    BY <1>5 DEF ExchangeBootstrap, RefuseHandoff, Pending, RotateOperator,
                RotateAdk, AuthenticateSession, vars
  <2> QED
    BY <2>1, FewerExpireInOrder
<1> QED
  BY <1>1, <1>2, <1>3, <1>4, <1>5 DEF Next

(* The entry a full table gives up is its first, and at least MaxHandoffs  *)
(* were requested from it on.                                              *)
LEMMA FirstGoes ==
    ASSUME Inv, LaterExpireLater, NEW h \in Oldest(Pending),
           Cardinality(Pending) >= MaxHandoffs
    PROVE  h.id + MaxHandoffs <= Len(asked) + 1
<1> DEFINE S == h.id .. Len(asked)
           f == [g \in Pending |-> g.id]
<1>1. /\ Len(asked) \in Nat /\ MaxHandoffs \in Nat
      /\ h \in Pending /\ Pending \subseteq handoffs
      /\ \A g \in handoffs : /\ g.id \in Nat /\ g.id <= Len(asked)
                             /\ g.expires \in Nat
  BY LenProperties, AuthorityAssumption
  DEF Oldest, Pending, Inv, TypeOK, HandoffsKnown, Handoffs
<1>2. ASSUME NEW g \in Pending
      PROVE  h.id <= g.id
  <2>1. \/ h.expires < g.expires
        \/ h.expires = g.expires /\ h.id <= g.id
    BY <1>2 DEF Oldest
  <2>2. g.id < h.id => g.expires <= h.expires
    BY <1>1 DEF LaterExpireLater
  <2> QED
    BY <1>1, <2>1, <2>2
<1>3. f \in [Pending -> S]
  BY <1>1, <1>2
<1>4. \A g, k \in Pending : f[g] = f[k] => g = k
  BY <1>1 DEF Inv, HandoffsKnown
<1>5. f \in Injection(Pending, S)
  BY <1>3, <1>4 DEF Injection, IsInjective
<1>6. /\ IsFiniteSet(S)
      /\ Cardinality(S) = Len(asked) - h.id + 1
  <2>1. /\ h.id \in Int /\ Len(asked) \in Int
        /\ ~(h.id > Len(asked))
    BY <1>1
  <2>2. /\ IsFiniteSet(h.id .. Len(asked))
        /\ Cardinality(h.id .. Len(asked)) = Len(asked) - h.id + 1
    BY <2>1, FS_Interval
  <2> QED
    BY <2>2
<1>7. IsFiniteSet(Pending) /\ Cardinality(Pending) <= Cardinality(S)
  BY <1>5, <1>6, FS_Injection
<1>8. Cardinality(Pending) \in Nat
  BY <1>7, FS_CardinalityType
<1> QED
  BY <1>1, <1>6, <1>7, <1>8

(* What a step does to one handoff that is still to be claimed. *)
LEMMA RecentStep ==
    ASSUME Inv, LaterExpireLater, Next, NEW h \in handoffs,
           ~h.used, h.expires > now, generation' = generation,
           h.id + MaxHandoffs > Len(asked')
    PROVE  \E g \in handoffs' : g.id = h.id
<1>0. TypeOK /\ h \in Pending
  BY DEF Inv, Pending
<1>1. ASSUME NEW claim \in Claims, CreateHandoff(claim)
      PROVE  h \in handoffs'
  <2>1. Len(asked') = Len(asked) + 1 /\ Len(asked) \in Nat
    <3>1. asked \in Seq(Nat) /\ generation[Operator] \in Nat
      BY <1>0 DEF TypeOK, Capabilities, Operator
    <3> QED
      BY <1>1, <3>1, AppendProperties, LenProperties DEF CreateHandoff
  <2>2. h.id \in Nat /\ MaxHandoffs \in Nat
    BY <1>0, AuthorityAssumption DEF TypeOK, Handoffs
  <2>3. h \in WithRoom(Pending)
    <3>1. CASE Cardinality(Pending) >= MaxHandoffs
      <4>1. h \notin Oldest(Pending)
        BY <2>1, <2>2, <3>1, FirstGoes
      <4> QED
        BY <1>0, <3>1, <4>1 DEF WithRoom
    <3>2. CASE ~(Cardinality(Pending) >= MaxHandoffs)
      BY <1>0, <3>2 DEF WithRoom
    <3> QED
      BY <3>1, <3>2
  <2> QED
    BY <1>1, <2>3 DEF CreateHandoff
<1>2. ASSUME RefuseHandoff
      PROVE  h \in handoffs'
  BY <1>0, <1>2 DEF RefuseHandoff
<1>3. ASSUME NEW token \in Secrets, NEW k \in handoffs,
             ApproveHandoff(token, k)
      PROVE  \E g \in handoffs' : g.id = h.id
  <2>1. /\ handoffs' = (handoffs \ {k}) \cup {[k EXCEPT !.approved = TRUE]}
        /\ [k EXCEPT !.approved = TRUE].id = k.id
    BY <1>0, <1>3 DEF ApproveHandoff, TypeOK, Handoffs
  <2> QED
    BY <2>1
<1>4. ASSUME NEW claim \in Claims, NEW k \in handoffs,
             ClaimHandoff(claim, k)
      PROVE  \E g \in handoffs' : g.id = h.id
  <2>1. /\ handoffs' = (handoffs \ {k}) \cup {[k EXCEPT !.used = TRUE]}
        /\ [k EXCEPT !.used = TRUE].id = k.id
    BY <1>0, <1>4 DEF ClaimHandoff, TypeOK, Handoffs
  <2> QED
    BY <2>1
<1>5. ASSUME NEW new \in Secrets,
             NEW token \in Secrets \cup {Short, None},
             RotateOperator(new, token)
      PROVE  FALSE
  <2>1. generation'[Operator] = generation[Operator] + 1
        /\ generation[Operator] \in Nat
    BY <1>0, <1>5 DEF RotateOperator, TypeOK, Capabilities, Operator
  <2> QED
    BY <2>1
<1>6. ASSUME \/ \E token \in Secrets : ExchangeBootstrap(token)
             \/ \E new \in Secrets : RotateAdk(new)
             \/ \E s \in sessions : AuthenticateSession(s)
             \/ Tick
      PROVE  h \in handoffs'
  BY <1>6 DEF ExchangeBootstrap, RotateAdk, AuthenticateSession, Tick
<1> QED
  BY <1>1, <1>2, <1>3, <1>4, <1>5, <1>6 DEF Next

(* Whoever asks and how often, a handoff that is neither used nor expired  *)
(* is there to be approved and claimed until MaxHandoffs others were       *)
(* requested after it or the credential is rotated.                        *)
THEOREM RecentHandoffsAreKept == Spec => RecentHandoffsStay
<1>1. Init => LaterExpireLater
  BY DEF Init, LaterExpireLater
<1>2. Spec => [](Inv /\ LaterExpireLater)
  BY <1>1, InvHoldsInitially, InvStep, OrderStep, PTL DEF Spec
<1>3. Inv /\ LaterExpireLater /\ [Next]_vars =>
        [\A h \in handoffs :
            /\ ~h.used /\ h.expires > now
            /\ generation' = generation
            /\ h.id + MaxHandoffs > Len(asked')
            => \E g \in handoffs' : g.id = h.id]_vars
  BY RecentStep
<1> QED
  BY <1>2, <1>3, PTL DEF Spec, RecentHandoffsStay
=============================================================================
