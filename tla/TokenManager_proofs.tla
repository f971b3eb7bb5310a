------------------------ MODULE TokenManager_proofs ------------------------
(***************************************************************************)
(* The manager's table, for every set of peers and every file size: tokens *)
(* are exclusive, a grant stands until it is answered, and the table       *)
(* implements the byte-wise lock table of ByteTokens.                      *)
(***************************************************************************)
EXTENDS TokenManager, Permissions_proofs

\* The vectors of two nodes do not conflict on any byte.
Compatible(v, w) ==
  \A b \in Nat : ~(Allows(v, b, TRUE) /\ Allows(w, b, FALSE))

\* TokensExclusive for all naturals; the whole-file token ends at MaxOffset.
Exclusive ==
  \A p, q \in Peers : p # q => Compatible(clientPermissions[p], clientPermissions[q])

\* A vector allows at most what another one allows.
Within(v, w) ==
  \A b \in Nat : \A m \in BOOLEAN : Allows(v, b, m) => Allows(w, b, m)

\* Vectors that allow less than compatible ones are compatible.
LEMMA CompatibleWithin ==
  ASSUME NEW v, NEW w, NEW v2, NEW w2,
         Compatible(v, w), Within(v2, v), Within(w2, w)
  PROVE  Compatible(v2, w2)
<1> SUFFICES ASSUME NEW b \in Nat, Allows(v2, b, TRUE), Allows(w2, b, FALSE)
             PROVE  FALSE
  BY Zenon DEF Compatible
<1>1. Allows(v, b, TRUE)
  BY Zenon DEF Within
<1>2. Allows(w, b, FALSE)
  BY Zenon DEF Within
<1> QED BY Zenon, <1>1, <1>2 DEF Compatible

\* A vector allows no more than itself.
LEMMA WithinItself == \A v : Within(v, v)
BY DEF Within

\* The empty vector allows nothing.
LEMMA EmptyAllowsNothing ==
  ASSUME NEW v, v = <<>>, NEW b, NEW m
  PROVE  ~Allows(v, b, m)
BY DEF Allows

\* The whole of a call's state is well-formed.
LEMMA CallFacts ==
  ASSUME ManagerTypeOK, NEW p \in Peers
  PROVE  /\ call[p] \in Call
         /\ call[p].start \in Nat /\ call[p].end \in Nat /\ call[p].write \in BOOLEAN
         /\ call[p].start \in 0..MaxOffset /\ call[p].end \in 0..MaxOffset
         /\ clientPermissions[p] \in Seq(Permission)
BY ManagerAssumption DEF ManagerTypeOK, Call

\* What Serve does, with the granted range named.
From(p) == IF FirstPermit(p) THEN 0 ELSE call[p].start
To(p) == IF FirstPermit(p) THEN MaxOffset ELSE call[p].end

\* The range granted is a range of the file.
LEMMA GrantedRange ==
  ASSUME ManagerTypeOK, NEW p \in Peers
  PROVE  /\ From(p) \in Nat /\ To(p) \in Nat
         /\ From(p) \in 0..MaxOffset /\ To(p) \in 0..MaxOffset
BY CallFacts, ManagerAssumption DEF From, To

\* The requester gets its range and nothing that was not granted.
LEMMA ServeRequester ==
  ASSUME ManagerTypeOK, NEW p \in Peers, Serve(p)
  PROVE  /\ clientPermissions'[p] \in Seq(Permission)
         /\ AddedTo(clientPermissions'[p], clientPermissions[p], From(p), To(p), call[p].write)
<1>1. clientPermissions'[p]
        = AddPermission(clientPermissions[p], From(p), To(p), call[p].write, FALSE)
  BY DEF Serve, From, To
<1>2. \A lockNew \in BOOLEAN :
        LET new == AddPermission(clientPermissions[p], From(p), To(p), call[p].write, lockNew)
        IN /\ new \in Seq(Permission)
           /\ AddedTo(new, clientPermissions[p], From(p), To(p), call[p].write)
  BY CallFacts, GrantedRange, AddProperties
<1> QED BY Zenon, <1>1, <1>2

\* Every other client keeps at most what it had, and nothing in conflict.
LEMMA ServeOther ==
  ASSUME ManagerTypeOK, NEW p \in Peers, Serve(p), NEW q \in Peers, q # p
  PROVE  /\ clientPermissions'[q] \in Seq(Permission)
         /\ Within(clientPermissions'[q], clientPermissions[q])
         /\ q \in Conflicting(p)
              => RevokedFrom(clientPermissions'[q], clientPermissions[q],
                             call[p].start, call[p].end)
         /\ q \notin Conflicting(p) => clientPermissions'[q] = clientPermissions[q]
<1>0. clientPermissions'[q] =
        IF q \in Conflicting(p)
        THEN RevokePermission(clientPermissions[q], call[p].start, call[p].end)
        ELSE clientPermissions[q]
  BY DEF Serve
<1>1. CASE q \in Conflicting(p)
  <2>1. /\ clientPermissions'[q] \in Seq(Permission)
        /\ RevokedFrom(clientPermissions'[q], clientPermissions[q],
                       call[p].start, call[p].end)
    BY Zenon, <1>0, <1>1, CallFacts, RevokeAllows
  <2>2. Within(clientPermissions'[q], clientPermissions[q])
    BY <2>1 DEF RevokedFrom, Within
  <2> QED BY <1>1, <2>1, <2>2
<1>2. CASE q \notin Conflicting(p)
  BY <1>0, <1>2, CallFacts, WithinItself
<1> QED BY <1>1, <1>2

\* A peer that keeps a byte of the granted range did not stand in the way.
LEMMA ServeClears ==
  ASSUME ManagerTypeOK, Exclusive, NEW p \in Peers, Serve(p), NEW q \in Peers, q # p,
         \A r \in Peers \ opened : clientPermissions[r] = <<>>,
         NEW b \in Nat, From(p) <= b, b < To(p),
         NEW w \in BOOLEAN, Allows(clientPermissions'[q], b, w)
  PROVE  ~w /\ ~call[p].write
<1>1. Allows(clientPermissions[q], b, w)
  BY ServeOther DEF Within
<1>2. PICK i \in 1..Len(clientPermissions[q]) :
        Covers(clientPermissions[q][i], b) /\ (w => clientPermissions[q][i].write)
  BY <1>1 DEF Allows
<1>3. q \in Others(p) /\ clientPermissions[q] # <<>>
  <2>1. clientPermissions[q] # <<>>
    BY <1>1, EmptyAllowsNothing
  <2> QED BY <2>1 DEF Others
<1>4. ~FirstPermit(p) /\ From(p) = call[p].start /\ To(p) = call[p].end
  BY <1>3 DEF FirstPermit, From, To
<1>5. q \notin Conflicting(p)
  <2> SUFFICES ASSUME q \in Conflicting(p) PROVE FALSE
    OBVIOUS
  <2>1. RevokedFrom(clientPermissions'[q], clientPermissions[q], call[p].start, call[p].end)
    BY ServeOther
  <2>2. ~(call[p].start <= b /\ b < call[p].end)
    BY <2>1 DEF RevokedFrom
  <2> QED BY <1>4, <2>2
<1>6. IsShared(clientPermissions[q][i], call[p].start, call[p].end)
  <2>1. clientPermissions[q][i] \in Permission
    BY CallFacts, ElementOfSeq
  <2>2. clientPermissions[q][i].start \in Nat /\ clientPermissions[q][i].end \in Nat
    BY <2>1 DEF Permission
  <2>3. call[p].start \in Nat /\ call[p].end \in Nat
    BY CallFacts
  <2> QED BY SMTT(30), <1>2, <1>4, <2>2, <2>3 DEF Covers, IsShared
<1> QED BY <1>2, <1>3, <1>5, <1>6 DEF Conflicting

-----------------------------------------------------------------------------
\* Only peers that opened the file have tokens and calls.
OnlyOpened ==
  \A p \in Peers : p \notin opened =>
    clientPermissions[p] = <<>> /\ call[p].phase = "none"

\* The grant of the thread that holds the lock is in the table.
Standing(v, c) == AllowsRange(v, c.start, c.end, c.write)

AllStanding ==
  \A p \in Peers : call[p].phase = "revoking" => Standing(clientPermissions[p], call[p])

\* The inductive invariant.
IInv == ManagerTypeOK /\ Exclusive /\ OnlyOpened /\ OneServedAtATime /\ AllStanding

\* Serving a request keeps the tokens exclusive.
LEMMA ServeExclusive ==
  ASSUME IInv, NEW p \in Peers, Serve(p)
  PROVE  Exclusive'
<1>0. /\ ManagerTypeOK /\ Exclusive
      /\ \A r \in Peers \ opened : clientPermissions[r] = <<>>
  BY DEF IInv, OnlyOpened
<1>1. AddedTo(clientPermissions'[p], clientPermissions[p], From(p), To(p), call[p].write)
  BY <1>0, ServeRequester
<1>2. ASSUME NEW b \in Nat, NEW w \in BOOLEAN, Allows(clientPermissions'[p], b, w)
      PROVE  Explained(clientPermissions[p], b, w, From(p), To(p), call[p].write)
  BY <1>1, <1>2 DEF AddedTo
<1>3. ASSUME NEW q \in Peers, q # p
      PROVE  Compatible(clientPermissions'[p], clientPermissions'[q])
  <2> SUFFICES ASSUME NEW b \in Nat, Allows(clientPermissions'[p], b, TRUE),
                      Allows(clientPermissions'[q], b, FALSE)
               PROVE  FALSE
    BY Zenon DEF Compatible
  <2>1. Allows(clientPermissions[q], b, FALSE)
    BY Zenon, <1>0, <1>3, ServeOther DEF Within
  <2>2. Compatible(clientPermissions[p], clientPermissions[q])
    BY <1>0, <1>3 DEF Exclusive
  <2>3. ~Allows(clientPermissions[p], b, TRUE)
    BY Zenon, <2>1, <2>2 DEF Compatible
  <2>4. From(p) <= b /\ b < To(p) /\ call[p].write
    BY Zenon, <1>2, <2>3 DEF Explained
  <2>5. \A w \in BOOLEAN : Allows(clientPermissions'[q], b, w) => ~call[p].write
    BY <1>0, <1>3, <2>4, ServeClears
  <2> QED BY Zenon, <2>4, <2>5
<1>4. ASSUME NEW q \in Peers, q # p
      PROVE  Compatible(clientPermissions'[q], clientPermissions'[p])
  <2> SUFFICES ASSUME NEW b \in Nat, Allows(clientPermissions'[q], b, TRUE),
                      Allows(clientPermissions'[p], b, FALSE)
               PROVE  FALSE
    BY Zenon DEF Compatible
  <2>1. Allows(clientPermissions[q], b, TRUE)
    BY Zenon, <1>0, <1>4, ServeOther DEF Within
  <2>2. Compatible(clientPermissions[q], clientPermissions[p])
    BY <1>0, <1>4 DEF Exclusive
  <2>3. ~Allows(clientPermissions[p], b, FALSE)
    BY Zenon, <2>1, <2>2 DEF Compatible
  <2>4. From(p) <= b /\ b < To(p)
    BY Zenon, <1>2, <2>3 DEF Explained
  <2>5. \A w \in BOOLEAN : Allows(clientPermissions'[q], b, w) => ~w
    BY <1>0, <1>4, <2>4, ServeClears
  <2> QED BY Zenon, <2>5
<1>5. ASSUME NEW q \in Peers, NEW r \in Peers, q # p, r # p, q # r
      PROVE  Compatible(clientPermissions'[q], clientPermissions'[r])
  <2>1. /\ Within(clientPermissions'[q], clientPermissions[q])
        /\ Within(clientPermissions'[r], clientPermissions[r])
    BY SMTT(30), <1>0, <1>5, ServeOther
  <2>2. Compatible(clientPermissions[q], clientPermissions[r])
    BY <1>0, <1>5 DEF Exclusive
  <2> QED BY SMTT(30), <2>1, <2>2, CompatibleWithin
<1> QED BY <1>3, <1>4, <1>5 DEF Exclusive

\* Serving a request keeps the invariant.
LEMMA ServeInductive ==
  ASSUME IInv, NEW p \in Peers, Serve(p)
  PROVE  IInv'
<1>0. ManagerTypeOK /\ OnlyOpened
  BY DEF IInv
<1>1. ASSUME NEW q \in Peers PROVE clientPermissions'[q] \in Seq(Permission)
  <2>1. CASE q = p
    BY SMTT(30), <1>0, <2>1, ServeRequester
  <2>2. CASE q # p
    BY SMTT(30), <1>0, <2>2, ServeOther
  <2> QED BY SMTT(30), <2>1, <2>2
<1>2. /\ call'[p] = [call[p] EXCEPT !.phase = "revoking", !.start = From(p), !.end = To(p)]
      /\ \A q \in Peers : q # p => call'[q] = call[q]
      /\ call' = [call EXCEPT ![p] = call'[p]]
      /\ call[p].phase = "queued" /\ opened' = opened /\ revoking' = Conflicting(p)
  BY <1>0 DEF Serve, From, To, ManagerTypeOK
<1>3. /\ call'[p] \in Call /\ call'[p].phase = "revoking"
      /\ call'[p].start = From(p) /\ call'[p].end = To(p) /\ call'[p].write = call[p].write
  BY ZenonT(30), <1>0, <1>2, CallFacts, GrantedRange DEF Call, Phases
<1>4. p \in opened /\ Conflicting(p) \subseteq opened \ {p}
  BY <1>0, <1>2 DEF OnlyOpened, Conflicting, Others
<1>5. ManagerTypeOK'
  <2>1. clientPermissions' = [q \in Peers |-> clientPermissions'[q]]
    BY DEF Serve
  <2>2. clientPermissions' \in [Peers -> Seq(Permission)]
    BY <1>1, <2>1
  <2>3. call' \in [Peers -> Call]
    BY <1>0, <1>2, <1>3 DEF ManagerTypeOK
  <2>4. opened' \subseteq Peers /\ revoking' \subseteq Peers
    BY <1>0, <1>2, <1>4 DEF ManagerTypeOK
  <2> QED BY <2>2, <2>3, <2>4 DEF ManagerTypeOK
<1>6. OnlyOpened'
  <2> SUFFICES ASSUME NEW q \in Peers, q \notin opened
               PROVE  clientPermissions'[q] = <<>> /\ call'[q].phase = "none"
    BY <1>2 DEF OnlyOpened
  <2>1. q # p /\ q \notin Conflicting(p)
    BY <1>4
  <2> QED BY <1>0, <1>2, <2>1, ServeOther DEF OnlyOpened
<1>7. \A q \in Peers : call'[q].phase = "revoking" <=> q = p
  BY <1>2, <1>3 DEF Serve, LockFree
<1>8. OneServedAtATime'
  BY <1>2, <1>4, <1>7 DEF OneServedAtATime
<1>9. AllStanding'
  <2>1. AllowsRange(clientPermissions'[p], From(p), To(p), call[p].write)
    BY <1>0, ServeRequester DEF AddedTo
  <2>2. Standing(clientPermissions'[p], call'[p])
    BY <1>3, <2>1 DEF Standing
  <2> QED BY <1>7, <2>2 DEF AllStanding
<1> QED BY ZenonT(30), <1>5, <1>6, <1>8, <1>9, ServeExclusive DEF IInv

\* The steps that leave the vectors alone, and the changes of phase they make.
LEMMA QuietStep ==
  ASSUME IInv, UNCHANGED clientPermissions, ManagerTypeOK', OnlyOpened', OneServedAtATime',
         \A p \in Peers : call'[p].phase = "revoking" => call'[p] = call[p]
  PROVE  IInv'
<1>1. Exclusive'
  BY DEF IInv, Exclusive
<1>2. AllStanding'
  <2> SUFFICES ASSUME NEW p \in Peers, call'[p].phase = "revoking"
               PROVE  Standing(clientPermissions'[p], call'[p])
    BY DEF AllStanding
  <2>1. call'[p] = call[p] /\ call[p].phase = "revoking"
    OBVIOUS
  <2>2. Standing(clientPermissions[p], call[p])
    BY <2>1 DEF IInv, AllStanding
  <2> QED BY <2>1, <2>2
<1> QED BY <1>1, <1>2 DEF IInv

\* Closing keeps the invariant.
LEMMA CloseInductive ==
  ASSUME IInv, NEW p \in Peers, CloseFile(p)
  PROVE  IInv'
<1>0. /\ ManagerTypeOK /\ Exclusive /\ OnlyOpened /\ OneServedAtATime
      /\ call' = call /\ revoking' = revoking /\ opened' = opened \ {p}
      /\ call[p] = NoCall /\ LockFree
  BY DEF IInv, CloseFile
<1>1. /\ clientPermissions'[p] = <<>>
      /\ \A q \in Peers : q # p => clientPermissions'[q] = clientPermissions[q]
      /\ clientPermissions' \in [Peers -> Seq(Permission)]
  <2>1. <<>> \in Seq(Permission)
    OBVIOUS
  <2> QED BY <1>0, <2>1 DEF CloseFile, ManagerTypeOK
<1>2. ManagerTypeOK'
  BY <1>0, <1>1 DEF ManagerTypeOK
<1>3. ASSUME NEW q \in Peers PROVE Within(clientPermissions'[q], clientPermissions[q])
  <2>1. CASE q = p
    BY <1>1, <2>1, EmptyAllowsNothing DEF Within
  <2>2. CASE q # p
    BY <1>1, <2>2, WithinItself
  <2> QED BY <2>1, <2>2
<1>4. Exclusive'
  <2> SUFFICES ASSUME NEW q \in Peers, NEW r \in Peers, q # r
               PROVE  Compatible(clientPermissions'[q], clientPermissions'[r])
    BY DEF Exclusive
  <2>1. Compatible(clientPermissions[q], clientPermissions[r])
    BY <1>0 DEF Exclusive
  <2>2. /\ Within(clientPermissions'[q], clientPermissions[q])
        /\ Within(clientPermissions'[r], clientPermissions[r])
    BY <1>3
  <2> QED BY <2>1, <2>2, CompatibleWithin
<1>5. OnlyOpened'
  BY <1>0, <1>1 DEF OnlyOpened, NoCall
<1>6. OneServedAtATime' /\ AllStanding'
  BY <1>0 DEF OneServedAtATime, AllStanding, LockFree
<1> QED BY <1>2, <1>4, <1>5, <1>6 DEF IInv

\* Opening keeps the invariant.
LEMMA OpenInductive ==
  ASSUME IInv, NEW p \in Peers, OpenFile(p)
  PROVE  IInv'
<1>1. ManagerTypeOK' /\ OnlyOpened' /\ OneServedAtATime'
  BY DEF IInv, OpenFile, ManagerTypeOK, OnlyOpened, OneServedAtATime
<1> QED BY <1>1, QuietStep DEF OpenFile

\* A new request keeps the invariant.
LEMMA GetPermissionInductive ==
  ASSUME IInv, NEW p \in Peers, NEW r \in Ranges, NEW write \in BOOLEAN,
         GetPermission(p, r[1], r[2], write)
  PROVE  IInv'
<1> DEFINE c == [phase |-> "queued", start |-> r[1], end |-> r[2], write |-> write]
<1>1. c \in Call /\ c.phase = "queued"
  BY ManagerAssumption DEF Call, Phases, Ranges
<1>2. /\ call' = [call EXCEPT ![p] = c]
      /\ p \in opened /\ call[p] = NoCall
      /\ UNCHANGED <<opened, clientPermissions, revoking>>
      /\ ManagerTypeOK /\ OnlyOpened /\ OneServedAtATime
  BY DEF GetPermission, IInv
<1> HIDE DEF c
<1>3. call'[p].phase = "queued" /\ \A q \in Peers : q # p => call'[q] = call[q]
  BY <1>1, <1>2 DEF ManagerTypeOK
<1>4. ManagerTypeOK'
  BY <1>1, <1>2 DEF ManagerTypeOK
<1>5. OnlyOpened'
  BY <1>2, <1>3 DEF OnlyOpened
<1>6. \A q \in Peers : call'[q].phase = "revoking" <=> call[q].phase = "revoking"
  BY <1>2, <1>3 DEF NoCall
<1>7. OneServedAtATime'
  BY <1>2, <1>6 DEF OneServedAtATime
<1> QED BY ZenonT(30), <1>2, <1>3, <1>4, <1>5, <1>7, QuietStep

\* The end of a revocation keeps the invariant.
LEMMA RevokeReturnsInductive ==
  ASSUME IInv, NEW p \in Peers, RevokeReturns(p)
  PROVE  IInv'
<1>1. ManagerTypeOK' /\ OnlyOpened' /\ OneServedAtATime'
  BY DEF IInv, RevokeReturns, ManagerTypeOK, OnlyOpened, OneServedAtATime
<1> QED BY Zenon, <1>1, QuietStep DEF RevokeReturns

\* Answers, sent and received, keep the invariant.
LEMMA ReplyInductive ==
  ASSUME IInv, NEW p \in Peers, Reply(p) \/ Receive(p)
  PROVE  IInv'
<1>0. /\ UNCHANGED <<opened, clientPermissions, revoking>>
      /\ ManagerTypeOK /\ OnlyOpened /\ OneServedAtATime
      /\ p \in opened
  BY DEF Reply, Receive, IInv, OnlyOpened
<1>1. /\ call'[p] \in Call /\ call'[p].phase \in {"none", "replied"}
      /\ \A q \in Peers : q # p => call'[q] = call[q]
      /\ call' \in [Peers -> Call]
  <2>1. CASE Reply(p)
    <3>1. [call[p] EXCEPT !.phase = "replied"] \in Call
      BY <1>0, CallFacts DEF Call, Phases
    <3> QED BY Zenon, <1>0, <2>1, <3>1 DEF Reply, ManagerTypeOK, Call
  <2>2. CASE Receive(p)
    <3>1. NoCall \in Call /\ NoCall.phase = "none"
      BY ManagerAssumption DEF NoCall, Call, Phases
    <3> QED BY <1>0, <2>2, <3>1 DEF Receive, ManagerTypeOK
  <2> QED BY <2>1, <2>2
<1>2. ManagerTypeOK'
  BY <1>0, <1>1 DEF ManagerTypeOK
<1>3. OnlyOpened'
  BY <1>0, <1>1 DEF OnlyOpened
<1>4. OneServedAtATime'
  <2>1. CASE Reply(p)
    BY <1>0, <1>1, <2>1 DEF Reply, OneServedAtATime
  <2>2. CASE Receive(p)
    BY Zenon, <1>0, <1>1, <2>2 DEF Receive, OneServedAtATime
  <2> QED BY <2>1, <2>2
<1> QED BY ZenonT(30), <1>0, <1>1, <1>2, <1>3, <1>4, QuietStep

\* The invariant holds initially.
LEMMA InitInductive == ManagerInit => IInv
<1> SUFFICES ASSUME ManagerInit PROVE IInv
  OBVIOUS
<1>1. <<>> \in Seq(Permission) /\ NoCall \in Call /\ NoCall.phase = "none"
  BY ManagerAssumption DEF NoCall, Call, Phases
<1>2. /\ \A p \in Peers : clientPermissions[p] = <<>> /\ call[p].phase = "none"
      /\ revoking = {}
  BY <1>1 DEF ManagerInit
<1>3. ManagerTypeOK
  BY <1>1 DEF ManagerInit, ManagerTypeOK
<1>4. Exclusive
  BY Zenon, <1>2, EmptyAllowsNothing DEF Exclusive, Compatible
<1> QED BY <1>2, <1>3, <1>4 DEF IInv, OnlyOpened, OneServedAtATime, AllStanding

\* Every step keeps the invariant.
LEMMA NextInductive ==
  ASSUME IInv, [ManagerNext]_managerVars
  PROVE  IInv'
<1>1. CASE UNCHANGED managerVars
  BY <1>1 DEF managerVars, IInv, ManagerTypeOK, Exclusive, OnlyOpened,
              OneServedAtATime, AllStanding
<1>2. ASSUME NEW p \in Peers,
             \/ OpenFile(p) \/ CloseFile(p) \/ Serve(p)
             \/ RevokeReturns(p) \/ Reply(p) \/ Receive(p)
      PROVE  IInv'
  BY ZenonT(30), <1>2, OpenInductive, CloseInductive, ServeInductive,
     RevokeReturnsInductive, ReplyInductive
<1>3. ASSUME NEW p \in Peers, NEW r \in Ranges, NEW write \in BOOLEAN,
             GetPermission(p, r[1], r[2], write)
      PROVE  IInv'
  BY <1>3, GetPermissionInductive
<1> QED BY <1>1, <1>2, <1>3 DEF ManagerNext

\* The invariant holds in every reachable state.
LEMMA Inductive == ManagerSafety => []IInv
BY InitInductive, NextInductive, PTL DEF ManagerSafety

\* Every variable of the manager keeps its type.
THEOREM TypeCorrect == ManagerSafety => []ManagerTypeOK
<1>1. IInv => ManagerTypeOK
  BY DEF IInv
<1> QED BY <1>1, Inductive, PTL

(***************************************************************************)
(* For any number of clients and any file size, no byte is ever held by a  *)
(* writer and somebody else in the manager's table.                        *)
(***************************************************************************)
THEOREM TokensAreExclusive == ManagerSafety => []TokensExclusive
<1>1. IInv => TokensExclusive
  <2>1. \A b \in 0..MaxOffset : b \in Nat
    BY ManagerAssumption
  <2> QED BY Zenon, <2>1 DEF IInv, Exclusive, Compatible, TokensExclusive
<1> QED BY <1>1, Inductive, PTL

\* The file lock keeps service one at a time.
THEOREM ServiceIsSerial == ManagerSafety => []OneServedAtATime
<1>1. IInv => OneServedAtATime
  BY DEF IInv
<1> QED BY <1>1, Inductive, PTL

\* A token is in the table from the decision to grant it until the answer is sent.
THEOREM GrantsStand == ManagerSafety => []GrantStands
<1>1. IInv => GrantStands
  <2> SUFFICES ASSUME IInv, NEW p \in Peers, call[p].phase = "revoking",
                      NEW b \in call[p].start..(call[p].end - 1)
               PROVE  Allows(clientPermissions[p], b, call[p].write)
    BY DEF GrantStands
  <2>1. call[p].start \in Nat /\ call[p].end \in Nat
    BY CallFacts DEF IInv
  <2>2. b \in Nat /\ call[p].start <= b /\ b < call[p].end
    BY <2>1
  <2>3. AllowsRange(clientPermissions[p], call[p].start, call[p].end, call[p].write)
    BY DEF IInv, AllStanding, Standing
  <2> QED BY <2>2, <2>3 DEF AllowsRange
<1> QED BY <1>1, Inductive, PTL

-----------------------------------------------------------------------------
(***************************************************************************)
(* Refinement of ByteTokens.  A right is the mode of the strongest token   *)
(* on the byte; Serve acquires, CloseFile releases, other steps stutter.   *)
(***************************************************************************)
FileBytes == 0..(MaxOffset - 1)

Rights(table) == [p \in Peers |-> [b \in FileBytes |-> Mode(table[p], b)]]

\* The mode of a byte and what the vector allows on it.
LEMMA ModeAllows ==
  ASSUME NEW v, NEW b
  PROVE  /\ Mode(v, b) \in 0..2
         /\ Mode(v, b) = 2 <=> Allows(v, b, TRUE)
         /\ Mode(v, b) >= 1 <=> Allows(v, b, FALSE)
<1>1. CASE Allows(v, b, TRUE)
  <2>1. Mode(v, b) = 2 /\ Allows(v, b, FALSE)
    BY <1>1 DEF Mode, Allows
  <2>2. Mode(v, b) \in 0..2 /\ Mode(v, b) = 2 /\ Mode(v, b) >= 1
    BY <2>1
  <2> QED BY Zenon, <1>1, <2>1, <2>2
<1>2. CASE ~Allows(v, b, TRUE) /\ Allows(v, b, FALSE)
  <2>1. Mode(v, b) = 1
    BY <1>2 DEF Mode
  <2>2. Mode(v, b) \in 0..2 /\ Mode(v, b) # 2 /\ Mode(v, b) >= 1
    BY <2>1
  <2> QED BY ZenonT(30), <1>2, <2>1, <2>2
<1>3. CASE ~Allows(v, b, TRUE) /\ ~Allows(v, b, FALSE)
  <2>1. Mode(v, b) = 0
    BY <1>3 DEF Mode
  <2>2. Mode(v, b) \in 0..2 /\ Mode(v, b) # 2 /\ ~(Mode(v, b) >= 1)
    BY <2>1
  <2> QED BY ZenonT(30), <1>3, <2>1, <2>2
<1> QED BY Zenon, <1>1, <1>2, <1>3

\* A vector that allows less has lower modes.
LEMMA ModeWithin ==
  ASSUME NEW v, NEW w, Within(v, w), NEW b \in Nat
  PROVE  Mode(v, b) <= Mode(w, b)
<1>1. Allows(v, b, TRUE) => Allows(w, b, TRUE)
  BY Zenon DEF Within
<1>2. Allows(v, b, FALSE) => Allows(w, b, FALSE)
  BY Zenon DEF Within
<1>3. /\ Mode(v, b) \in 0..2 /\ Mode(w, b) \in 0..2
      /\ Mode(v, b) = 2 => Mode(w, b) = 2
      /\ Mode(v, b) >= 1 => Mode(w, b) >= 1
  BY Zenon, <1>1, <1>2, ModeAllows
<1> QED BY <1>3

\* The offsets of the file are natural numbers.
LEMMA FileBytesAreNaturals == FileBytes \subseteq Nat
BY ManagerAssumption DEF FileBytes

\* The rights of one client under the refinement mapping.
LEMMA RightsOfPeer ==
  ASSUME NEW table, NEW p \in Peers, NEW b \in FileBytes
  PROVE  Rights(table)[p][b] = Mode(table[p], b)
BY DEF Rights

\* The refinement mapping yields rights.
LEMMA RightsType ==
  ASSUME NEW table
  PROVE  Rights(table) \in [Peers -> [FileBytes -> 0..2]]
<1>1. \A p \in Peers : [b \in FileBytes |-> Mode(table[p], b)] \in [FileBytes -> 0..2]
  BY Zenon, ModeAllows
<1> QED BY <1>1 DEF Rights

\* What Serve does to the rights of the requester on one byte.
LEMMA ServeRaises ==
  ASSUME IInv, NEW p \in Peers, Serve(p), NEW b \in FileBytes,
         NEW m \in 1..2, m = IF call[p].write THEN 2 ELSE 1
  PROVE  LET old == Mode(clientPermissions[p], b)
             new == Mode(clientPermissions'[p], b)
             asked == From(p) <= b /\ b < To(p)
         IN /\ asked => new >= m
            /\ new <= old \/ (asked /\ new <= m)
<1> DEFINE old == Mode(clientPermissions[p], b)
           new == Mode(clientPermissions'[p], b)
           asked == From(p) <= b /\ b < To(p)
<1>0. b \in Nat /\ ManagerTypeOK
  BY FileBytesAreNaturals DEF IInv
<1>1. AddedTo(clientPermissions'[p], clientPermissions[p], From(p), To(p), call[p].write)
  BY <1>0, ServeRequester
<1>2. /\ old \in 0..2 /\ new \in 0..2
      /\ old = 2 <=> Allows(clientPermissions[p], b, TRUE)
      /\ old >= 1 <=> Allows(clientPermissions[p], b, FALSE)
      /\ new = 2 <=> Allows(clientPermissions'[p], b, TRUE)
      /\ new >= 1 <=> Allows(clientPermissions'[p], b, FALSE)
  BY Zenon, ModeAllows
<1>3. asked => Allows(clientPermissions'[p], b, call[p].write)
  BY <1>0, <1>1 DEF AddedTo, AllowsRange
<1>4. call[p].write \in BOOLEAN
  BY <1>0, CallFacts
<1>5. \A w \in BOOLEAN : Allows(clientPermissions'[p], b, w) =>
        Allows(clientPermissions[p], b, w) \/ (asked /\ (w => call[p].write))
  BY <1>0, <1>1 DEF AddedTo, Explained
<1>6. /\ new = 2 => old = 2 \/ (asked /\ call[p].write)
      /\ new >= 1 => old >= 1 \/ asked
  BY Zenon, <1>2, <1>5
<1> HIDE DEF old, new, asked
<1>7. CASE call[p].write = TRUE
  <2>1. m = 2 /\ (asked => new = 2)
    BY Zenon, <1>2, <1>3, <1>7
  <2> QED BY <1>2, <1>6, <2>1 DEF old, new, asked
<1>8. CASE call[p].write = FALSE
  <2>1. m = 1 /\ (asked => new >= 1)
    BY Zenon, <1>2, <1>3, <1>8
  <2>2. new = 2 => old = 2
    BY <1>6, <1>8
  <2> QED BY SMTT(30), <1>2, <1>6, <2>1, <2>2 DEF old, new, asked
<1> QED BY Zenon, <1>4, <1>7, <1>8

\* What Serve does to the rights of another peer on one byte.
LEMMA ServeLowers ==
  ASSUME IInv, NEW p \in Peers, Serve(p), NEW q \in Peers \ {p}, NEW b \in FileBytes,
         NEW m \in 1..2, m = IF call[p].write THEN 2 ELSE 1
  PROVE  LET old == Mode(clientPermissions[q], b)
             new == Mode(clientPermissions'[q], b)
             asked == From(p) <= b /\ b < To(p)
         IN /\ new <= old
            /\ asked /\ (m = 2 \/ old = 2) => new = 0
<1> DEFINE old == Mode(clientPermissions[q], b)
           new == Mode(clientPermissions'[q], b)
           asked == From(p) <= b /\ b < To(p)
<1>0. /\ b \in Nat /\ ManagerTypeOK /\ Exclusive /\ q \in Peers /\ q # p
      /\ \A r \in Peers \ opened : clientPermissions[r] = <<>>
  BY Zenon, FileBytesAreNaturals DEF IInv, OnlyOpened
<1>1. new <= old
  BY Zenon, <1>0, ServeOther, ModeWithin
<1>2. ASSUME asked, m = 2 \/ old = 2
      PROVE  ~Allows(clientPermissions'[q], b, FALSE)
  <2> SUFFICES ASSUME Allows(clientPermissions'[q], b, FALSE) PROVE FALSE
    BY Zenon
  <2>1. \A w \in BOOLEAN : Allows(clientPermissions'[q], b, w) => ~w /\ ~call[p].write
    BY <1>0, <1>2, ServeClears
  <2>2. ~call[p].write
    BY ZenonT(30), <2>1
  <2>3. old = 2
    BY <1>2, <2>2
  <2>4. PICK i \in 1..Len(clientPermissions[q]) :
          Covers(clientPermissions[q][i], b) /\ clientPermissions[q][i].write
    BY <2>3, ModeAllows DEF Allows
  <2>5. clientPermissions[q] # <<>> /\ q \in Others(p)
    <3>1. clientPermissions[q] # <<>>
      BY <2>4
    <3> QED BY <1>0, <3>1 DEF Others
  <2>6. From(p) = call[p].start /\ To(p) = call[p].end
    BY SMTT(30), <2>5 DEF FirstPermit, From, To
  <2>7. IsShared(clientPermissions[q][i], call[p].start, call[p].end)
    <3>1. clientPermissions[q][i] \in Permission
      BY <1>0, CallFacts, ElementOfSeq
    <3>2. clientPermissions[q][i].start \in Nat /\ clientPermissions[q][i].end \in Nat
      BY <3>1 DEF Permission
    <3>3. call[p].start \in Nat /\ call[p].end \in Nat
      BY <1>0, CallFacts
    <3> QED BY SMTT(30), <1>0, <1>2, <2>4, <2>6, <3>2, <3>3 DEF Covers, IsShared
  <2>8. q \in Conflicting(p)
    BY Zenon, <2>4, <2>5, <2>7 DEF Conflicting
  <2>9. RevokedFrom(clientPermissions'[q], clientPermissions[q], call[p].start, call[p].end)
    BY Zenon, <1>0, <2>8, ServeOther
  <2> QED BY Zenon, <1>0, <1>2, <2>6, <2>9 DEF RevokedFrom
<1>3. new \in 0..2 /\ (new >= 1 <=> Allows(clientPermissions'[q], b, FALSE))
  BY Zenon, ModeAllows
<1>4. asked /\ (m = 2 \/ old = 2) => new = 0
  <2> SUFFICES ASSUME asked, m = 2 \/ old = 2 PROVE new = 0
    OBVIOUS
  <2>1. ~(new >= 1)
    BY Zenon, <1>2, <1>3
  <2> QED BY <1>3, <2>1
<1> QED BY <1>1, <1>4

\* Serving a request is an Acquire step of the lock table.
LEMMA ServeAcquires ==
  ASSUME IInv, NEW p \in Peers, Serve(p)
  PROVE  \E from, to \in 0..MaxOffset, m \in 1..2 : Promise!Acquire(p, from, to, m)
<1> DEFINE m == IF call[p].write THEN 2 ELSE 1
<1>1. From(p) \in 0..MaxOffset /\ To(p) \in 0..MaxOffset /\ m \in 1..2
  <2>1. ManagerTypeOK
    BY DEF IInv
  <2> QED BY <2>1, GrantedRange
<1> HIDE DEF m
<1>2. Rights(clientPermissions') \in [Peers -> [FileBytes -> 0..2]]
  BY RightsType
<1>3. ASSUME NEW b \in FileBytes
      PROVE  LET old == Rights(clientPermissions)[p][b]
                 new == Rights(clientPermissions')[p][b]
                 asked == From(p) <= b /\ b < To(p)
             IN /\ asked => new >= m
                /\ new <= old \/ (asked /\ new <= m)
  BY SMTT(30), <1>1, ServeRaises, RightsOfPeer DEF m
<1>4. ASSUME NEW q \in Peers \ {p}, NEW b \in FileBytes
      PROVE  LET old == Rights(clientPermissions)[q][b]
                 new == Rights(clientPermissions')[q][b]
                 asked == From(p) <= b /\ b < To(p)
             IN /\ new <= old
                /\ asked /\ (m = 2 \/ old = 2) => new = 0
  BY SMTT(30), <1>1, ServeLowers, RightsOfPeer DEF m
<1>5. Promise!Acquire(p, From(p), To(p), m)
  BY Zenon, <1>2, <1>3, <1>4 DEF Promise!Acquire, Promise!Bytes, FileBytes, Rights
<1> QED BY <1>1, <1>5

\* Closing is a Release step of the lock table.
LEMMA CloseReleases ==
  ASSUME IInv, NEW p \in Peers, CloseFile(p)
  PROVE  Promise!Release(p)
<1>1. /\ clientPermissions'[p] = <<>>
      /\ \A q \in Peers : q # p => clientPermissions'[q] = clientPermissions[q]
  BY DEF IInv, ManagerTypeOK, CloseFile
<1>2. \A b \in FileBytes : Mode(clientPermissions'[p], b) = 0
  BY Zenon, <1>1, EmptyAllowsNothing DEF Mode
<1>3. Rights(clientPermissions')
        = [Rights(clientPermissions) EXCEPT ![p] = [b \in FileBytes |-> 0]]
  BY Zenon, <1>1, <1>2 DEF Rights
<1> QED BY <1>3 DEF Promise!Release, Promise!Bytes, FileBytes, Rights

(***************************************************************************)
(* Every behaviour of the manager is one of the byte-wise lock table, for  *)
(* every set of peers and every file size.                                 *)
(***************************************************************************)
THEOREM ManagerRefines == ManagerSafety => ImplementsByteTokens
<1>1. ManagerInit => Promise!Init
  <2> SUFFICES ASSUME ManagerInit PROVE Promise!Init
    OBVIOUS
  <2>1. \A p \in Peers : \A b : Mode(clientPermissions[p], b) = 0
    BY Zenon, EmptyAllowsNothing DEF ManagerInit, Mode
  <2> QED BY <2>1 DEF Promise!Init, Promise!Bytes
<1>2. IInv /\ [ManagerNext]_managerVars
        => [Promise!Next]_[p \in Peers |-> [b \in 0..(MaxOffset - 1) |-> Mode(clientPermissions[p], b)]]
  <2> SUFFICES ASSUME IInv, [ManagerNext]_managerVars
               PROVE  Promise!Next \/ UNCHANGED clientPermissions
    OBVIOUS
  <2>1. ASSUME NEW p \in Peers, Serve(p) PROVE Promise!Next
    BY <2>1, ServeAcquires DEF Promise!Next
  <2>2. ASSUME NEW p \in Peers, CloseFile(p) PROVE Promise!Next
    BY <2>2, CloseReleases DEF Promise!Next
  <2>3. ASSUME NEW p \in Peers, OpenFile(p) \/ RevokeReturns(p) \/ Reply(p) \/ Receive(p)
        PROVE  UNCHANGED clientPermissions
    BY <2>3 DEF OpenFile, RevokeReturns, Reply, Receive
  <2>4. ASSUME NEW p \in Peers, NEW r \in Ranges, NEW write \in BOOLEAN,
               GetPermission(p, r[1], r[2], write)
        PROVE  UNCHANGED clientPermissions
    BY <2>4 DEF GetPermission
  <2> QED BY ZenonT(30), <2>1, <2>2, <2>3, <2>4 DEF ManagerNext, managerVars
<1> QED BY <1>1, <1>2, Inductive, PTL DEF ManagerSafety, ImplementsByteTokens, Promise!Spec
=============================================================================
