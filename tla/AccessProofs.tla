---------------------------- MODULE AccessProofs ----------------------------
(***************************************************************************)
(* Proofs about Access.  The inductive invariant IInv adds to the          *)
(* properties what requests and tokens may lag behind: the copy of an      *)
(* account a request holds, and the version in a token, are never ahead of *)
(* the row (Behind), a token that was rotated is spent or expired          *)
(* (Rotated), and what a password vouched for is of the row it was read on *)
(* (Vouched).  Every action changes one row mildly, one request and at     *)
(* most one token (Mild, Moved, Grown), but the admin's edits.             *)
(* Three more invariants are inductive beside it: TallyInv (wrong          *)
(* passwords), TriesInv (wrong codes) and PairInv (versions and the        *)
(* passwords they stand for).                                              *)
(***************************************************************************)
EXTENDS Access, TLAPS

Ops == {"none", "sign_in", "login", "change", "reset", "refresh", "sign_out",
        "everywhere", "edit"}
Ats == {"idle", "password", "device", "code", "judge", "register", "save", "revoke",
        "reissue", "reset", "row", "claim", "access", "devices", "commit"}
RequestType == [op : Ops, at : Ats, user : Users, ok : BOOLEAN, snap : Row,
                given : Nat, tok : Nat, edit : Edits]

Typed ==
    /\ row \in [Users -> Row]
    /\ accounts \subseteq Users
    /\ req \in [Reqs -> RequestType]
    /\ tok \in Seq(Token)
    /\ pending \in [Users -> SignIns]
    /\ \A r \in Reqs : /\ req[r].at \in {"row", "claim", "access"} => req[r].tok \in DOMAIN tok
                       /\ req[r].at \in {"code", "judge"} => req[r].op \in Purposes

Behind ==
    /\ \A r \in Reqs : \/ req[r].user \in spoiled
                       \/ req[r].snap.ver <= row[req[r].user].ver
    /\ \A i \in DOMAIN tok : \/ tok[i].user \in spoiled
                             \/ tok[i].ver <= row[tok[i].user].ver

Rotated == \A i \in DOMAIN tok :
    tok[i].from # 0 => tok[i].from \in (spent \cup expired) /\ tok[i].from \in DOMAIN tok

(* The password of a sign-in is that of the row it was checked on, up to   *)
(* and in the tokens of a trusted browser.                                 *)
ByPassword(t) == t.by = "password" => t.given = t.pwd
OnItsRow(q) == q.at \in {"password", "device"} => q.given = q.snap.pwd
Vouched == /\ \A i \in DOMAIN tok : ByPassword(tok[i])
           /\ \A r \in Reqs : OnItsRow(req[r])

IInv == Typed /\ Behind /\ Rotated /\ Vouched /\ OneSuccessor /\ AdminRemains

-----------------------------------------------------------------------------
(* What a row may become outside the admin panel.                          *)
Mild(o, n) == /\ n \in Row
              /\ n.role = o.role
              /\ n.active = o.active
              /\ n.ver >= o.ver

LEMMA FailsRange == 0 \in 0..(MaxFails - 1)
  BY AccessAssumption, SMT

(* Two columns of a row replaced, the version among none of them.          *)
LEMMA TwoColumns ==
  ASSUME NEW o \in Row, NEW f \in 0..(MaxFails - 1), NEW l \in {"none", "held", "lapsed"},
         NEW c \in Nat, NEW d \in {"none", "open", "past"}
  PROVE  /\ Mild(o, [o EXCEPT !.fails = f, !.lock = l])
         /\ Mild(o, [o EXCEPT !.codeFails = c, !.codeDay = d])
<1>1. o.ver \in Nat BY DEF Row
<1>2. [o EXCEPT !.fails = f, !.lock = l] \in Row BY DEF Row
<1>3. [o EXCEPT !.codeFails = c, !.codeDay = d] \in Row BY DEF Row
<1>4. /\ [o EXCEPT !.fails = f, !.lock = l].role = o.role
      /\ [o EXCEPT !.fails = f, !.lock = l].active = o.active
      /\ [o EXCEPT !.fails = f, !.lock = l].ver = o.ver
  BY DEF Row
<1>5. /\ [o EXCEPT !.codeFails = c, !.codeDay = d].role = o.role
      /\ [o EXCEPT !.codeFails = c, !.codeDay = d].active = o.active
      /\ [o EXCEPT !.codeFails = c, !.codeDay = d].ver = o.ver
  BY DEF Row
<1> QED BY <1>1, <1>2, <1>3, <1>4, <1>5 DEF Mild

LEMMA TwoColumnsAt ==
  ASSUME NEW o \in Row
  PROVE  /\ Mild(o, [o EXCEPT !.fails = 0, !.lock = "held"])
         /\ Mild(o, [o EXCEPT !.fails = 0, !.lock = "none"])
         /\ Mild(o, [o EXCEPT !.codeFails = 1, !.codeDay = "open"])
         /\ Mild(o, [o EXCEPT !.codeFails = 0, !.codeDay = "none"])
<1> DEFINE P(f, l) == Mild(o, [o EXCEPT !.fails = f, !.lock = l])
           Q(c, d) == Mild(o, [o EXCEPT !.codeFails = c, !.codeDay = d])
<1>1. \A f \in 0..(MaxFails - 1), l \in {"none", "held", "lapsed"} : P(f, l) BY TwoColumns
<1>2. \A c \in Nat, d \in {"none", "open", "past"} : Q(c, d)
  BY FailsRange, TwoColumns
<1>3. 0 \in Nat /\ 1 \in Nat OBVIOUS
<1> HIDE DEF P, Q
<1>4. P(0, "held") /\ P(0, "none") BY <1>1, FailsRange
<1>5. Q(1, "open") /\ Q(0, "none") BY <1>2, <1>3
<1> QED BY <1>4, <1>5 DEF P, Q

LEMMA MildFailed ==
  ASSUME NEW o \in Row, NEW s \in Row
  PROVE  Mild(o, FailedRow(o, s))
<1> DEFINE f == o.fails + 1
<1>0. MaxFails \in Nat \ {0} BY AccessAssumption
<1>1. o.fails \in 0..(MaxFails - 1) /\ o.ver \in Nat BY DEF Row
<1>2. CASE f >= MaxFails
  <2>1. FailedRow(o, s) = [o EXCEPT !.fails = 0, !.lock = "held"] BY <1>2 DEF FailedRow
  <2> QED BY <2>1, TwoColumnsAt
<1>3. CASE ~(f >= MaxFails)
  <2>1. FailedRow(o, s) = [o EXCEPT !.fails = f] BY <1>3 DEF FailedRow
  <2>2. f \in 0..(MaxFails - 1) BY <1>0, <1>1, <1>3, SMT
  <2> HIDE DEF f
  <2> QED BY <2>1, <2>2, <1>1 DEF Mild, Row
<1> QED BY <1>2, <1>3

LEMMA MildOthers ==
  ASSUME NEW o \in Row
  PROVE  /\ Mild(o, Cleared(o)) /\ Mild(o, Believed(o)) /\ Mild(o, CountedCode(o))
         /\ Mild(o, Rehashed(o)) /\ Mild(o, Revoked(o))
         /\ Mild(o, [o EXCEPT !.lock = "lapsed"]) /\ Mild(o, [o EXCEPT !.codeDay = "past"])
<1>1. o.ver \in Nat /\ o.pwd \in Nat /\ o.codeFails \in Nat BY DEF Row
<1>2. Mild(o, Cleared(o)) BY TwoColumnsAt DEF Cleared
<1>3. Mild(o, Believed(o)) BY TwoColumnsAt DEF Believed
<1>4. Mild(o, CountedCode(o))
  <2> DEFINE c == o.codeFails + 1
  <2>1. c \in Nat BY <1>1
  <2>2. CASE o.codeDay = "open"
    <3>1. CountedCode(o) = [o EXCEPT !.codeFails = c] BY <2>2 DEF CountedCode
    <3> HIDE DEF c
    <3> QED BY <3>1, <2>1, <1>1 DEF Mild, Row
  <2>3. CASE o.codeDay # "open"
    <3>1. CountedCode(o) = [o EXCEPT !.codeFails = 1, !.codeDay = "open"] BY <2>3 DEF CountedCode
    <3> QED BY <3>1, TwoColumnsAt
  <2> QED BY <2>2, <2>3
<1>5. Mild(o, Rehashed(o))
  <2> DEFINE p == o.pwd + 1
  <2>1. p \in Nat BY <1>1
  <2>2. Rehashed(o) = [o EXCEPT !.pwd = p] BY DEF Rehashed
  <2> HIDE DEF p
  <2> QED BY <2>1, <2>2, <1>1 DEF Mild, Row
<1>6. Mild(o, Revoked(o))
  <2> DEFINE v == o.ver + 1
  <2>1. v \in Nat /\ v >= o.ver BY <1>1
  <2>2. Revoked(o) = [o EXCEPT !.ver = v] BY DEF Revoked
  <2> HIDE DEF v
  <2> QED BY <2>1, <2>2, <1>1 DEF Mild, Row
<1>7. Mild(o, [o EXCEPT !.lock = "lapsed"]) BY <1>1 DEF Mild, Row
<1>8. Mild(o, [o EXCEPT !.codeDay = "past"]) BY <1>1 DEF Mild, Row
<1> QED BY <1>2, <1>3, <1>4, <1>5, <1>6, <1>7, <1>8

LEMMA MildReset ==
  ASSUME NEW o \in Row
  PROVE  Mild(o, Revoked(Rehashed(Cleared(o))))
<1>1. Mild(o, Cleared(o)) BY MildOthers
<1>2. Cleared(o) \in Row BY <1>1 DEF Mild
<1>3. Mild(Cleared(o), Rehashed(Cleared(o))) BY <1>2, MildOthers
<1>4. Rehashed(Cleared(o)) \in Row BY <1>3 DEF Mild
<1>5. Mild(Rehashed(Cleared(o)), Revoked(Rehashed(Cleared(o)))) BY <1>4, MildOthers
<1>6. \A x \in Row : x.ver \in Nat BY DEF Row
<1> HIDE DEF Cleared
<1> QED BY <1>1, <1>2, <1>3, <1>4, <1>5, <1>6 DEF Mild

-----------------------------------------------------------------------------
(* The shapes of a step.                                                   *)
RowMoved == \/ row' = row
            \/ \E u \in Users : \E n \in Row : Mild(row[u], n) /\ row' = [row EXCEPT ![u] = n]

QuietPeople == RowMoved /\ accounts' = accounts /\ spoiled \subseteq spoiled'

Later(q) == /\ q \in RequestType
            /\ q.at \in {"row", "claim", "access"} => q.tok \in DOMAIN tok
            /\ q.at \in {"code", "judge"} => q.op \in Purposes
            /\ q.user \in spoiled \/ q.snap.ver <= row[q.user].ver
            /\ OnItsRow(q)

ReqMoved == \/ req' = req
            \/ \E r \in Reqs : \E q \in RequestType : Later(q) /\ req' = [req EXCEPT ![r] = q]

TokGrown ==
    \/ tok' = tok
    \/ \E t \in Token : /\ tok' = Append(tok, t)
                        /\ t.user \in spoiled \/ t.ver <= row[t.user].ver
                        /\ ByPassword(t)
                        /\ t.from = 0 \/ (/\ t.from \in DOMAIN tok
                                          /\ t.from \in spent'
                                          /\ t.from \notin spent)

Kept == spent \ spent' \subseteq expired /\ expired \subseteq expired'

PendingMoved == \/ pending' = pending
                \/ \E u \in Users : \E g \in SignIns : pending' = [pending EXCEPT ![u] = g]

(* Every step of the system but an admin's edit.                           *)
Shape == QuietPeople /\ ReqMoved /\ TokGrown /\ Kept /\ PendingMoved

LEMMA RowMovedFacts ==
  ASSUME Typed, QuietPeople
  PROVE  /\ row' \in [Users -> Row]
         /\ \A u \in Users : /\ row'[u].role = row[u].role
                             /\ row'[u].active = row[u].active
                             /\ row'[u].ver >= row[u].ver
<1>1. \A x \in Row : x.ver \in Nat BY DEF Row
<1>2. CASE row' = row
  <2>1. \A u \in Users : row[u] \in Row BY DEF Typed
  <2> QED BY <1>1, <1>2, <2>1 DEF Typed
<1>3. ASSUME NEW u \in Users, NEW n \in Row, Mild(row[u], n), row' = [row EXCEPT ![u] = n]
      PROVE  /\ row' \in [Users -> Row]
             /\ \A v \in Users : /\ row'[v].role = row[v].role
                                 /\ row'[v].active = row[v].active
                                 /\ row'[v].ver >= row[v].ver
  <2>1. row' \in [Users -> Row] BY <1>3 DEF Typed
  <2>2. row'[u] = n /\ \A v \in Users \ {u} : row'[v] = row[v] BY <1>3 DEF Typed
  <2>3. \A v \in Users : row[v] \in Row BY DEF Typed
  <2>4. /\ row'[u].role = row[u].role /\ row'[u].active = row[u].active
        /\ row'[u].ver >= row[u].ver BY <1>3, <2>2 DEF Mild
  <2>5. ASSUME NEW v \in Users \ {u}
        PROVE  row'[v].role = row[v].role /\ row'[v].active = row[v].active /\ row'[v].ver >= row[v].ver
    <3>1. row[v].ver \in Nat BY <1>1, <2>3
    <3> QED BY <2>2, <3>1
  <2> QED BY <2>1, <2>4, <2>5
<1> QED BY <1>2, <1>3 DEF QuietPeople, RowMoved

LEMMA ShapeKeeps ==
  ASSUME IInv, Shape
  PROVE  IInv'
<1> USE DEF IInv
<1>r. /\ row' \in [Users -> Row]
      /\ \A u \in Users : /\ row'[u].role = row[u].role
                          /\ row'[u].active = row[u].active
                          /\ row'[u].ver >= row[u].ver
  BY RowMovedFacts DEF Shape
<1>v. \A u \in Users : row[u].ver \in Nat /\ row'[u].ver \in Nat
  <2>1. \A u \in Users : row[u] \in Row /\ row'[u] \in Row BY <1>r DEF Typed
  <2> QED BY <2>1 DEF Row
<1>t. /\ tok' \in Seq(Token)
      /\ Len(tok') >= Len(tok)
      /\ \A i \in DOMAIN tok : i \in DOMAIN tok' /\ tok'[i] = tok[i]
      /\ \A i \in DOMAIN tok' : i \in DOMAIN tok \/ tok' = Append(tok, tok'[i])
      /\ \A i \in DOMAIN tok' : i \notin DOMAIN tok => i = Len(tok) + 1
  BY DEF Shape, TokGrown, Typed
<1>k. \A i \in spent \cup expired : i \in spent' \cup expired' BY DEF Shape, Kept
<1>1. Typed'
  <2>1. accounts' \subseteq Users BY DEF Shape, QuietPeople, Typed
  <2>2. req' \in [Reqs -> RequestType] BY DEF Shape, ReqMoved, Typed
  <2>3. ASSUME NEW r \in Reqs, req'[r].at \in {"row", "claim", "access"}
        PROVE  req'[r].tok \in DOMAIN tok
    BY <2>3 DEF Shape, ReqMoved, Typed, Later
  <2>4. ASSUME NEW r \in Reqs, req'[r].at \in {"code", "judge"}
        PROVE  req'[r].op \in Purposes
    BY <2>4 DEF Shape, ReqMoved, Typed, Later
  <2>5. pending' \in [Users -> SignIns] BY DEF Shape, PendingMoved, Typed
  <2> QED BY <1>r, <1>t, <2>1, <2>2, <2>3, <2>4, <2>5 DEF Typed
<1>2. Behind'
  <2>1. ASSUME NEW r \in Reqs
        PROVE  req'[r].user \in spoiled' \/ req'[r].snap.ver <= row'[req'[r].user].ver
    <3>1. req'[r] \in RequestType BY <1>1 DEF Typed
    <3>2. req'[r].user \in Users /\ req'[r].snap \in Row BY <3>1 DEF RequestType
    <3>3. req'[r].user \in spoiled \/ req'[r].snap.ver <= row[req'[r].user].ver
      BY DEF Shape, ReqMoved, Typed, Behind, Later
    <3>4. req'[r].snap.ver \in Nat BY <3>2 DEF Row
    <3> QED BY <1>r, <1>v, <3>2, <3>3, <3>4 DEF Shape, QuietPeople
  <2>2. ASSUME NEW i \in DOMAIN tok'
        PROVE  tok'[i].user \in spoiled' \/ tok'[i].ver <= row'[tok'[i].user].ver
    <3>1. tok'[i] \in Token BY <1>t
    <3>2. tok'[i].user \in Users /\ tok'[i].ver \in Nat BY <3>1 DEF Token
    <3>3. tok'[i].user \in spoiled \/ tok'[i].ver <= row[tok'[i].user].ver
      <4>1. CASE i \in DOMAIN tok BY <4>1, <1>t DEF Behind
      <4>2. CASE i \notin DOMAIN tok BY <4>2, <1>t DEF Shape, TokGrown, Typed
      <4> QED BY <4>1, <4>2
    <3> QED BY <1>r, <1>v, <3>2, <3>3 DEF Shape, QuietPeople
  <2> QED BY <2>1, <2>2 DEF Behind
<1>3. Rotated'
  <2> SUFFICES ASSUME NEW i \in DOMAIN tok', tok'[i].from # 0
               PROVE  tok'[i].from \in (spent' \cup expired') /\ tok'[i].from \in DOMAIN tok'
    BY DEF Rotated
  <2>1. CASE i \in DOMAIN tok BY <2>1, <1>t, <1>k DEF Rotated
  <2>2. CASE i \notin DOMAIN tok BY <2>2, <1>t DEF Shape, TokGrown, Typed
  <2> QED BY <2>1, <2>2
<1>6. Vouched'
  <2>1. ASSUME NEW i \in DOMAIN tok' PROVE ByPassword(tok[i])'
    <3>1. CASE i \in DOMAIN tok BY <3>1, <1>t DEF Vouched, ByPassword
    <3>2. CASE i \notin DOMAIN tok
      BY <3>2, <1>t DEF Shape, TokGrown, Typed, ByPassword
    <3> QED BY <3>1, <3>2
  <2>2. ASSUME NEW r \in Reqs PROVE OnItsRow(req[r])'
    BY DEF Shape, ReqMoved, Typed, Vouched, Later, OnItsRow
  <2> QED BY <2>1, <2>2 DEF Vouched
<1>4. OneSuccessor'
  <2> SUFFICES ASSUME NEW i \in DOMAIN tok', NEW j \in DOMAIN tok', i # j,
                      tok'[i].from = tok'[j].from
               PROVE  tok'[i].from \in {0} \cup expired'
    BY DEF OneSuccessor
  <2>1. CASE i \in DOMAIN tok /\ j \in DOMAIN tok
    BY <2>1, <1>t DEF OneSuccessor, Shape, Kept
  <2>2. ASSUME NEW a \in DOMAIN tok, NEW b \in DOMAIN tok', b \notin DOMAIN tok,
               tok'[a].from = tok'[b].from
        PROVE  tok'[b].from \in {0} \cup expired'
    <3>1. tok'[b].from = 0 \/ tok'[b].from \notin spent
      BY <2>2, <1>t DEF Shape, TokGrown, Typed
    <3>2. tok[a].from = tok'[b].from BY <2>2, <1>t
    <3> QED BY <3>1, <3>2 DEF Rotated, Shape, Kept
  <2>3. CASE i \in DOMAIN tok /\ j \notin DOMAIN tok BY <2>2, <2>3
  <2>4. CASE i \notin DOMAIN tok /\ j \in DOMAIN tok BY <2>2, <2>4
  <2>5. i \in DOMAIN tok \/ j \in DOMAIN tok BY <1>t
  <2> QED BY <2>1, <2>3, <2>4, <2>5
<1>5. AdminRemains'
  <2> SUFFICES ASSUME spoiled' = {} PROVE SomeAdmin' BY DEF AdminRemains
  <2>1. PICK u \in Users : IsActiveAdmin(u) BY DEF AdminRemains, SomeAdmin, Shape, QuietPeople
  <2>2. u \in accounts' /\ row'[u].role = "admin" /\ row'[u].active
    BY <2>1, <1>r DEF IsActiveAdmin, Shape, QuietPeople
  <2> QED BY <2>2 DEF SomeAdmin, IsActiveAdmin
<1> QED BY <1>1, <1>2, <1>3, <1>4, <1>5, <1>6

-----------------------------------------------------------------------------
(* What becomes of a request.                                              *)
LEMMA TokenAt ==
  ASSUME IInv, NEW i \in DOMAIN tok
  PROVE  tok[i] \in Token /\ tok[i].user \in Users /\ tok[i].ver \in Nat /\ i \in Nat
<1>1. tok \in Seq(Token) BY DEF IInv, Typed
<1>2. tok[i] \in Token /\ i \in Nat BY <1>1
<1> QED BY <1>2 DEF Token

LEMMA LaterIdle ==
  ASSUME IInv
  PROVE  Idle \in RequestType /\ Later(Idle)
<1>1. FreshRow("user") \in Row /\ FreshRow("user").ver = 0
  BY FailsRange DEF FreshRow, Row
<1>2. Idle \in RequestType
  BY <1>1, AccessAssumption DEF Idle, RequestType, Ops, Ats, Edits
<1>3. row[Owner].ver \in Nat
  <2>1. row[Owner] \in Row BY AccessAssumption DEF IInv, Typed
  <2> QED BY <2>1 DEF Row
<1> QED BY <1>1, <1>2, <1>3 DEF Idle, Later, OnItsRow

LEMMA LaterRequest ==
  ASSUME IInv, NEW op \in Ops, NEW at \in Ats, NEW u \in Users, NEW ok \in BOOLEAN,
         NEW t \in Nat, NEW e \in Edits,
         at \in {"row", "claim", "access"} => t \in DOMAIN tok,
         at \in {"code", "judge"} => op \in Purposes,
         at \in {"password", "device"} => op # "login",
         op = "login" => pending[u] # NoSignIn
  PROVE  Request(op, at, u, ok, t, e) \in RequestType /\ Later(Request(op, at, u, ok, t, e))
<1>1. row[u] \in Row BY DEF IInv, Typed
<1>2. row[u].ver \in Nat /\ row[u].pwd \in Nat BY <1>1 DEF Row
<1> DEFINE g == IF op = "login" THEN pending[u] ELSE row[u].pwd
<1>3. g \in Nat
  <2>1. pending[u] \in SignIns BY DEF IInv, Typed
  <2> QED BY <1>2, <2>1 DEF SignIns
<1>4. at \in {"password", "device"} => g = row[u].pwd OBVIOUS
<1>5. Request(op, at, u, ok, t, e) =
        [op |-> op, at |-> at, user |-> u, ok |-> ok, snap |-> row[u], tok |-> t, edit |-> e,
         given |-> g]
  BY DEF Request
<1> HIDE DEF g
<1> QED BY <1>1, <1>2, <1>3, <1>4, <1>5 DEF RequestType, Later, OnItsRow

LEMMA LaterGoto ==
  ASSUME IInv, NEW r \in Reqs, NEW at \in Ats,
         at \in {"row", "claim", "access"} => req[r].tok \in DOMAIN tok,
         at \in {"code", "judge"} => req[r].op \in Purposes,
         at \in {"password", "device"} => req[r].at = "password"
  PROVE  LET q == [req[r] EXCEPT !.at = at] IN q \in RequestType /\ Later(q)
<1>1. req[r] \in RequestType BY DEF IInv, Typed
<1>2. req[r].user \in spoiled \/ req[r].snap.ver <= row[req[r].user].ver BY DEF IInv, Behind
<1>3. OnItsRow(req[r]) BY DEF IInv, Vouched
<1> QED BY <1>1, <1>2, <1>3 DEF RequestType, Later, OnItsRow

LEMMA EndMoves ==
  ASSUME IInv, NEW r \in Reqs, End(r)
  PROVE  ReqMoved
BY LaterIdle DEF End, ReqMoved

LEMMA GotoMoves ==
  ASSUME IInv, NEW r \in Reqs, NEW at \in Ats, Goto(r, at),
         at \in {"row", "claim", "access"} => req[r].tok \in DOMAIN tok,
         at \in {"code", "judge"} => req[r].op \in Purposes,
         at \in {"password", "device"} => req[r].at = "password"
  PROVE  ReqMoved
<1>1. req' = [req EXCEPT ![r] = [req[r] EXCEPT !.at = at]] BY DEF Goto
<1>2. LET q == [req[r] EXCEPT !.at = at] IN q \in RequestType /\ Later(q) BY LaterGoto
<1> QED BY <1>1, <1>2 DEF ReqMoved

(* Steps that leave the people, the sessions or both alone.                *)
LEMMA NothingElse ==
  ASSUME IInv, ReqMoved, UNCHANGED people, UNCHANGED sessions, pending' = pending
  PROVE  Shape
BY DEF Shape, QuietPeople, RowMoved, TokGrown, Kept, PendingMoved, people, sessions

LEMMA RowOnly ==
  ASSUME IInv, ReqMoved, RowMoved, accounts' = accounts, spoiled' = spoiled, UNCHANGED sessions,
         pending' = pending
  PROVE  Shape
BY DEF Shape, QuietPeople, TokGrown, Kept, PendingMoved, sessions

(* What a token may be made of.                                            *)
LEMMA MintGrows ==
  ASSUME IInv, NEW u \in Users, NEW x, NEW g \in Nat, NEW b \in {"password", "code"},
         NEW i \in Nat, Mint(u, x, g, b, i),
         x.ver \in Nat, x.pwd \in Nat, u \in spoiled \/ x.ver <= row[u].ver,
         b = "password" => g = x.pwd,
         i = 0 \/ (i \in DOMAIN tok /\ i \in spent' /\ i \notin spent)
  PROVE  TokGrown
<1> DEFINE t == [user |-> u, ver |-> x.ver, pwd |-> x.pwd, given |-> g, by |-> b, from |-> i]
<1>1. tok' = Append(tok, t) BY DEF Mint, Claimed
<1>2. t \in Token BY DEF Token
<1>3. t.user = u /\ t.ver = x.ver /\ t.from = i OBVIOUS
<1>4. ByPassword(t) BY DEF ByPassword
<1> HIDE DEF t
<1> QED BY <1>1, <1>2, <1>3, <1>4 DEF TokGrown

-----------------------------------------------------------------------------
(* The starts of requests.                                                 *)
LEMMA StartShapes ==
  ASSUME IInv, NEW r \in Reqs, Start(r)
  PROVE  Shape
<1> USE DEF IInv
<1>0. \A u \in Users : row[u] \in Row BY DEF Typed
<1>1. ASSUME NEW u \in Users, NEW ok \in BOOLEAN, SignIn(r, u, ok)
      PROVE  Shape
  <2> DEFINE q == Request("sign_in", "password", u, ok, 0, "rename")
  <2>z. "sign_in" \in Ops /\ "password" \in Ats /\ "rename" \in Edits /\ ok \in BOOLEAN /\ 0 \in Nat
    BY DEF Ops, Ats, Edits
  <2>1. req' = [req EXCEPT ![r] = q] BY <1>1 DEF SignIn, Begin
  <2>2. q \in RequestType /\ Later(q) BY <2>z, LaterRequest
  <2> HIDE DEF q
  <2>3. ReqMoved BY <2>1, <2>2 DEF ReqMoved
  <2> QED BY <1>1, <2>3, NothingElse DEF SignIn, trust
<1>2. ASSUME NEW u \in Users, NEW ok \in BOOLEAN, AskToChange(r, u, ok)
      PROVE  Shape
  <2>1. Mild(row[u], FailedRow(row[u], row[u])) BY <1>0, MildFailed
  <2>2. FailedRow(row[u], row[u]) \in Row BY <2>1 DEF Mild
  <2>3. RowMoved BY <1>2, <2>1, <2>2 DEF AskToChange, RowMoved, RegisterFailed
  <2> QED BY <1>2, <2>3, RowOnly DEF AskToChange, ReqMoved
<1>3. ASSUME NEW u \in Users, AskToReset(r, u)
      PROVE  Shape
  BY <1>3, NothingElse DEF AskToReset, ReqMoved
<1>4. ASSUME NEW u \in Users, SignOutEverywhere(r, u)
      PROVE  Shape
  <2> DEFINE q == Request("everywhere", "revoke", u, FALSE, 0, "rename")
  <2>z. "everywhere" \in Ops /\ "revoke" \in Ats /\ "rename" \in Edits /\ FALSE \in BOOLEAN /\ 0 \in Nat
    BY DEF Ops, Ats, Edits
  <2>1. req' = [req EXCEPT ![r] = q] BY <1>4 DEF SignOutEverywhere, Begin
  <2>2. q \in RequestType /\ Later(q) BY <2>z, LaterRequest
  <2> HIDE DEF q
  <2>3. ReqMoved BY <2>1, <2>2 DEF ReqMoved
  <2> QED BY <1>4, <2>3, NothingElse DEF SignOutEverywhere, trust
<1>5. ASSUME NEW u \in Users, ForgetOneDevice(r, u)
      PROVE  Shape
  BY <1>5, NothingElse DEF ForgetOneDevice, ReqMoved
<1>6. ASSUME NEW u \in Users, NEW p \in Purposes, NEW ok \in BOOLEAN, EnterCode(r, u, p, ok)
      PROVE  Shape
  <2> DEFINE q == Request(p, "code", u, ok, 0, "rename")
  <2>z. p \in Ops /\ "code" \in Ats /\ "rename" \in Edits /\ ok \in BOOLEAN /\ 0 \in Nat
    BY DEF Ops, Ats, Edits, Purposes
  <2>1. req' = [req EXCEPT ![r] = q] BY <1>6 DEF EnterCode, Begin
  <2>3a. p = "login" => pending[u] # NoSignIn BY <1>6 DEF EnterCode, MayEnter
  <2>2. q \in RequestType /\ Later(q) BY <2>z, <2>3a, LaterRequest DEF Purposes
  <2> HIDE DEF q
  <2>3. ReqMoved BY <2>1, <2>2 DEF ReqMoved
  <2> QED BY <1>6, <2>3, NothingElse DEF EnterCode, trust
<1>7. ASSUME NEW i \in DOMAIN tok, Refresh(r, i)
      PROVE  Shape
  <2> DEFINE q == Request("refresh", "row", tok[i].user, FALSE, i, "rename")
  <2>z. "refresh" \in Ops /\ "row" \in Ats /\ "rename" \in Edits /\ FALSE \in BOOLEAN /\ 0 \in Nat
    BY DEF Ops, Ats, Edits
  <2>0. tok[i].user \in Users /\ i \in Nat BY TokenAt
  <2>1. req' = [req EXCEPT ![r] = q] BY <1>7 DEF Refresh, Begin
  <2>2. q \in RequestType /\ Later(q) BY <2>z, <2>0, LaterRequest
  <2> HIDE DEF q
  <2>3. ReqMoved BY <2>1, <2>2 DEF ReqMoved
  <2> QED BY <1>7, <2>3, NothingElse DEF Refresh, trust
<1>8. ASSUME NEW i \in DOMAIN tok, SignOut(r, i)
      PROVE  Shape
  <2> DEFINE q == Request("sign_out", "access", tok[i].user, FALSE, i, "rename")
  <2>z. "sign_out" \in Ops /\ "access" \in Ats /\ "rename" \in Edits /\ FALSE \in BOOLEAN /\ 0 \in Nat
    BY DEF Ops, Ats, Edits
  <2>0. tok[i].user \in Users /\ i \in Nat BY TokenAt
  <2>1. req' = [req EXCEPT ![r] = q] BY <1>8 DEF SignOut, Begin
  <2>2. q \in RequestType /\ Later(q) BY <2>z, <2>0, LaterRequest
  <2> HIDE DEF q
  <2>3. ReqMoved BY <2>1, <2>2 DEF ReqMoved
  <2> QED BY <1>8, <2>3
    DEF SignOut, Shape, QuietPeople, RowMoved, TokGrown, Kept, PendingMoved, people, trust
<1>9. ASSUME NEW u \in Users, NEW e \in Edits, EditUser(r, u, e)
      PROVE  Shape
  <2> DEFINE q == Request("edit", "commit", u, FALSE, 0, e)
  <2>z. "edit" \in Ops /\ "commit" \in Ats /\ e \in Edits /\ FALSE \in BOOLEAN /\ 0 \in Nat
    BY DEF Ops, Ats, Edits
  <2>1. req' = [req EXCEPT ![r] = q] BY <1>9 DEF EditUser, Begin
  <2>2. q \in RequestType /\ Later(q) BY <2>z, LaterRequest
  <2> HIDE DEF q
  <2>3. ReqMoved BY <2>1, <2>2 DEF ReqMoved
  <2> QED BY <1>9, <2>3, NothingElse DEF EditUser, trust
<1> QED BY <1>1, <1>2, <1>3, <1>4, <1>5, <1>6, <1>7, <1>8, <1>9 DEF Start

-----------------------------------------------------------------------------
(* The later steps of requests.                                            *)
LEMMA StepShapes ==
  ASSUME IInv, NEW r \in Reqs,
         Step(r), ~CommitEdit(r), ~CommitDelete(r)
  PROVE  Shape
<1> DEFINE u == req[r].user
<1>0. req[r] \in RequestType BY DEF IInv, Typed
<1>1. u \in Users /\ req[r].snap \in Row /\ req[r].op \in Ops BY <1>0 DEF RequestType
<1>2. row \in [Users -> Row] /\ row[u] \in Row BY <1>1 DEF IInv, Typed
<1>3. req[r].snap.ver \in Nat /\ req[r].snap.pwd \in Nat /\ row[u].ver \in Nat /\ row[u].pwd \in Nat
      /\ req[r].given \in Nat
  BY <1>0, <1>1, <1>2 DEF Row, RequestType
<1>4. u \in spoiled \/ req[r].snap.ver <= row[u].ver BY DEF IInv, Behind
<1>5. ASSUME NEW n \in Row, Mild(row[u], n), row' = [row EXCEPT ![u] = n] \/ row' = row
      PROVE  RowMoved
  BY <1>1, <1>5 DEF RowMoved
<1>6. "device" \in Ats /\ "judge" \in Ats /\ "register" \in Ats /\ "save" \in Ats /\ "reset" \in Ats
      /\ "revoke" \in Ats /\ "reissue" \in Ats /\ "devices" \in Ats /\ "claim" \in Ats
  BY DEF Ats
<1>c. CASE CheckPassword(r)
  <2>0. req[r].at = "password" BY <1>c DEF CheckPassword
  <2>1. ReqMoved BY <1>c, <1>6, <2>0, EndMoves, GotoMoves DEF CheckPassword
  <2>2. Mild(row[u], FailedRow(row[u], req[r].snap)) /\ Mild(row[u], Cleared(row[u]))
    BY <1>1, <1>2, MildFailed, MildOthers
  <2>3. FailedRow(row[u], req[r].snap) \in Row /\ Cleared(row[u]) \in Row BY <2>2 DEF Mild
  <2>4. RowMoved /\ accounts' = accounts /\ spoiled' = spoiled
    <3>1. CASE u \notin accounts BY <1>c, <3>1 DEF CheckPassword, people, RowMoved
    <3>2. CASE u \in accounts /\ ~req[r].ok
      <4>1. row' = [row EXCEPT ![u] = FailedRow(row[u], req[r].snap)] /\ UNCHANGED <<accounts, spoiled>>
        BY <1>c, <3>2 DEF CheckPassword, RegisterFailed
      <4> QED BY <4>1, <2>2, <2>3, <1>5
    <3>3. CASE u \in accounts /\ req[r].ok
      <4>1. (row' = [row EXCEPT ![u] = Cleared(row[u])] \/ row' = row) /\ UNCHANGED <<accounts, spoiled>>
        BY <1>c, <3>3 DEF CheckPassword
      <4> QED BY <4>1, <2>2, <2>3, <1>5
    <3> QED BY <3>1, <3>2, <3>3
  <2> QED BY <1>c, <2>1, <2>4, RowOnly DEF CheckPassword, trust
<1>d. CASE DeviceGate(r)
  <2>1. ReqMoved BY <1>d, EndMoves DEF DeviceGate
  <2>2. TokGrown /\ spent' = spent /\ expired' = expired
    <3>1. CASE u \in devices
      <4>1. Mint(u, req[r].snap, req[r].given, "password", 0) /\ UNCHANGED <<spent, expired>>
        BY <1>d, <3>1 DEF DeviceGate
      <4>2. req[r].given = req[r].snap.pwd BY <1>d DEF DeviceGate, IInv, Vouched, OnItsRow
      <4> QED BY <4>1, <4>2, <1>1, <1>3, <1>4, MintGrows
    <3>2. CASE u \notin devices BY <1>d, <3>2 DEF DeviceGate, TokGrown, sessions
    <3> QED BY <3>1, <3>2
  <2>3. PendingMoved BY <1>d, <1>1, <1>3 DEF DeviceGate, PendingMoved, SignIns, trust
  <2> QED BY <1>d, <2>1, <2>2, <2>3 DEF DeviceGate, Shape, QuietPeople, RowMoved, Kept, people
<1>t. CASE TakeCode(r)
  <2>0. req[r].at = "code" BY <1>t DEF TakeCode
  <2>z. req[r].op \in Purposes BY <2>0 DEF IInv, Typed
  <2>1. ReqMoved BY <1>t, <1>6, <2>z, EndMoves, GotoMoves DEF TakeCode
  <2> QED BY <1>t, <2>1, NothingElse DEF TakeCode
<1>w. CASE WrongCode(r)
  <2>1. ReqMoved BY <1>w, EndMoves DEF WrongCode
  <2>2. Mild(row[u], CountedCode(row[u])) BY <1>2, MildOthers
  <2>3. CountedCode(row[u]) \in Row BY <2>2 DEF Mild
  <2>4. row' = [row EXCEPT ![u] = CountedCode(row[u])] \/ row' = row BY <1>w DEF WrongCode
  <2>5. RowMoved BY <2>2, <2>3, <2>4, <1>5
  <2> QED BY <1>w, <2>1, <2>5, RowOnly DEF WrongCode
<1>g. CASE RightCode(r)
  <2>1. Goto(r, AfterCode(req[r].op)) BY <1>g DEF RightCode
  <2>2. req[r].op \in Purposes
    <3>1. req[r].at = "judge" BY <1>g DEF RightCode
    <3> QED BY <3>1 DEF IInv, Typed
  <2>3. AfterCode(req[r].op) \in Ats /\ AfterCode(req[r].op) \notin {"row", "claim", "access", "password", "device"}
    BY <2>2, <1>6 DEF AfterCode, Purposes
  <2>4. ReqMoved BY <2>1, <2>2, <2>3, GotoMoves
  <2>5. Mild(row[u], Believed(row[u])) BY <1>2, MildOthers
  <2>6. Believed(row[u]) \in Row BY <2>5 DEF Mild
  <2>7. row' = [row EXCEPT ![u] = Believed(row[u])] \/ row' = row BY <1>g DEF RightCode
  <2>8. RowMoved BY <2>5, <2>6, <2>7, <1>5
  <2> QED BY <1>g, <2>4, <2>8, RowOnly DEF RightCode
<1>e. CASE RegisterDevice(r)
  <2>1. ReqMoved BY <1>e, EndMoves DEF RegisterDevice
  <2>2. TokGrown /\ spent' = spent /\ expired' = expired
    <3>1. CASE u \in accounts
      <4>1. Mint(u, req[r].snap, req[r].given, "code", 0) /\ UNCHANGED <<spent, expired>>
        BY <1>e, <3>1 DEF RegisterDevice
      <4> QED BY <4>1, <1>1, <1>3, <1>4, MintGrows
    <3>2. CASE u \notin accounts BY <1>e, <3>2 DEF RegisterDevice, TokGrown
    <3> QED BY <3>1, <3>2
  <2>3. PendingMoved BY <1>e, <1>1 DEF RegisterDevice, PendingMoved, SignIns
  <2> QED BY <1>e, <2>1, <2>2, <2>3 DEF RegisterDevice, Shape, QuietPeople, RowMoved, Kept, people
<1>s. CASE SavePassword(r)
  <2>1. ReqMoved
    <3> DEFINE g == row[u].pwd + 1
               q == [req[r] EXCEPT !.at = "revoke", !.given = g]
    <3>1. CASE End(r) BY <3>1, EndMoves
    <3>2. CASE req' = [req EXCEPT ![r] = q]
      <4>1. g \in Nat BY <1>3
      <4>2. req[r].user \in spoiled \/ req[r].snap.ver <= row[req[r].user].ver BY <1>4
      <4> HIDE DEF g
      <4>3. q \in RequestType /\ Later(q)
        BY <4>1, <4>2, <1>0, <1>6 DEF RequestType, Later, OnItsRow
      <4> QED BY <3>2, <4>3 DEF ReqMoved
    <3> QED BY <1>s, <3>1, <3>2 DEF SavePassword
  <2>2. Mild(row[u], Rehashed(row[u])) BY <1>2, MildOthers
  <2>3. Rehashed(row[u]) \in Row BY <2>2 DEF Mild
  <2>4. row' = [row EXCEPT ![u] = Rehashed(row[u])] \/ row' = row BY <1>s DEF SavePassword
  <2>5. RowMoved BY <2>2, <2>3, <2>4, <1>5
  <2> QED BY <1>s, <2>1, <2>5, RowOnly DEF SavePassword, trust
<1>v. CASE RevokeAll(r)
  <2>1. ReqMoved BY <1>v, <1>6, GotoMoves DEF RevokeAll
  <2>2. Mild(row[u], Revoked(row[u])) BY <1>2, MildOthers
  <2>3. Revoked(row[u]) \in Row BY <2>2 DEF Mild
  <2>4. row' = [row EXCEPT ![u] = Revoked(row[u])] \/ row' = row BY <1>v DEF RevokeAll
  <2>5. RowMoved BY <2>2, <2>3, <2>4, <1>5
  <2> QED BY <1>v, <2>1, <2>5, RowOnly DEF RevokeAll, trust
<1>i. CASE Reissue(r)
  <2>1. ReqMoved BY <1>i, EndMoves DEF Reissue
  <2>2. TokGrown /\ spent' = spent /\ expired' = expired
    <3>1. CASE u \in accounts
      <4>1. Mint(u, row[u], req[r].given, "code", 0) /\ UNCHANGED <<spent, expired>>
        BY <1>i, <3>1 DEF Reissue
      <4> QED BY <4>1, <1>1, <1>3, MintGrows
    <3>2. CASE u \notin accounts BY <1>i, <3>2 DEF Reissue, TokGrown
    <3> QED BY <3>1, <3>2
  <2> QED BY <1>i, <2>1, <2>2
    DEF Reissue, Shape, QuietPeople, RowMoved, Kept, PendingMoved, people, trust
<1>p. CASE ResetPassword(r)
  <2>1. ReqMoved BY <1>p, EndMoves DEF ResetPassword
  <2>2. Mild(row[u], Revoked(Rehashed(Cleared(row[u])))) BY <1>2, MildReset
  <2>3. Revoked(Rehashed(Cleared(row[u]))) \in Row BY <2>2 DEF Mild
  <2>4. row' = [row EXCEPT ![u] = Revoked(Rehashed(Cleared(row[u])))] \/ row' = row BY <1>p DEF ResetPassword
  <2>5. RowMoved BY <2>2, <2>3, <2>4, <1>5
  <2> QED BY <1>p, <2>1, <2>5, RowOnly DEF ResetPassword
<1>o. CASE RefreshRow(r)
  <2>1. req[r].at = "row" BY <1>o DEF RefreshRow
  <2>2. req[r].tok \in DOMAIN tok BY <2>1 DEF IInv, Typed
  <2>3. ReqMoved BY <1>o, <2>2, <1>6, EndMoves, GotoMoves DEF RefreshRow
  <2> QED BY <1>o, <2>3, NothingElse DEF RefreshRow, trust
<1>m. CASE RefreshClaim(r)
  <2> DEFINE i == req[r].tok
  <2>1. req[r].at = "claim" BY <1>m DEF RefreshClaim
  <2>2. i \in DOMAIN tok BY <2>1 DEF IInv, Typed
  <2>3. tok[i] \in Token /\ i \in Nat BY <2>2, TokenAt
  <2>4. ReqMoved BY <1>m, EndMoves DEF RefreshClaim
  <2>5. TokGrown /\ Kept
    <3>1. CASE i \notin spent
      <4>1. Mint(tok[i].user, tok[i], tok[i].given, tok[i].by, i)
            /\ spent' = spent \cup {i} /\ expired' = expired
        BY <1>m, <3>1 DEF RefreshClaim, Claims
      <4>2. /\ tok[i].user \in Users /\ tok[i].ver \in Nat /\ tok[i].pwd \in Nat
            /\ tok[i].given \in Nat /\ tok[i].by \in {"password", "code"}
        BY <2>3 DEF Token
      <4>3. tok[i].user \in spoiled \/ tok[i].ver <= row[tok[i].user].ver
        BY <2>2 DEF IInv, Behind
      <4>4. tok[i].by = "password" => tok[i].given = tok[i].pwd
        BY <2>2 DEF IInv, Vouched, ByPassword
      <4>5. TokGrown BY <4>1, <4>2, <4>3, <4>4, <3>1, <2>2, <2>3, MintGrows
      <4> QED BY <4>1, <4>5 DEF Kept
    <3>2. CASE i \in spent BY <1>m, <3>2 DEF RefreshClaim, Claims, TokGrown, Kept
    <3> QED BY <3>1, <3>2
  <2> QED BY <1>m, <2>4, <2>5
    DEF RefreshClaim, Shape, QuietPeople, RowMoved, PendingMoved, people, trust
<1>a. CASE SignOutAccess(r)
  <2>1. ReqMoved BY <1>a, EndMoves DEF SignOutAccess
  <2> QED BY <1>a, <2>1 
    DEF SignOutAccess, Shape, QuietPeople, RowMoved, TokGrown, Kept, PendingMoved, people, trust
<1>f. CASE ForgetDevices(r)
  <2>1. ReqMoved BY <1>f, EndMoves DEF ForgetDevices
  <2> QED BY <1>f, <2>1, NothingElse DEF ForgetDevices
<1> QED BY <1>c, <1>d, <1>t, <1>w, <1>g, <1>e, <1>s, <1>v, <1>i, <1>p, <1>o, <1>m, <1>a, <1>f DEF Step

-----------------------------------------------------------------------------
(* Time, pruning and crashes.                                              *)
LEMMA PassingShapes ==
  ASSUME IInv, Passing
  PROVE  Shape
<1>1. ASSUME NEW u \in Users, LockLapses(u)
      PROVE  Shape
  <2>1. row[u] \in Row BY DEF IInv, Typed
  <2>2. Mild(row[u], [row[u] EXCEPT !.lock = "lapsed"]) BY <2>1, MildOthers
  <2>3. [row[u] EXCEPT !.lock = "lapsed"] \in Row BY <2>2 DEF Mild
  <2>4. RowMoved BY <1>1, <2>2, <2>3 DEF LockLapses, RowMoved
  <2> QED BY <1>1, <2>4, RowOnly DEF LockLapses, ReqMoved, trust
<1>2. ASSUME NEW u \in Users, DayEnds(u)
      PROVE  Shape
  <2>1. row[u] \in Row BY DEF IInv, Typed
  <2>2. Mild(row[u], [row[u] EXCEPT !.codeDay = "past"]) BY <2>1, MildOthers
  <2>3. [row[u] EXCEPT !.codeDay = "past"] \in Row BY <2>2 DEF Mild
  <2>4. RowMoved BY <1>2, <2>2, <2>3 DEF DayEnds, RowMoved
  <2> QED BY <1>2, <2>4, RowOnly DEF DayEnds, ReqMoved, trust
<1>3. ASSUME NEW u \in Users, NEW p \in Purposes, CodeExpires(u, p)
      PROVE  Shape
  BY <1>3, NothingElse DEF CodeExpires, ReqMoved
<1>4. ASSUME NEW i \in DOMAIN tok, TokenExpires(i)
      PROVE  Shape
  BY <1>4 
  DEF TokenExpires, ReqMoved, Shape, QuietPeople, RowMoved, TokGrown, Kept, PendingMoved, people, trust
<1>5. CASE Prune
  BY <1>5
  DEF Prune, Prunable, ReqMoved, Shape, QuietPeople, RowMoved, TokGrown, Kept, PendingMoved, people, trust
<1>6. ASSUME NEW r \in Reqs, Crash(r)
      PROVE  Shape
  <2>1. ReqMoved BY <1>6, LaterIdle DEF Crash, ReqMoved
  <2>2. spoiled \subseteq spoiled' BY <1>6 DEF Crash
  <2> QED BY <1>6, <2>1, <2>2 
    DEF Crash, Shape, QuietPeople, RowMoved, TokGrown, Kept, PendingMoved, sessions, trust
<1> QED BY <1>1, <1>2, <1>3, <1>4, <1>5, <1>6 DEF Passing

-----------------------------------------------------------------------------
(* The admin's edits: the copy becomes the row, or the row goes.  If the   *)
(* copy was the row, an active admin who stops being one leaves another;   *)
(* if it was not, the account is spoiled.                                  *)
LEMMA EditedRow ==
  ASSUME NEW o \in Row, NEW e \in Edits
  PROVE  Edited(o, e) \in Row /\ Edited(o, e).ver = o.ver
BY DEF Edited, Row, Edits

LEMMA EditKeeps ==
  ASSUME IInv, NEW r \in Reqs, CommitEdit(r) \/ CommitDelete(r)
  PROVE  IInv'
<1> DEFINE u == req[r].user
           q == req[r]
<1>0. req[r] \in RequestType BY DEF IInv, Typed
<1>1. u \in Users /\ q.snap \in Row /\ q.edit \in Edits BY <1>0 DEF RequestType
<1>2. row \in [Users -> Row] /\ accounts \subseteq Users BY DEF IInv, Typed
<1>3. tok' = tok /\ spent' = spent /\ expired' = expired /\ End(r) /\ pending' = pending
  BY DEF CommitEdit, CommitDelete, sessions, trust
<1>4. req' = [req EXCEPT ![r] = Idle] BY <1>3 DEF End
<1>5. Idle \in RequestType /\ Later(Idle) BY LaterIdle
<1>6. \/ row' = row /\ accounts' = accounts /\ spoiled' = spoiled
      \/ /\ row' = row \/ row' = [row EXCEPT ![u] = Edited(q.snap, q.edit)]
         /\ accounts' \subseteq accounts \cup {u}
         /\ accounts \ {u} \subseteq accounts'
         /\ spoiled' = spoiled \/ spoiled' = spoiled \cup {u}
         /\ u \notin spoiled' => u \in accounts /\ row[u] = q.snap
         /\ StopsBeingAdmin(q) => AnotherAdmin(u)
         /\ \/ q.edit = "delete"
            \/ u \in accounts' /\ row' = [row EXCEPT ![u] = Edited(q.snap, q.edit)]
  BY DEF CommitEdit, CommitDelete, Spoils
<1>7. Edited(q.snap, q.edit) \in Row /\ Edited(q.snap, q.edit).ver = q.snap.ver BY <1>1, EditedRow
<1>8. Typed'
  <2>1. row' \in [Users -> Row] BY <1>2, <1>6, <1>7
  <2>2. accounts' \subseteq Users BY <1>1, <1>2, <1>6
  <2>3. req' \in [Reqs -> RequestType] BY <1>4, <1>5 DEF IInv, Typed
  <2>4. Idle.at = "idle" BY DEF Idle
  <2>5. ASSUME NEW s \in Reqs
        PROVE  /\ req'[s].at \in {"row", "claim", "access"} => req'[s].tok \in DOMAIN tok
               /\ req'[s].at \in {"code", "judge"} => req'[s].op \in Purposes
    BY <1>4, <2>4 DEF IInv, Typed
  <2> QED BY <1>3, <2>1, <2>2, <2>3, <2>5 DEF IInv, Typed
<1>9. \A v \in Users : v \in spoiled' \/ (v \notin spoiled /\ row'[v].ver = row[v].ver)
  BY <1>1, <1>2, <1>6, <1>7
<1>10. Behind'
  <2>1. ASSUME NEW s \in Reqs
        PROVE  req'[s].user \in spoiled' \/ req'[s].snap.ver <= row'[req'[s].user].ver
    <3>1. req'[s] \in RequestType BY <1>8 DEF Typed
    <3>2. req'[s].user \in Users BY <3>1 DEF RequestType
    <3>3. req'[s].user \in spoiled \/ req'[s].snap.ver <= row[req'[s].user].ver
      BY <1>4, <1>5 DEF IInv, Typed, Behind, Later
    <3> QED BY <1>9, <3>2, <3>3
  <2>2. ASSUME NEW i \in DOMAIN tok
        PROVE  tok[i].user \in spoiled' \/ tok[i].ver <= row'[tok[i].user].ver
    <3>1. tok[i].user \in Users BY TokenAt
    <3> QED BY <1>9, <3>1 DEF IInv, Behind
  <2> QED BY <1>3, <2>1, <2>2 DEF Behind
<1>11. Rotated' /\ OneSuccessor' BY <1>3 DEF IInv, Rotated, OneSuccessor
<1>13. Vouched'
  <2>1. \A i \in DOMAIN tok' : ByPassword(tok'[i]) BY <1>3 DEF IInv, Vouched
  <2>2. \A s \in Reqs : OnItsRow(req'[s]) BY <1>4, <1>5 DEF IInv, Typed, Vouched, Later
  <2> QED BY <2>1, <2>2 DEF Vouched, ByPassword, OnItsRow
<1>12. AdminRemains'
  <2> SUFFICES ASSUME spoiled' = {} PROVE SomeAdmin' BY DEF AdminRemains
  <2>1. spoiled = {} BY <1>6
  <2>2. PICK a \in Users : IsActiveAdmin(a) BY <2>1 DEF IInv, AdminRemains, SomeAdmin
  <2>3. CASE row' = row /\ accounts' = accounts
    BY <2>2, <2>3 DEF SomeAdmin, IsActiveAdmin
  <2>4. CASE ~(row' = row /\ accounts' = accounts)
    <3>1. u \in accounts /\ row[u] = q.snap BY <1>6, <2>4
    <3>2. \A v \in Users \ {u} : IsActiveAdmin(v) => IsActiveAdmin(v)'
      BY <1>2, <1>6, <2>4 DEF IsActiveAdmin
    <3>3. CASE StopsBeingAdmin(q)
      <4>1. AnotherAdmin(u) BY <1>6, <2>4, <3>3
      <4> QED BY <4>1, <3>2 DEF AnotherAdmin, SomeAdmin
    <3>4. CASE ~StopsBeingAdmin(q) /\ a = u
      <4>1. WasAdmin(q.snap) BY <2>2, <3>1, <3>4 DEF WasAdmin, IsActiveAdmin
      <4>2. q.edit # "delete" /\ WasAdmin(Edited(q.snap, q.edit))
        BY <3>4, <4>1 DEF StopsBeingAdmin
      <4>3. u \in accounts' /\ row' = [row EXCEPT ![u] = Edited(q.snap, q.edit)]
        BY <1>6, <2>4, <4>2
      <4>4. row'[u] = Edited(q.snap, q.edit) BY <4>3, <1>1, <1>2
      <4> QED BY <1>1, <4>2, <4>3, <4>4 DEF WasAdmin, SomeAdmin, IsActiveAdmin
    <3>5. CASE a # u BY <2>2, <3>2, <3>5 DEF SomeAdmin
    <3> QED BY <3>3, <3>4, <3>5
  <2> QED BY <2>3, <2>4
<1> QED BY <1>8, <1>10, <1>11, <1>12, <1>13 DEF IInv

-----------------------------------------------------------------------------
LEMMA InitIInv == Init => IInv
<1> SUFFICES ASSUME Init PROVE IInv OBVIOUS
<1>1. FreshRow("admin") \in Row /\ FreshRow("user") \in Row
      /\ FreshRow("user").ver = 0 /\ FreshRow("admin").ver = 0
      /\ FreshRow("admin").role = "admin" /\ FreshRow("admin").active
      /\ FreshRow("user").role # "admin"
  BY FailsRange DEF FreshRow, Row
<1>2. row \in [Users -> Row] /\ \A u \in Users : row[u].ver = 0
  BY <1>1 DEF Init
<1>3. row[Owner].role = "admin" /\ row[Owner].active BY <1>1, AccessAssumption DEF Init
<1>4. Idle \in RequestType
  BY <1>1, AccessAssumption DEF Idle, RequestType, Ops, Ats, Edits
<1>5. Idle.at = "idle" /\ Idle.user = Owner /\ Idle.snap.ver = 0 BY <1>1 DEF Idle
<1> DEFINE t == [user |-> Holder, ver |-> 0, pwd |-> 0, given |-> 0, by |-> "password", from |-> 0]
<1>6. t \in Token /\ ByPassword(t) /\ t.from = 0 /\ t.ver = 0 /\ t.user = Holder /\ Holder \in Users
  BY AccessAssumption DEF Token, ByPassword
<1>7. tok = <<t>> BY DEF Init
<1> HIDE DEF t
<1>8. tok \in Seq(Token) /\ DOMAIN tok = {1} /\ tok[1] = t BY <1>6, <1>7
<1>9. Typed
  <2>1. pending \in [Users -> SignIns] BY DEF Init, SignIns
  <2> QED BY <1>2, <1>4, <1>5, <1>8, <2>1 DEF Init, Typed
<1>10. Behind BY <1>2, <1>5, <1>6, <1>8, AccessAssumption DEF Init, Behind
<1>11. Rotated /\ OneSuccessor BY <1>6, <1>8 DEF Rotated, OneSuccessor
<1>12. AdminRemains BY <1>3, AccessAssumption DEF Init, AdminRemains, SomeAdmin, IsActiveAdmin
<1>13. Vouched BY <1>5, <1>6, <1>8 DEF Init, Vouched, OnItsRow
<1> QED BY <1>9, <1>10, <1>11, <1>12, <1>13 DEF IInv

LEMMA NextIInv == IInv /\ [Next]_vars => IInv'
<1> SUFFICES ASSUME IInv, [Next]_vars PROVE IInv' OBVIOUS
<1>1. CASE Passing BY <1>1, PassingShapes, ShapeKeeps
<1>2. ASSUME NEW r \in Reqs, Start(r) PROVE IInv' BY <1>2, StartShapes, ShapeKeeps
<1>3. ASSUME NEW r \in Reqs, Step(r) PROVE IInv'
  <2>1. CASE CommitEdit(r) \/ CommitDelete(r) BY <2>1, EditKeeps
  <2>2. CASE ~CommitEdit(r) /\ ~CommitDelete(r) BY <1>3, <2>2, StepShapes, ShapeKeeps
  <2> QED BY <2>1, <2>2
<1>4. CASE UNCHANGED vars
  <2>1. Shape
    BY <1>4 DEF vars, Shape, QuietPeople, RowMoved, ReqMoved, TokGrown, Kept, PendingMoved
  <2> QED BY <2>1, ShapeKeeps
<1> QED BY <1>1, <1>2, <1>3, <1>4 DEF Next

(* However two tabs race to rotate one refresh token, and whatever signs   *)
(* out or is pruned meanwhile, at most one new token comes of it (the      *)
(* unique jti of claim_refresh_jti).                                       *)
THEOREM RotatedOnce == Spec => []OneSuccessor
<1>1. IInv => OneSuccessor BY DEF IInv
<1> QED BY <1>1, InitIInv, NextIInv, PTL DEF Spec

(* Whatever the admins do to each other at once, somebody can still sign   *)
(* in as one - as long as no edit acted on a copy older than the row       *)
(* (_assert_not_last_active_admin).                                        *)
THEOREM NeverWithoutAdmin == Spec => []AdminRemains
<1>1. IInv => AdminRemains BY DEF IInv
<1> QED BY <1>1, InitIInv, NextIInv, PTL DEF Spec

-----------------------------------------------------------------------------
(* What a step does to a token that no longer works.                       *)
LEMMA ShapeDead ==
  ASSUME IInv, Shape, NEW i \in DOMAIN tok, Dead(i)
  PROVE  tok[i].user \in spoiled' \/ ~RefreshWorks(i)'
<1> DEFINE u == tok[i].user
<1>1. tok[i] \in Token /\ u \in Users /\ tok[i].ver \in Nat BY TokenAt
<1>2. tok'[i] = tok[i] BY DEF Shape, TokGrown, IInv, Typed
<1>3. row'[u].ver >= row[u].ver BY <1>1, RowMovedFacts DEF Shape, IInv
<1>4. row[u].ver \in Nat /\ row'[u].ver \in Nat
  <2>1. row' \in [Users -> Row] BY RowMovedFacts DEF Shape, IInv
  <2>2. row[u] \in Row /\ row'[u] \in Row BY <1>1, <2>1 DEF IInv, Typed
  <2> QED BY <2>2 DEF Row
<1>5. spoiled \subseteq spoiled' /\ expired \subseteq expired' /\ spent \ spent' \subseteq expired
  BY DEF Shape, QuietPeople, Kept
<1>6. CASE i \in expired BY <1>5, <1>6 DEF RefreshWorks, Current
<1>7. CASE i \in spent BY <1>5, <1>7 DEF RefreshWorks, Current
<1>8. CASE tok[i].ver # row[u].ver
  <2>1. u \in spoiled \/ tok[i].ver <= row[u].ver BY DEF IInv, Behind
  <2>2. CASE u \in spoiled BY <2>2, <1>5
  <2>3. CASE tok[i].ver <= row[u].ver
    <3>1. tok[i].ver # row'[u].ver BY <2>3, <1>8, <1>1, <1>3, <1>4
    <3> QED BY <3>1, <1>2 DEF RefreshWorks, Current
  <2> QED BY <2>1, <2>2, <2>3
<1> QED BY <1>6, <1>7, <1>8 DEF Dead, RefreshWorks, Current

LEMMA EditDead ==
  ASSUME IInv, NEW r \in Reqs, CommitEdit(r) \/ CommitDelete(r),
         NEW i \in DOMAIN tok, Dead(i)
  PROVE  tok[i].user \in spoiled' \/ ~RefreshWorks(i)'
<1> DEFINE u == tok[i].user
           v == req[r].user
<1>1. u \in Users BY TokenAt
<1>2. tok' = tok /\ spent' = spent /\ expired' = expired BY DEF CommitEdit, CommitDelete, sessions
<1>3. req[r] \in RequestType BY DEF IInv, Typed
<1>4. v \in Users /\ req[r].snap \in Row /\ req[r].edit \in Edits BY <1>3 DEF RequestType
<1>5. Edited(req[r].snap, req[r].edit).ver = req[r].snap.ver BY <1>4, EditedRow
<1>6. row \in [Users -> Row] BY DEF IInv, Typed
<1>7. \/ row' = row
      \/ /\ row' = [row EXCEPT ![v] = Edited(req[r].snap, req[r].edit)]
         /\ v \in spoiled' \/ row[v] = req[r].snap
  BY DEF CommitEdit, CommitDelete, Spoils
<1>8. u \in spoiled' \/ row'[u].ver = row[u].ver BY <1>1, <1>4, <1>5, <1>6, <1>7
<1>9. i \in expired \/ i \in spent \/ tok[i].ver # row[u].ver BY DEF Dead, RefreshWorks, Current
<1> QED BY <1>2, <1>8, <1>9 DEF RefreshWorks, Current

(* A refresh token that stopped working - spent, signed out, expired or    *)
(* revoked by a new token_version - never works again, unless an edit of   *)
(* its account acted on an old copy (PTTokenRefreshSerializer.validate).   *)
THEOREM NoRevival == Spec => DeadStaysDead
<1>1. IInv /\ [Next]_vars =>
        [\A i \in DOMAIN tok : Dead(i) => tok[i].user \in spoiled' \/ ~RefreshWorks(i)']_vars
  <2> SUFFICES ASSUME IInv, Next, NEW i \in DOMAIN tok, Dead(i)
               PROVE  tok[i].user \in spoiled' \/ ~RefreshWorks(i)'
    OBVIOUS
  <2>1. CASE Passing BY <2>1, PassingShapes, ShapeDead
  <2>2. ASSUME NEW r \in Reqs, Start(r)
        PROVE  tok[i].user \in spoiled' \/ ~RefreshWorks(i)'
    BY <2>2, StartShapes, ShapeDead
  <2>3. ASSUME NEW r \in Reqs, Step(r)
        PROVE  tok[i].user \in spoiled' \/ ~RefreshWorks(i)'
    <3>1. CASE CommitEdit(r) \/ CommitDelete(r) BY <3>1, EditDead
    <3>2. CASE ~CommitEdit(r) /\ ~CommitDelete(r) BY <2>3, <3>2, StepShapes, ShapeDead
    <3> QED BY <3>1, <3>2
  <2> QED BY <2>1, <2>2, <2>3 DEF Next
<1> QED BY <1>1, InitIInv, NextIInv, PTL DEF Spec, DeadStaysDead

-----------------------------------------------------------------------------
(* Wrong passwords, wrong codes and old passwords.  Three more invariants, *)
(* each inductive beside IInv.                                             *)

(* No wrong password is lost, whatever becomes of the account's row.       *)
TallyInv == \A u \in Users \ spoiled : row[u].fails = wrong[u]

(* A code is judged by one request at a time; of the last tries of a day   *)
(* no more are under way than the limit leaves, and one beyond it.         *)
JudgedApart ==
    \A r, s \in Reqs : /\ req[r].at = "judge" /\ req[s].at = "judge"
                       /\ req[r].user = req[s].user /\ req[r].op = req[s].op
                       => r = s
SharedTries(u) ==
    /\ row[u].codeFails <= MaxDaily + 1
    /\ row[u].codeDay = "open" =>
         /\ CodeHeld(u, "login") \/ CodeHeld(u, "change") => row[u].codeFails <= MaxDaily
         /\ CodeHeld(u, "login") /\ CodeHeld(u, "change") => row[u].codeFails < MaxDaily
ResetTries(u) ==
    /\ resets[u] \in 0..MaxDaily
    /\ CodeHeld(u, "reset") => resets[u] < MaxDaily
TriesInv ==
    /\ JudgedApart
    /\ \A u \in Users : ResetTries(u) /\ (u \notin spoiled => SharedTries(u))

(* Whoever holds the account's present version - a token, or the copy a    *)
(* request will make one from - holds its present password, unless a new   *)
(* one is about to revoke them all.                                        *)
Paired(u, x) ==
    x.ver = row[u].ver /\ u \in accounts \ spoiled /\ ~Changing(u) => x.pwd = row[u].pwd
PairInv ==
    /\ \A i \in DOMAIN tok : Paired(tok[i].user, tok[i])
    /\ \A r \in Reqs : /\ req[r].at # "idle" => Paired(req[r].user, req[r].snap)
                       /\ req[r].at = "save" => req[r].op = "change"

Counts == resets \in [Users -> Nat] /\ wrong = [u \in Users |-> wrong[u]]

(* What a step does to the requests: none comes to judge a code (but by    *)
(* TakeCode), a copy stays or is made of the row as it is, and only a      *)
(* change saves a password.  Pending: no change is dropped half way.       *)
Judges == \A r \in Reqs :
    req'[r].at = "judge" => /\ req[r].at = "judge"
                            /\ req'[r].user = req[r].user /\ req'[r].op = req[r].op
Copies == \A r \in Reqs :
    req'[r].at # "idle" =>
      \/ req'[r].snap = row[req'[r].user] /\ row' = row
      \/ req[r].at # "idle" /\ req'[r].user = req[r].user /\ req'[r].snap = req[r].snap
Saves == \A r \in Reqs : req'[r].at = "save" => req'[r].op = "change"
Pending == \A u \in Users : Changing(u) => Changing(u)'

LEMMA ReqsSame ==
  ASSUME PairInv, req' = req
  PROVE  Judges /\ Copies /\ Saves /\ Pending
BY DEF Judges, Copies, Saves, Pending, PairInv, Changing

LEMMA ReqBegun ==
  ASSUME IInv, PairInv, NEW r \in Reqs, req[r].at = "idle", NEW q,
         req' = [req EXCEPT ![r] = q], row' = row,
         q.snap = row[q.user], q.at \notin {"judge", "save"}
  PROVE  Judges /\ Copies /\ Saves /\ Pending
<1>1. /\ req'[r] = q
      /\ \A s \in Reqs \ {r} : req'[s] = req[s]
  BY DEF IInv, Typed
<1> QED BY <1>1 DEF Judges, Copies, Saves, Pending, PairInv, Changing

LEMMA ReqEnded ==
  ASSUME IInv, PairInv, NEW r \in Reqs, req' = [req EXCEPT ![r] = Idle]
  PROVE  /\ Judges /\ Copies /\ Saves
         /\ ~(req[r].op = "change" /\ req[r].at = "revoke") => Pending
<1>1. /\ req'[r].at = "idle"
      /\ \A s \in Reqs \ {r} : req'[s] = req[s]
  BY DEF IInv, Typed, Idle
<1> QED BY <1>1 DEF Judges, Copies, Saves, Pending, PairInv, Changing

LEMMA ReqGone ==
  ASSUME IInv, PairInv, NEW r \in Reqs, req[r].at # "idle", NEW at, Goto(r, at),
         at = "save" => req[r].op = "change"
  PROVE  /\ Copies /\ Saves
         /\ at # "judge" => Judges
         /\ ~(req[r].op = "change" /\ req[r].at = "revoke") => Pending
<1>1. req[r] \in RequestType BY DEF IInv, Typed
<1>2. /\ req'[r] = [req[r] EXCEPT !.at = at]
      /\ \A s \in Reqs \ {r} : req'[s] = req[s]
  BY DEF IInv, Typed, Goto
<1>3. /\ req'[r].at = at /\ req'[r].user = req[r].user /\ req'[r].op = req[r].op
      /\ req'[r].snap = req[r].snap
  BY <1>1, <1>2 DEF RequestType
<1> QED BY <1>2, <1>3 DEF Judges, Copies, Saves, Pending, PairInv, Changing

LEMMA ReqSaved ==
  ASSUME IInv, PairInv, NEW r \in Reqs, req[r].at = "save", NEW g \in Nat,
         req' = [req EXCEPT ![r] = [req[r] EXCEPT !.at = "revoke", !.given = g]]
  PROVE  Judges /\ Copies /\ Saves /\ Pending
<1>1. req[r] \in RequestType BY DEF IInv, Typed
<1>2. /\ req'[r] = [req[r] EXCEPT !.at = "revoke", !.given = g]
      /\ \A s \in Reqs \ {r} : req'[s] = req[s]
  BY DEF IInv, Typed
<1>3. \A q \in RequestType :
        LET n == [q EXCEPT !.at = "revoke", !.given = g] IN
          n.at = "revoke" /\ n.user = q.user /\ n.op = q.op /\ n.snap = q.snap
  BY DEF RequestType
<1>4. /\ req'[r].at = "revoke" /\ req'[r].user = req[r].user /\ req'[r].op = req[r].op
      /\ req'[r].snap = req[r].snap
  BY <1>1, <1>2, <1>3
<1> QED BY <1>2, <1>4 DEF Judges, Copies, Saves, Pending, PairInv, Changing

-----------------------------------------------------------------------------
(* What the handlers do to the columns.                                    *)
LEMMA Columns ==
  ASSUME NEW o \in Row, NEW s
  PROVE  /\ \A n \in {FailedRow(o, s), Cleared(o), [o EXCEPT !.lock = "lapsed"]} :
              n.ver = o.ver /\ n.pwd = o.pwd /\ n.codeFails = o.codeFails /\ n.codeDay = o.codeDay
         /\ FailedRow(o, s).fails = IF o.fails + 1 >= MaxFails THEN 0 ELSE o.fails + 1
         /\ Cleared(o).fails = 0
         /\ [o EXCEPT !.lock = "lapsed"].fails = o.fails
<1>1. /\ FailedRow(o, s).ver = o.ver /\ FailedRow(o, s).pwd = o.pwd
      /\ FailedRow(o, s).codeFails = o.codeFails /\ FailedRow(o, s).codeDay = o.codeDay
      /\ FailedRow(o, s).fails = IF o.fails + 1 >= MaxFails THEN 0 ELSE o.fails + 1
  <2> DEFINE f == o.fails + 1
  <2>1. CASE f >= MaxFails
    BY <2>1 DEF FailedRow, Row
  <2>2. CASE ~(f >= MaxFails)
    <3>1. FailedRow(o, s) = [o EXCEPT !.fails = f] BY <2>2 DEF FailedRow
    <3>2. /\ FailedRow(o, s).ver = o.ver /\ FailedRow(o, s).pwd = o.pwd
          /\ FailedRow(o, s).codeFails = o.codeFails /\ FailedRow(o, s).codeDay = o.codeDay
          /\ FailedRow(o, s).fails = f
      <4> HIDE DEF f
      <4> QED BY <3>1 DEF Row
    <3> QED BY <2>2, <3>2
  <2> QED BY <2>1, <2>2
<1>2. /\ Cleared(o).ver = o.ver /\ Cleared(o).pwd = o.pwd /\ Cleared(o).fails = 0
      /\ Cleared(o).codeFails = o.codeFails /\ Cleared(o).codeDay = o.codeDay
  BY DEF Cleared, Row
<1>3. LET n == [o EXCEPT !.lock = "lapsed"] IN
      /\ n.ver = o.ver /\ n.pwd = o.pwd /\ n.codeFails = o.codeFails
      /\ n.codeDay = o.codeDay /\ n.fails = o.fails
  BY DEF Row
<1> QED BY <1>1, <1>2, <1>3

LEMMA CodeColumns ==
  ASSUME NEW o \in Row
  PROVE  /\ \A n \in {CountedCode(o), Believed(o), [o EXCEPT !.codeDay = "past"]} :
              n.ver = o.ver /\ n.pwd = o.pwd /\ n.fails = o.fails
         /\ CountedCode(o).codeDay = "open"
         /\ CountedCode(o).codeFails = IF o.codeDay = "open" THEN o.codeFails + 1 ELSE 1
         /\ Believed(o).codeFails = 0 /\ Believed(o).codeDay = "none"
         /\ [o EXCEPT !.codeDay = "past"].codeFails = o.codeFails
         /\ [o EXCEPT !.codeDay = "past"].codeDay = "past"
<1>1. /\ CountedCode(o).ver = o.ver /\ CountedCode(o).pwd = o.pwd /\ CountedCode(o).fails = o.fails
      /\ CountedCode(o).codeDay = "open"
      /\ CountedCode(o).codeFails = IF o.codeDay = "open" THEN o.codeFails + 1 ELSE 1
  <2> DEFINE c == o.codeFails + 1
  <2>1. CASE o.codeDay = "open"
    <3>1. CountedCode(o) = [o EXCEPT !.codeFails = c] BY <2>1 DEF CountedCode
    <3>2. /\ CountedCode(o).ver = o.ver /\ CountedCode(o).pwd = o.pwd
          /\ CountedCode(o).fails = o.fails /\ CountedCode(o).codeDay = o.codeDay
          /\ CountedCode(o).codeFails = c
      <4> HIDE DEF c
      <4> QED BY <3>1 DEF Row
    <3> QED BY <2>1, <3>2
  <2>2. CASE o.codeDay # "open"
    BY <2>2 DEF CountedCode, Row
  <2> QED BY <2>1, <2>2
<1>2. /\ Believed(o).ver = o.ver /\ Believed(o).pwd = o.pwd /\ Believed(o).fails = o.fails
      /\ Believed(o).codeFails = 0 /\ Believed(o).codeDay = "none"
  BY DEF Believed, Row
<1>3. LET n == [o EXCEPT !.codeDay = "past"] IN
      /\ n.ver = o.ver /\ n.pwd = o.pwd /\ n.fails = o.fails
      /\ n.codeFails = o.codeFails /\ n.codeDay = "past"
  BY DEF Row
<1> QED BY <1>1, <1>2, <1>3

LEMMA PasswordColumns ==
  ASSUME NEW o \in Row
  PROVE  /\ \A n \in {Rehashed(o), Revoked(o)} :
              n.fails = o.fails /\ n.codeFails = o.codeFails /\ n.codeDay = o.codeDay
         /\ Rehashed(o).ver = o.ver /\ Revoked(o).ver = o.ver + 1
         /\ Rehashed(o) \in Row /\ Revoked(o) \in Row
<1>0. o.ver \in Nat /\ o.pwd \in Nat BY DEF Row
<1>1. /\ Rehashed(o).fails = o.fails /\ Rehashed(o).codeFails = o.codeFails
      /\ Rehashed(o).codeDay = o.codeDay /\ Rehashed(o).ver = o.ver
  <2> DEFINE p == o.pwd + 1
  <2>1. Rehashed(o) = [o EXCEPT !.pwd = p] BY DEF Rehashed
  <2> HIDE DEF p
  <2> QED BY <2>1 DEF Row
<1>2. /\ Revoked(o).fails = o.fails /\ Revoked(o).codeFails = o.codeFails
      /\ Revoked(o).codeDay = o.codeDay /\ Revoked(o).ver = o.ver + 1
  <2> DEFINE v == o.ver + 1
  <2>1. Revoked(o) = [o EXCEPT !.ver = v] BY DEF Revoked
  <2>2. Revoked(o).fails = o.fails /\ Revoked(o).codeFails = o.codeFails
        /\ Revoked(o).codeDay = o.codeDay /\ Revoked(o).ver = v
    <3> HIDE DEF v
    <3> QED BY <2>1 DEF Row
  <2> QED BY <2>2
<1>3. Rehashed(o) \in Row /\ Revoked(o) \in Row BY MildOthers DEF Mild
<1> QED BY <1>1, <1>2, <1>3

LEMMA ResetColumns ==
  ASSUME NEW o \in Row
  PROVE  LET n == Revoked(Rehashed(Cleared(o))) IN
         /\ n.fails = 0 /\ n.codeFails = o.codeFails /\ n.codeDay = o.codeDay
         /\ n.ver = o.ver + 1
<1>1. Cleared(o) \in Row BY MildOthers DEF Mild
<1>2. Cleared(o).fails = 0 /\ Cleared(o).ver = o.ver
      /\ Cleared(o).codeFails = o.codeFails /\ Cleared(o).codeDay = o.codeDay
  BY Columns
<1> DEFINE c == Cleared(o)
<1> HIDE DEF c
<1>3. c \in Row /\ c.fails = 0 /\ c.ver = o.ver /\ c.codeFails = o.codeFails /\ c.codeDay = o.codeDay
  BY <1>1, <1>2 DEF c
<1>4. Rehashed(c) \in Row /\ Rehashed(c).fails = 0 /\ Rehashed(c).ver = o.ver
      /\ Rehashed(c).codeFails = o.codeFails /\ Rehashed(c).codeDay = o.codeDay
  BY <1>3, PasswordColumns
<1> DEFINE h == Rehashed(c)
<1> HIDE DEF h
<1>5. h \in Row /\ h.fails = 0 /\ h.ver = o.ver /\ h.codeFails = o.codeFails /\ h.codeDay = o.codeDay
  BY <1>4 DEF h
<1>6. Revoked(h).fails = 0 /\ Revoked(h).codeFails = o.codeFails /\ Revoked(h).codeDay = o.codeDay
      /\ Revoked(h).ver = o.ver + 1
  BY <1>5, PasswordColumns
<1> QED BY <1>6 DEF h, c

LEMMA EditedColumns ==
  ASSUME NEW o \in Row, NEW e \in Edits
  PROVE  LET n == Edited(o, e) IN
         /\ n.ver = o.ver /\ n.pwd = o.pwd /\ n.fails = o.fails
         /\ n.codeFails = o.codeFails /\ n.codeDay = o.codeDay
BY DEF Edited, Row, Edits

-----------------------------------------------------------------------------
(* What every step keeps: the count of wrong passwords, and the pairing of *)
(* versions with passwords - a row keeps both, moves on to a version no    *)
(* one holds, or has a new password whose change is still to revoke.       *)
Tallied == \A u \in Users : u \in spoiled' \/ (row[u].fails = wrong[u] => row'[u].fails = wrong'[u])

Settled == \A u \in Users :
    \/ u \in spoiled' \/ u \notin accounts' \/ Changing(u)'
    \/ /\ u \in accounts
       /\ \/ row'[u].ver > row[u].ver
          \/ row'[u].ver = row[u].ver /\ row'[u].pwd = row[u].pwd /\ ~Changing(u)

Minted == \A i \in DOMAIN tok' :
    \/ i \in DOMAIN tok /\ tok'[i] = tok[i]
    \/ row' = row /\ tok'[i].user \in Users /\ Paired(tok'[i].user, tok'[i])

Calm == Tallied /\ Settled /\ Minted /\ Copies /\ Saves

(* What most steps keep as well: the counts of wrong codes.                *)
CodesKept == \A u \in Users :
    \/ u \in spoiled'
    \/ row'[u].codeFails = row[u].codeFails /\ row'[u].codeDay \in {row[u].codeDay, "past"}
CodesCalm == Judges /\ CodesKept /\ resets' = resets

LEMMA CalmKeeps ==
  ASSUME IInv, IInv', TallyInv, PairInv, Calm, spoiled \subseteq spoiled'
  PROVE  TallyInv' /\ PairInv'
<1>1. TallyInv' BY DEF TallyInv, Calm, Tallied
<1>2. \A u \in Users : row[u].ver \in Nat /\ row'[u].ver \in Nat
  <2>1. \A u \in Users : row[u] \in Row /\ row'[u] \in Row BY DEF IInv, Typed
  <2> QED BY <2>1 DEF Row
<1>3. ASSUME NEW u \in Users, NEW x, Paired(u, x), x.ver \in Nat,
             u \in spoiled \/ x.ver <= row[u].ver
      PROVE  Paired(u, x)'
  <2> SUFFICES ASSUME x.ver = row'[u].ver, u \in accounts' \ spoiled', ~Changing(u)'
               PROVE  x.pwd = row'[u].pwd
    BY DEF Paired
  <2>1. x.ver <= row[u].ver BY <1>3
  <2>2. u \in accounts /\ row'[u].ver = row[u].ver /\ row'[u].pwd = row[u].pwd /\ ~Changing(u)
    BY <2>1, <1>2, <1>3 DEF Calm, Settled
  <2> QED BY <2>2, <1>3 DEF Paired
<1>4. ASSUME NEW i \in DOMAIN tok' PROVE Paired(tok[i].user, tok[i])'
  <2>1. CASE i \in DOMAIN tok /\ tok'[i] = tok[i]
    <3>1. tok[i].user \in Users /\ tok[i].ver \in Nat BY <2>1, TokenAt
    <3>2. Paired(tok[i].user, tok[i]) BY <2>1 DEF PairInv
    <3>3. tok[i].user \in spoiled \/ tok[i].ver <= row[tok[i].user].ver BY <2>1 DEF IInv, Behind
    <3>4. PICK x : x = tok[i] OBVIOUS
    <3>5. Paired(x.user, x)' BY <3>1, <3>2, <3>3, <3>4, <1>3
    <3> QED BY <3>4, <3>5, <2>1 DEF Paired
  <2>2. CASE row' = row /\ tok'[i].user \in Users /\ Paired(tok'[i].user, tok'[i])
    <3>1. PICK x : x = tok'[i] OBVIOUS
    <3>2. x.user \in Users /\ Paired(x.user, x) BY <2>2, <3>1
    <3>3. Paired(x.user, x)'
      <4> SUFFICES ASSUME x.ver = row'[x.user].ver, x.user \in accounts' \ spoiled', ~Changing(x.user)'
                   PROVE  x.pwd = row'[x.user].pwd
        BY DEF Paired
      <4>1. x.user \in accounts /\ ~Changing(x.user) BY <2>2, <3>2, <1>2 DEF Calm, Settled
      <4> QED BY <4>1, <2>2, <3>2 DEF Paired
    <3> QED BY <3>1, <3>3 DEF Paired
  <2> QED BY <2>1, <2>2 DEF Calm, Minted
<1>5. ASSUME NEW r \in Reqs, req'[r].at # "idle"
      PROVE  Paired(req[r].user, req[r].snap)'
  <2>1. CASE req'[r].snap = row[req'[r].user] /\ row' = row
    BY <2>1 DEF Paired
  <2>2. CASE req[r].at # "idle" /\ req'[r].user = req[r].user /\ req'[r].snap = req[r].snap
    <3>1. req[r] \in RequestType BY DEF IInv, Typed
    <3>2. req[r].user \in Users /\ req[r].snap.ver \in Nat BY <3>1 DEF RequestType, Row
    <3>3. req[r].user \in spoiled \/ req[r].snap.ver <= row[req[r].user].ver BY DEF IInv, Behind
    <3>4. Paired(req[r].user, req[r].snap) BY <2>2 DEF PairInv
    <3>5. PICK u, x : u = req[r].user /\ x = req[r].snap OBVIOUS
    <3>6. Paired(u, x)' BY <3>2, <3>3, <3>4, <3>5, <1>3
    <3> QED BY <3>5, <3>6, <2>2 DEF Paired
  <2> QED BY <2>1, <2>2, <1>5 DEF Calm, Copies
<1>6. PairInv' BY <1>4, <1>5 DEF PairInv, Calm, Saves
<1> QED BY <1>1, <1>6

LEMMA CodesKeep ==
  ASSUME IInv, TriesInv, CodesCalm, spoiled \subseteq spoiled'
  PROVE  TriesInv'
<1>1. \A u, p : CodeHeld(u, p)' => CodeHeld(u, p)
  BY DEF CodeHeld, CodesCalm, Judges
<1>2. JudgedApart' BY DEF TriesInv, JudgedApart, CodesCalm, Judges
<1>3. ASSUME NEW u \in Users PROVE ResetTries(u)'
  BY <1>1 DEF TriesInv, ResetTries, CodesCalm
<1>4. ASSUME NEW u \in Users, u \notin spoiled' PROVE SharedTries(u)'
  BY <1>1, <1>4 DEF TriesInv, SharedTries, CodesCalm, CodesKept
<1> QED BY <1>2, <1>3, <1>4 DEF TriesInv

-----------------------------------------------------------------------------
(* The facets of a step that leaves the people alone, of one that writes a *)
(* row, and of one that issues a token.                                    *)
LEMMA PeopleSame ==
  ASSUME IInv, UNCHANGED people, Pending
  PROVE  Tallied /\ Settled /\ CodesKept
<1>1. row' = row /\ accounts' = accounts /\ wrong' = wrong /\ spoiled' = spoiled BY DEF people
<1>2. accounts \subseteq Users BY DEF IInv, Typed
<1> QED BY <1>1, <1>2 DEF Tallied, Settled, CodesKept, Pending

LEMMA RowTallied ==
  ASSUME IInv, Counts, NEW u \in Users, NEW n, row' = [row EXCEPT ![u] = n],
         \/ wrong' = wrong /\ n.fails = row[u].fails
         \/ \E w : wrong' = [wrong EXCEPT ![u] = w] /\ (row[u].fails = wrong[u] => n.fails = w)
  PROVE  Tallied
<1>1. row'[u] = n /\ \A v \in Users \ {u} : row'[v] = row[v] BY DEF IInv, Typed
<1>2. DOMAIN wrong = Users BY DEF Counts
<1> QED BY <1>1, <1>2 DEF Tallied

LEMMA RowCodes ==
  ASSUME IInv, NEW u \in Users, NEW n, row' = [row EXCEPT ![u] = n],
         n.codeFails = row[u].codeFails, n.codeDay \in {row[u].codeDay, "past"}
  PROVE  CodesKept
<1>1. row'[u] = n /\ \A v \in Users \ {u} : row'[v] = row[v] BY DEF IInv, Typed
<1> QED BY <1>1 DEF CodesKept

LEMMA RowSettled ==
  ASSUME IInv, NEW u \in Users, NEW n, row' = [row EXCEPT ![u] = n],
         accounts' = accounts,
         \A v \in Users \ {u} : Changing(v) => Changing(v)',
         \/ u \notin accounts \/ n.ver > row[u].ver \/ Changing(u)'
         \/ n.ver = row[u].ver /\ n.pwd = row[u].pwd /\ (Changing(u) => Changing(u)')
  PROVE  Settled
<1>1. row'[u] = n /\ \A v \in Users \ {u} : row'[v] = row[v] BY DEF IInv, Typed
<1> QED BY <1>1 DEF Settled

LEMMA TokSame ==
  ASSUME tok' = tok
  PROVE  Minted
BY DEF Minted

LEMMA MintPairs ==
  ASSUME IInv, NEW u \in Users, NEW x, NEW g, NEW b, NEW i, Mint(u, x, g, b, i),
         Paired(u, x), row' = row
  PROVE  Minted
<1> DEFINE t == [user |-> u, ver |-> x.ver, pwd |-> x.pwd, given |-> g, by |-> b, from |-> i]
<1>1. tok' = Append(tok, t) BY DEF Mint, Claimed
<1>2. t.user = u /\ t.ver = x.ver /\ t.pwd = x.pwd OBVIOUS
<1>3. Paired(t.user, t) BY <1>2 DEF Paired
<1> HIDE DEF t
<1>4. tok \in Seq(Token) BY DEF IInv, Typed
<1>5. \A j \in DOMAIN tok' : (j \in DOMAIN tok /\ tok'[j] = tok[j]) \/ tok'[j] = t
  BY <1>1, <1>4
<1> QED BY <1>2, <1>3, <1>5 DEF Minted

(* A request that ends, or goes on, leaves the changes under way alone but *)
(* its own.                                                                *)
LEMMA OwnChange ==
  ASSUME IInv, NEW r \in Reqs, NEW q, req' = [req EXCEPT ![r] = q]
  PROVE  \A v \in Users \ {req[r].user} : Changing(v) => Changing(v)'
<1>1. \A s \in Reqs \ {r} : req'[s] = req[s] BY DEF IInv, Typed
<1> QED BY <1>1 DEF Changing

-----------------------------------------------------------------------------
(* The starts of requests.                                                 *)
LEMMA StartCalm ==
  ASSUME IInv, PairInv, Counts, NEW r \in Reqs, Start(r)
  PROVE  Calm /\ CodesCalm /\ spoiled \subseteq spoiled' /\ Counts'
<1> DEFINE Goal == Calm /\ CodesCalm /\ spoiled \subseteq spoiled' /\ Counts'
<1>q. ASSUME UNCHANGED people, UNCHANGED tok, UNCHANGED resets, Judges, Copies, Saves, Pending
      PROVE  Goal
  BY <1>q, PeopleSame, TokSame DEF Calm, CodesCalm, people, Counts
<1>b. ASSUME NEW q, Begin(r, q), row' = row,
             q.snap = row[q.user], q.at \notin {"judge", "save"}
      PROVE  Judges /\ Copies /\ Saves /\ Pending
  BY <1>b, ReqBegun DEF Begin
<1> HIDE DEF Goal
<1>1. ASSUME NEW u \in Users, NEW ok \in BOOLEAN, SignIn(r, u, ok)
      PROVE  Goal
  <2> DEFINE q == Request("sign_in", "password", u, ok, 0, "rename")
  <2>1. Begin(r, q) /\ row' = row BY <1>1 DEF SignIn, people
  <2>2. q.snap = row[q.user] /\ q.at \notin {"judge", "save"} BY DEF Request
  <2> HIDE DEF q
  <2>3. Judges /\ Copies /\ Saves /\ Pending BY <1>b, <2>1, <2>2
  <2> QED BY <1>1, <1>q, <2>3 DEF SignIn, sessions, trust
<1>2. ASSUME NEW u \in Users, NEW ok \in BOOLEAN, AskToChange(r, u, ok)
      PROVE  Goal
  <2>1. Judges /\ Copies /\ Saves /\ Pending BY <1>2, ReqsSame DEF AskToChange
  <2>2. CASE ok
    BY <1>2, <2>1, <2>2, <1>q DEF AskToChange, people, sessions
  <2>3. CASE ~ok
    <3> DEFINE n == FailedRow(row[u], row[u])
               w == IF wrong[u] + 1 >= MaxFails THEN 0 ELSE wrong[u] + 1
    <3>1. row[u] \in Row BY DEF IInv, Typed
    <3>2. row' = [row EXCEPT ![u] = n] /\ wrong' = [wrong EXCEPT ![u] = w]
      BY <1>2, <2>3 DEF AskToChange, RegisterFailed
    <3>3. /\ n.ver = row[u].ver /\ n.pwd = row[u].pwd
          /\ n.codeFails = row[u].codeFails /\ n.codeDay = row[u].codeDay
          /\ n.fails = IF row[u].fails + 1 >= MaxFails THEN 0 ELSE row[u].fails + 1
      BY <3>1, Columns
    <3>4. row[u].fails = wrong[u] => n.fails = w BY <3>3
    <3> HIDE DEF n, w
    <3>5. Tallied BY <3>2, <3>4, RowTallied
    <3>6. CodesKept BY <3>2, <3>3, RowCodes
    <3>7. accounts' = accounts /\ spoiled' = spoiled /\ tok' = tok /\ resets' = resets
      BY <1>2 DEF AskToChange, sessions
    <3>8. Settled BY <2>1, <3>2, <3>3, <3>7, RowSettled DEF Pending
    <3>9. Counts' BY <3>2, <3>7 DEF Counts
    <3> QED BY <2>1, <3>5, <3>6, <3>7, <3>8, <3>9, TokSame DEF Goal, Calm, CodesCalm
  <2> QED BY <2>2, <2>3
<1>3. ASSUME NEW u \in Users, AskToReset(r, u) \/ ForgetOneDevice(r, u)
      PROVE  Goal
  <2>1. Judges /\ Copies /\ Saves /\ Pending BY <1>3, ReqsSame DEF AskToReset, ForgetOneDevice
  <2> QED BY <1>3, <2>1, <1>q DEF AskToReset, ForgetOneDevice, sessions
<1>4. ASSUME NEW u \in Users, SignOutEverywhere(r, u)
      PROVE  Goal
  <2> DEFINE q == Request("everywhere", "revoke", u, FALSE, 0, "rename")
  <2>1. Begin(r, q) /\ row' = row BY <1>4 DEF SignOutEverywhere, people
  <2>2. q.snap = row[q.user] /\ q.at \notin {"judge", "save"} BY DEF Request
  <2> HIDE DEF q
  <2>3. Judges /\ Copies /\ Saves /\ Pending BY <1>b, <2>1, <2>2
  <2> QED BY <1>4, <1>q, <2>3 DEF SignOutEverywhere, sessions, trust
<1>5. ASSUME NEW u \in Users, NEW p \in Purposes, NEW ok \in BOOLEAN, EnterCode(r, u, p, ok)
      PROVE  Goal
  <2> DEFINE q == Request(p, "code", u, ok, 0, "rename")
  <2>1. Begin(r, q) /\ row' = row BY <1>5 DEF EnterCode, people
  <2>2. q.snap = row[q.user] /\ q.at \notin {"judge", "save"} BY DEF Request
  <2> HIDE DEF q
  <2>3. Judges /\ Copies /\ Saves /\ Pending BY <1>b, <2>1, <2>2
  <2> QED BY <1>5, <1>q, <2>3 DEF EnterCode, sessions, trust
<1>6. ASSUME NEW i \in DOMAIN tok, Refresh(r, i)
      PROVE  Goal
  <2> DEFINE q == Request("refresh", "row", tok[i].user, FALSE, i, "rename")
  <2>1. Begin(r, q) /\ row' = row BY <1>6 DEF Refresh, people
  <2>2. q.snap = row[q.user] /\ q.at \notin {"judge", "save"} BY DEF Request
  <2> HIDE DEF q
  <2>3. Judges /\ Copies /\ Saves /\ Pending BY <1>b, <2>1, <2>2
  <2> QED BY <1>6, <1>q, <2>3 DEF Refresh, sessions, trust
<1>7. ASSUME NEW i \in DOMAIN tok, SignOut(r, i)
      PROVE  Goal
  <2> DEFINE q == Request("sign_out", "access", tok[i].user, FALSE, i, "rename")
  <2>1. Begin(r, q) /\ row' = row BY <1>7 DEF SignOut, people
  <2>2. q.snap = row[q.user] /\ q.at \notin {"judge", "save"} BY DEF Request
  <2> HIDE DEF q
  <2>3. Judges /\ Copies /\ Saves /\ Pending BY <1>b, <2>1, <2>2
  <2> QED BY <1>7, <1>q, <2>3 DEF SignOut, trust
<1>8. ASSUME NEW u \in Users, NEW e \in Edits, EditUser(r, u, e)
      PROVE  Goal
  <2> DEFINE q == Request("edit", "commit", u, FALSE, 0, e)
  <2>1. Begin(r, q) /\ row' = row BY <1>8 DEF EditUser, people
  <2>2. q.snap = row[q.user] /\ q.at \notin {"judge", "save"} BY DEF Request
  <2> HIDE DEF q
  <2>3. Judges /\ Copies /\ Saves /\ Pending BY <1>b, <2>1, <2>2
  <2> QED BY <1>8, <1>q, <2>3 DEF EditUser, sessions, trust
<1>9. Goal BY <1>1, <1>2, <1>3, <1>4, <1>5, <1>6, <1>7, <1>8 DEF Start
<1> QED BY <1>9 DEF Goal

-----------------------------------------------------------------------------
(* The later steps of requests.                                            *)
LEMMA StepCalm ==
  ASSUME IInv, PairInv, Counts, NEW r \in Reqs, Step(r), ~CommitEdit(r), ~CommitDelete(r)
  PROVE  /\ Calm /\ spoiled \subseteq spoiled' /\ Counts'
         /\ TakeCode(r) \/ WrongCode(r) \/ RightCode(r) \/ CodesCalm
<1> DEFINE u == req[r].user
           Goal == /\ Calm /\ spoiled \subseteq spoiled' /\ Counts'
                   /\ TakeCode(r) \/ WrongCode(r) \/ RightCode(r) \/ CodesCalm
<1>0. req[r] \in RequestType BY DEF IInv, Typed
<1>1. u \in Users BY <1>0 DEF RequestType
<1>2. row[u] \in Row BY <1>1 DEF IInv, Typed
<1>q. ASSUME UNCHANGED people, UNCHANGED resets, Minted, Judges, Copies, Saves, Pending
      PROVE  Goal
  BY <1>q, PeopleSame DEF Calm, CodesCalm, people, Counts
<1>x. ASSUME Tallied, Settled, CodesKept, tok' = tok, spoiled' = spoiled, resets' = resets, Counts',
             Judges, Copies, Saves
      PROVE  Goal
  BY <1>x, TokSame DEF Calm, CodesCalm
<1>e. ASSUME End(r), ~(req[r].op = "change" /\ req[r].at = "revoke")
      PROVE  Judges /\ Copies /\ Saves /\ Pending
  BY <1>e, ReqEnded DEF End
<1>g. ASSUME NEW at, Goto(r, at), req[r].at # "idle", at \notin {"judge", "save"},
             ~(req[r].op = "change" /\ req[r].at = "revoke")
      PROVE  Judges /\ Copies /\ Saves /\ Pending
  BY <1>g, ReqGone
<1>p. ASSUME req[r].at # "idle" PROVE Paired(u, req[r].snap) BY <1>p DEF PairInv
<1> HIDE DEF Goal
<1> SUFFICES Goal BY DEF Goal
<1>c. CASE CheckPassword(r)
  <2>1. req[r].at = "password" BY <1>c DEF CheckPassword
  <2>2. Judges /\ Copies /\ Saves /\ Pending
    BY <1>c, <2>1, <1>e, <1>g DEF CheckPassword
  <2>3. tok' = tok /\ resets' = resets BY <1>c DEF CheckPassword, sessions, trust
  <2>4. CASE UNCHANGED people BY <2>2, <2>3, <2>4, <1>q, TokSame
  <2>5. ASSUME NEW n, NEW w, row' = [row EXCEPT ![u] = n], wrong' = [wrong EXCEPT ![u] = w],
               n.ver = row[u].ver, n.pwd = row[u].pwd,
               n.codeFails = row[u].codeFails, n.codeDay = row[u].codeDay,
               row[u].fails = wrong[u] => n.fails = w,
               accounts' = accounts, spoiled' = spoiled
        PROVE  Goal
    <3>1. Tallied BY <1>1, <2>5, RowTallied
    <3>2. CodesKept BY <1>1, <2>5, RowCodes
    <3>3. Settled BY <1>1, <2>2, <2>5, RowSettled DEF Pending
    <3>4. Counts' BY <2>3, <2>5 DEF Counts
    <3> QED BY <1>x, <2>2, <2>3, <2>5, <3>1, <3>2, <3>3, <3>4
  <2>6. CASE u \in accounts /\ ~req[r].ok
    <3> DEFINE n == FailedRow(row[u], req[r].snap)
               w == IF wrong[u] + 1 >= MaxFails THEN 0 ELSE wrong[u] + 1
    <3>1. row' = [row EXCEPT ![u] = n] /\ wrong' = [wrong EXCEPT ![u] = w]
          /\ accounts' = accounts /\ spoiled' = spoiled
      BY <1>c, <2>6 DEF CheckPassword, RegisterFailed
    <3>2. /\ n.ver = row[u].ver /\ n.pwd = row[u].pwd
          /\ n.codeFails = row[u].codeFails /\ n.codeDay = row[u].codeDay
          /\ n.fails = IF row[u].fails + 1 >= MaxFails THEN 0 ELSE row[u].fails + 1
      BY <1>2, Columns
    <3>3. row[u].fails = wrong[u] => n.fails = w BY <3>2
    <3> HIDE DEF n, w
    <3> QED BY <2>5, <3>1, <3>2, <3>3
  <2>7. CASE u \in accounts /\ req[r].ok
    <3> DEFINE n == Cleared(row[u])
    <3>1. \/ UNCHANGED people
          \/ /\ row' = [row EXCEPT ![u] = n] /\ wrong' = [wrong EXCEPT ![u] = 0]
             /\ accounts' = accounts /\ spoiled' = spoiled
      BY <1>c, <2>7 DEF CheckPassword, people
    <3>2. /\ n.ver = row[u].ver /\ n.pwd = row[u].pwd /\ n.fails = 0
          /\ n.codeFails = row[u].codeFails /\ n.codeDay = row[u].codeDay
      BY <1>2, Columns
    <3> HIDE DEF n
    <3> QED BY <2>4, <2>5, <3>1, <3>2
  <2>8. CASE u \notin accounts BY <1>c, <2>4, <2>8 DEF CheckPassword
  <2> QED BY <2>6, <2>7, <2>8
<1>d. CASE DeviceGate(r)
  <2>1. Judges /\ Copies /\ Saves /\ Pending BY <1>d, <1>e DEF DeviceGate
  <2>2. Minted
    BY <1>d, <1>1, <1>p, MintPairs, TokSame DEF DeviceGate, sessions, people
  <2> QED BY <1>d, <1>q, <2>1, <2>2 DEF DeviceGate, trust
<1>t. CASE TakeCode(r)
  <2>1. req[r].at = "code" BY <1>t DEF TakeCode
  <2>2. Copies /\ Saves /\ Pending
    <3>1. CASE End(r) BY <2>1, <3>1, <1>e
    <3>2. CASE Goto(r, "judge") BY <2>1, <3>2, ReqGone
    <3> QED BY <1>t, <3>1, <3>2 DEF TakeCode
  <2>3. UNCHANGED people /\ tok' = tok /\ resets' = resets BY <1>t DEF TakeCode, sessions
  <2>4. Tallied /\ Settled BY <2>2, <2>3, PeopleSame
  <2> QED BY <1>t, <2>2, <2>3, <2>4, TokSame DEF Goal, Calm, people, Counts
<1>w. CASE WrongCode(r)
  <2>1. Copies /\ Saves /\ Pending BY <1>w, <1>e DEF WrongCode
  <2>2. accounts' = accounts /\ wrong' = wrong /\ spoiled' = spoiled /\ tok' = tok
    BY <1>w DEF WrongCode, sessions
  <2>3. Counts'
    <3>1. resets' = resets \/ resets' = [resets EXCEPT ![u] = resets[u] + 1] BY <1>w DEF WrongCode
    <3> QED BY <1>1, <2>2, <3>1 DEF Counts
  <2>4. Tallied /\ Settled
    <3>1. CASE row' = row BY <2>1, <2>2, <3>1, PeopleSame DEF people
    <3> DEFINE n == CountedCode(row[u])
    <3>2. n.ver = row[u].ver /\ n.pwd = row[u].pwd /\ n.fails = row[u].fails BY <1>2, CodeColumns
    <3> HIDE DEF n
    <3>3. CASE row' = [row EXCEPT ![u] = n]
      BY <1>1, <2>1, <2>2, <3>2, <3>3, RowTallied, RowSettled DEF Pending
    <3> QED BY <1>w, <3>1, <3>3 DEF WrongCode, n
  <2> QED BY <1>w, <2>1, <2>2, <2>3, <2>4, TokSame DEF Goal, Calm
<1>h. CASE RightCode(r)
  <2>0. req[r].at = "judge" BY <1>h DEF RightCode
  <2>z. req[r].op \in Purposes BY <2>0 DEF IInv, Typed
  <2>1. Copies /\ Saves /\ Pending
    <3>1. Goto(r, AfterCode(req[r].op)) BY <1>h DEF RightCode
    <3>2. AfterCode(req[r].op) = "save" => req[r].op = "change" BY <2>z DEF AfterCode, Purposes
    <3> QED BY <2>0, <3>1, <3>2, ReqGone
  <2>2. accounts' = accounts /\ wrong' = wrong /\ spoiled' = spoiled /\ tok' = tok
    BY <1>h DEF RightCode, sessions
  <2>3. Counts'
    <3>1. resets' = resets \/ resets' = [resets EXCEPT ![u] = 0] BY <1>h DEF RightCode
    <3> QED BY <1>1, <2>2, <3>1 DEF Counts
  <2>4. Tallied /\ Settled
    <3>1. CASE row' = row BY <2>1, <2>2, <3>1, PeopleSame DEF people
    <3> DEFINE n == Believed(row[u])
    <3>2. n.ver = row[u].ver /\ n.pwd = row[u].pwd /\ n.fails = row[u].fails BY <1>2, CodeColumns
    <3> HIDE DEF n
    <3>3. CASE row' = [row EXCEPT ![u] = n]
      BY <1>1, <2>1, <2>2, <3>2, <3>3, RowTallied, RowSettled DEF Pending
    <3> QED BY <1>h, <3>1, <3>3 DEF RightCode, n
  <2> QED BY <1>h, <2>1, <2>2, <2>3, <2>4, TokSame DEF Goal, Calm
<1>k. CASE RegisterDevice(r)
  <2>1. Judges /\ Copies /\ Saves /\ Pending BY <1>k, <1>e DEF RegisterDevice
  <2>2. Minted BY <1>k, <1>1, <1>p, MintPairs, TokSame DEF RegisterDevice, people
  <2> QED BY <1>k, <1>q, <2>1, <2>2 DEF RegisterDevice
<1>s. CASE SavePassword(r)
  <2>0. req[r].at = "save" /\ accounts' = accounts /\ wrong' = wrong /\ spoiled' = spoiled
        /\ tok' = tok /\ resets' = resets
    BY <1>s DEF SavePassword, sessions, trust
  <2>1. CASE u \notin accounts
    <3>1. Judges /\ Copies /\ Saves /\ Pending BY <1>s, <2>0, <2>1, <1>e DEF SavePassword
    <3> QED BY <1>s, <1>q, <2>0, <2>1, <3>1, TokSame DEF SavePassword, people
  <2>2. CASE u \in accounts
    <3> DEFINE n == Rehashed(row[u])
    <3>p. PICK g \in Nat : req' = [req EXCEPT ![r] = [req[r] EXCEPT !.at = "revoke", !.given = g]]
      <4>1. row[u].pwd + 1 \in Nat BY <1>2 DEF Row
      <4> QED BY <4>1, <1>s, <2>2 DEF SavePassword
    <3>1. row' = [row EXCEPT ![u] = n] BY <1>s, <2>2 DEF SavePassword
    <3>2. n.fails = row[u].fails /\ n.codeFails = row[u].codeFails /\ n.codeDay = row[u].codeDay
      BY <1>2, PasswordColumns
    <3> HIDE DEF n
    <3>3. Judges /\ Copies /\ Saves /\ Pending BY <2>0, <3>p, ReqSaved
    <3>w. PICK w \in Users : w = u BY <1>1
    <3>4. Changing(w)'
      <4>1. req'[r] = [req[r] EXCEPT !.at = "revoke", !.given = g] BY <3>p DEF IInv, Typed
      <4>2. req'[r].user = w /\ req'[r].op = "change" /\ req'[r].at = "revoke"
        BY <1>0, <2>0, <3>w, <4>1 DEF RequestType, PairInv
      <4> QED BY <4>2 DEF Changing
    <3>5. Tallied BY <1>1, <2>0, <3>1, <3>2, RowTallied
    <3>6. CodesKept BY <1>1, <3>1, <3>2, RowCodes
    <3>7. Settled BY <2>0, <3>1, <3>3, <3>w, <3>4, RowSettled DEF Pending
    <3> QED BY <1>x, <2>0, <3>3, <3>5, <3>6, <3>7 DEF Counts
  <2> QED BY <2>1, <2>2
<1>v. CASE RevokeAll(r)
  <2>0. req[r].at = "revoke" /\ accounts' = accounts /\ wrong' = wrong /\ spoiled' = spoiled
        /\ tok' = tok /\ resets' = resets
    BY <1>v DEF RevokeAll, sessions, trust
  <2>g. PICK at \in {"reissue", "devices"} : Goto(r, at) BY <1>v DEF RevokeAll
  <2>1. Judges /\ Copies /\ Saves BY <2>0, <2>g, ReqGone
  <2>2. \A w \in Users \ {u} : Changing(w) => Changing(w)' BY <2>g, OwnChange DEF Goto
  <2>3. Counts' BY <2>0 DEF Counts
  <2>4. CASE u \notin accounts
    <3>1. row' = row BY <1>v, <2>4 DEF RevokeAll
    <3>2. Tallied /\ CodesKept BY <2>0, <3>1 DEF Tallied, CodesKept
    <3>3. Settled
      <4>1. \A w \in Users : w \in accounts' => w \in accounts /\ (Changing(w) => Changing(w)')
        BY <2>0, <2>2, <2>4
      <4>2. \A w \in Users : row'[w] = row[w] BY <3>1
      <4> QED BY <4>1, <4>2 DEF Settled
    <3> QED BY <1>x, <2>0, <2>1, <2>3, <3>2, <3>3
  <2>5. CASE u \in accounts
    <3> DEFINE n == Revoked(row[u])
    <3>1. row' = [row EXCEPT ![u] = n] BY <1>v, <2>5 DEF RevokeAll
    <3>2. n.fails = row[u].fails /\ n.codeFails = row[u].codeFails /\ n.codeDay = row[u].codeDay
          /\ n.ver = row[u].ver + 1
      BY <1>2, PasswordColumns
    <3>3. row[u].ver \in Nat BY <1>2 DEF Row
    <3> HIDE DEF n
    <3>4. n.ver > row[u].ver BY <3>2, <3>3
    <3>5. Tallied BY <1>1, <2>0, <3>1, <3>2, RowTallied
    <3>6. CodesKept BY <1>1, <3>1, <3>2, RowCodes
    <3>7. Settled BY <1>1, <2>0, <2>2, <3>1, <3>4, RowSettled
    <3> QED BY <1>x, <2>0, <2>1, <2>3, <3>5, <3>6, <3>7
  <2> QED BY <2>4, <2>5
<1>i. CASE Reissue(r)
  <2>1. Judges /\ Copies /\ Saves /\ Pending BY <1>i, <1>e DEF Reissue
  <2>2. Paired(u, row[u]) BY DEF Paired
  <2>3. Minted BY <1>i, <1>1, <2>2, MintPairs, TokSame DEF Reissue, people
  <2> QED BY <1>i, <1>q, <2>1, <2>3 DEF Reissue, trust
<1>n. CASE ResetPassword(r)
  <2>1. Judges /\ Copies /\ Saves /\ Pending BY <1>n, <1>e DEF ResetPassword
  <2>2. tok' = tok /\ resets' = resets /\ accounts' = accounts /\ spoiled' = spoiled
    BY <1>n DEF ResetPassword, sessions
  <2>3. CASE u \notin accounts
    BY <1>n, <1>q, <2>1, <2>2, <2>3, TokSame DEF ResetPassword, people
  <2>4. CASE u \in accounts
    <3> DEFINE n == Revoked(Rehashed(Cleared(row[u])))
    <3>1. row' = [row EXCEPT ![u] = n] /\ wrong' = [wrong EXCEPT ![u] = 0]
      BY <1>n, <2>4 DEF ResetPassword
    <3>2. n.fails = 0 /\ n.codeFails = row[u].codeFails /\ n.codeDay = row[u].codeDay
          /\ n.ver = row[u].ver + 1
      BY <1>2, ResetColumns
    <3>3. row[u].ver \in Nat BY <1>2 DEF Row
    <3> HIDE DEF n
    <3>4. n.ver > row[u].ver BY <3>2, <3>3
    <3>5. Tallied BY <1>1, <3>1, <3>2, RowTallied
    <3>6. CodesKept BY <1>1, <3>1, <3>2, RowCodes
    <3>7. Settled BY <1>1, <2>1, <2>2, <3>1, <3>4, RowSettled DEF Pending
    <3>8. Counts' BY <2>2, <3>1 DEF Counts
    <3> QED BY <1>x, <2>1, <2>2, <3>5, <3>6, <3>7, <3>8
  <2> QED BY <2>3, <2>4
<1>o. CASE RefreshRow(r)
  <2>1. req[r].at = "row" BY <1>o DEF RefreshRow
  <2>2. Judges /\ Copies /\ Saves /\ Pending BY <1>o, <2>1, <1>e, <1>g DEF RefreshRow
  <2> QED BY <1>o, <1>q, <2>2, TokSame DEF RefreshRow, sessions, trust
<1>m. CASE RefreshClaim(r)
  <2> DEFINE i == req[r].tok
  <2>1. req[r].at = "claim" BY <1>m DEF RefreshClaim
  <2>2. i \in DOMAIN tok BY <2>1 DEF IInv, Typed
  <2>3. tok[i].user \in Users /\ Paired(tok[i].user, tok[i]) BY <2>2, TokenAt DEF PairInv
  <2>4. Judges /\ Copies /\ Saves /\ Pending BY <1>m, <2>1, <1>e DEF RefreshClaim
  <2>5. Mint(tok[i].user, tok[i], tok[i].given, tok[i].by, i) \/ tok' = tok BY <1>m DEF RefreshClaim
  <2>6. row' = row BY <1>m DEF RefreshClaim, people
  <2>7. Minted BY <2>3, <2>5, <2>6, MintPairs, TokSame
  <2> QED BY <1>m, <1>q, <2>4, <2>7 DEF RefreshClaim, trust
<1>a. CASE SignOutAccess(r)
  <2>1. Judges /\ Copies /\ Saves /\ Pending BY <1>a, <1>e DEF SignOutAccess
  <2> QED BY <1>a, <1>q, <2>1, TokSame DEF SignOutAccess, trust
<1>f. CASE ForgetDevices(r)
  <2>1. Judges /\ Copies /\ Saves /\ Pending BY <1>f, <1>e DEF ForgetDevices
  <2> QED BY <1>f, <1>q, <2>1, TokSame DEF ForgetDevices, sessions
<1> QED
  BY <1>c, <1>d, <1>t, <1>w, <1>h, <1>k, <1>s, <1>v, <1>i, <1>n, <1>o, <1>m, <1>a, <1>f DEF Step

-----------------------------------------------------------------------------
(* The admin's edits: the copy still is the row, or the account is spoiled. *)
LEMMA EditCalm ==
  ASSUME IInv, PairInv, Counts, NEW r \in Reqs, CommitEdit(r) \/ CommitDelete(r)
  PROVE  Calm /\ CodesCalm /\ spoiled \subseteq spoiled' /\ Counts'
<1>0. req[r] \in RequestType BY DEF IInv, Typed
<1>1. PICK u \in Users, q \in {req[r]} : u = req[r].user /\ q = req[r]
  BY <1>0 DEF RequestType
<1>2. q.snap \in Row /\ q.edit \in Edits BY <1>0, <1>1 DEF RequestType
<1> DEFINE n == Edited(q.snap, q.edit)
<1>3. /\ n.ver = q.snap.ver /\ n.pwd = q.snap.pwd /\ n.fails = q.snap.fails
      /\ n.codeFails = q.snap.codeFails /\ n.codeDay = q.snap.codeDay
  BY <1>2, EditedColumns
<1>4. /\ tok' = tok /\ wrong' = wrong /\ resets' = resets /\ End(r)
      /\ \/ row' = row /\ accounts' = accounts /\ spoiled' = spoiled
         \/ /\ row' = row \/ row' = [row EXCEPT ![u] = n]
            /\ accounts' \subseteq accounts \cup {u}
            /\ spoiled \subseteq spoiled'
            /\ u \notin spoiled' => u \in accounts /\ row[u] = q.snap
  BY <1>1 DEF CommitEdit, CommitDelete, Spoils, sessions, trust
<1>5. req[r].at = "commit" BY DEF CommitEdit, CommitDelete
<1>6. Judges /\ Copies /\ Saves /\ Pending BY <1>4, <1>5, ReqEnded DEF End
<1> HIDE DEF n
<1>7. \A v \in Users : \/ v \in spoiled'
                       \/ /\ row'[v].ver = row[v].ver /\ row'[v].pwd = row[v].pwd
                          /\ row'[v].fails = row[v].fails
                          /\ row'[v].codeFails = row[v].codeFails
                          /\ row'[v].codeDay = row[v].codeDay
                          /\ v \in accounts' => v \in accounts
  <2>1. row \in [Users -> Row] BY DEF IInv, Typed
  <2>2. CASE row' = row /\ accounts' = accounts BY <2>2
  <2>3. CASE /\ row' = row \/ row' = [row EXCEPT ![u] = n]
             /\ accounts' \subseteq accounts \cup {u}
             /\ u \notin spoiled' => u \in accounts /\ row[u] = q.snap
    BY <1>3, <2>1, <2>3
  <2> QED BY <1>4, <2>2, <2>3
<1>8. Tallied /\ CodesKept BY <1>4, <1>7 DEF Tallied, CodesKept
<1>9. Settled BY <1>6, <1>7 DEF Settled, Pending
<1> QED BY <1>4, <1>6, <1>8, <1>9, TokSame DEF Calm, CodesCalm, Counts

(* Time, pruning and crashes.                                              *)
LEMMA PassingCalm ==
  ASSUME IInv, PairInv, Counts, Passing
  PROVE  Calm /\ CodesCalm /\ spoiled \subseteq spoiled' /\ Counts'
<1> DEFINE Goal == Calm /\ CodesCalm /\ spoiled \subseteq spoiled' /\ Counts'
<1>q. ASSUME UNCHANGED people, UNCHANGED tok, UNCHANGED resets, UNCHANGED req
      PROVE  Goal
  BY <1>q, ReqsSame, PeopleSame, TokSame DEF Calm, CodesCalm, people, Counts
<1>x. ASSUME Tallied, Settled, CodesKept, UNCHANGED <<tok, spoiled, resets, wrong, req>>
      PROVE  Goal
  BY <1>x, ReqsSame, TokSame DEF Calm, CodesCalm, Counts
<1> HIDE DEF Goal
<1>1. ASSUME NEW u \in Users, LockLapses(u)
      PROVE  Goal
  <2> DEFINE n == [row[u] EXCEPT !.lock = "lapsed"]
  <2>1. row[u] \in Row BY DEF IInv, Typed
  <2>2. /\ n.ver = row[u].ver /\ n.pwd = row[u].pwd /\ n.fails = row[u].fails
        /\ n.codeFails = row[u].codeFails /\ n.codeDay = row[u].codeDay
    BY <2>1 DEF Row
  <2>3. row' = [row EXCEPT ![u] = n] /\ accounts' = accounts
        /\ UNCHANGED <<tok, spoiled, resets, wrong, req>>
    BY <1>1 DEF LockLapses, sessions, trust
  <2>4. Pending BY <2>3, ReqsSame
  <2> HIDE DEF n
  <2>5. Tallied BY <2>2, <2>3, RowTallied
  <2>6. CodesKept BY <2>2, <2>3, RowCodes
  <2>7. Settled BY <2>2, <2>3, <2>4, RowSettled DEF Pending
  <2> QED BY <1>x, <2>3, <2>5, <2>6, <2>7
<1>2. ASSUME NEW u \in Users, DayEnds(u)
      PROVE  Goal
  <2> DEFINE n == [row[u] EXCEPT !.codeDay = "past"]
  <2>1. row[u] \in Row BY DEF IInv, Typed
  <2>2. /\ n.ver = row[u].ver /\ n.pwd = row[u].pwd /\ n.fails = row[u].fails
        /\ n.codeFails = row[u].codeFails /\ n.codeDay = "past"
    BY <2>1 DEF Row
  <2>3. row' = [row EXCEPT ![u] = n] /\ accounts' = accounts
        /\ UNCHANGED <<tok, spoiled, resets, wrong, req>>
    BY <1>2 DEF DayEnds, sessions, trust
  <2>4. Pending BY <2>3, ReqsSame
  <2> HIDE DEF n
  <2>5. Tallied BY <2>2, <2>3, RowTallied
  <2>6. CodesKept BY <2>2, <2>3, RowCodes
  <2>7. Settled BY <2>2, <2>3, <2>4, RowSettled DEF Pending
  <2> QED BY <1>x, <2>3, <2>5, <2>6, <2>7
<1>3. ASSUME NEW u \in Users, NEW p \in Purposes, CodeExpires(u, p)
      PROVE  Goal
  BY <1>3, <1>q DEF CodeExpires, sessions
<1>4. ASSUME NEW i \in DOMAIN tok, TokenExpires(i)
      PROVE  Goal
  BY <1>4, <1>q DEF TokenExpires, trust
<1>5. CASE Prune
  <2>1. Goal BY <1>5, <1>q DEF Prune, trust
  <2> QED BY <2>1 DEF Goal
<1>6. ASSUME NEW r \in Reqs, Crash(r)
      PROVE  Goal
  <2>1. /\ row' = row /\ accounts' = accounts /\ wrong' = wrong /\ tok' = tok /\ resets' = resets
        /\ req' = [req EXCEPT ![r] = Idle] /\ spoiled \subseteq spoiled'
        /\ req[r].op = "change" /\ req[r].at = "revoke" => req[r].user \in spoiled'
    BY <1>6 DEF Crash, sessions, trust
  <2>2. Judges /\ Copies /\ Saves BY <2>1, ReqEnded
  <2>3. Tallied /\ CodesKept BY <2>1 DEF Tallied, CodesKept
  <2>4. \A v \in Users : v \in spoiled' \/ (Changing(v) => Changing(v)')
    <3>1. CASE req[r].op = "change" /\ req[r].at = "revoke" BY <2>1, <3>1, OwnChange
    <3>2. CASE ~(req[r].op = "change" /\ req[r].at = "revoke")
      BY <2>1, <3>2, ReqEnded DEF Pending
    <3> QED BY <3>1, <3>2
  <2>5. Settled BY <2>1, <2>4 DEF Settled
  <2> QED BY <2>1, <2>2, <2>3, <2>5, TokSame DEF Goal, Calm, CodesCalm, Counts
<1> QED BY <1>1, <1>2, <1>3, <1>4, <1>5, <1>6 DEF Passing, Goal

(* Every step, then, and the stutter.                                      *)
LEMMA NextCalm ==
  ASSUME IInv, PairInv, Counts, [Next]_vars
  PROVE  /\ Calm /\ spoiled \subseteq spoiled' /\ Counts'
         /\ CodesCalm \/ \E r \in Reqs : TakeCode(r) \/ WrongCode(r) \/ RightCode(r)
<1>1. CASE Passing BY <1>1, PassingCalm
<1>2. ASSUME NEW r \in Reqs, Start(r)
      PROVE  Calm /\ CodesCalm /\ spoiled \subseteq spoiled' /\ Counts'
  BY <1>2, StartCalm
<1>3. ASSUME NEW r \in Reqs, Step(r)
      PROVE  /\ Calm /\ spoiled \subseteq spoiled' /\ Counts'
             /\ TakeCode(r) \/ WrongCode(r) \/ RightCode(r) \/ CodesCalm
  BY <1>3, EditCalm, StepCalm
<1>4. CASE UNCHANGED vars
  <2>1. UNCHANGED people /\ req' = req /\ tok' = tok /\ resets' = resets
    BY <1>4 DEF vars, people
  <2>2. Judges /\ Copies /\ Saves /\ Pending BY <2>1, ReqsSame
  <2>3. Tallied /\ Settled /\ CodesKept BY <2>1, <2>2, PeopleSame
  <2> QED BY <2>1, <2>2, <2>3, TokSame DEF Calm, CodesCalm, people, Counts
<1> QED BY <1>1, <1>2, <1>3, <1>4 DEF Next

-----------------------------------------------------------------------------
(* The three steps of verify_otp that count: a request comes to judge a    *)
(* code only below the limit, and leaves with one more try or none.        *)
LEMMA TryTaken ==
  ASSUME IInv, PairInv, TriesInv, NEW r \in Reqs, TakeCode(r)
  PROVE  TriesInv'
<1>1. row' = row /\ spoiled' = spoiled /\ resets' = resets BY DEF TakeCode, people
<1>2. CodesKept BY <1>1 DEF CodesKept
<1>3. CASE End(r)
  <2>1. Judges BY <1>3, ReqEnded DEF End
  <2> QED BY <1>1, <1>2, <2>1, CodesKeep DEF CodesCalm
<1>4. CASE ~End(r)
  <2>0. req[r] \in RequestType /\ req[r].at = "code" /\ req[r].op \in Purposes
    BY DEF IInv, Typed, TakeCode
  <2>1. PICK u, p : u = req[r].user /\ p = req[r].op OBVIOUS
  <2>2. Goto(r, "judge") /\ ~CodeHeld(u, p) /\ ~Exhausted(u, p) BY <1>4, <2>1 DEF TakeCode
  <2>3. /\ req'[r].at = "judge" /\ req'[r].user = u /\ req'[r].op = p
        /\ \A s \in Reqs \ {r} : req'[s] = req[s]
    <3>1. req'[r] = [req[r] EXCEPT !.at = "judge"] /\ \A s \in Reqs \ {r} : req'[s] = req[s]
      BY <2>2 DEF Goto, IInv, Typed
    <3> QED BY <2>0, <2>1, <3>1 DEF RequestType
  <2>4. \A v, x : CodeHeld(v, x)' => CodeHeld(v, x) \/ (v = u /\ x = p)
    BY <2>3 DEF CodeHeld
  <2>5. JudgedApart' BY <2>2, <2>3 DEF TriesInv, JudgedApart, CodeHeld
  <2>6. ASSUME NEW v \in Users PROVE ResetTries(v)'
    <3>1. resets[v] \in 0..MaxDaily /\ (CodeHeld(v, "reset") => resets[v] < MaxDaily)
      BY DEF TriesInv, ResetTries
    <3>2. MaxDaily \in Nat BY AccessAssumption
    <3>3. v = u /\ p = "reset" => resets[v] < MaxDaily
      BY <2>2, <3>1, <3>2 DEF Exhausted
    <3> QED BY <1>1, <2>4, <3>1, <3>3 DEF ResetTries
  <2>7. ASSUME NEW v \in Users, v \notin spoiled' PROVE SharedTries(v)'
    <3>1. SharedTries(v) BY <1>1, <2>7 DEF TriesInv
    <3>2. row[v].codeFails \in Nat /\ MaxDaily \in Nat
      <4>1. row[v] \in Row BY DEF IInv, Typed
      <4> QED BY <4>1, AccessAssumption DEF Row
    <3>3. CASE v = u /\ p # "reset"
      <4>1. row[v].codeDay = "open" => row[v].codeFails < MaxDaily
        BY <2>2, <3>2, <3>3 DEF Exhausted
      <4> QED BY <1>1, <3>1, <3>2, <4>1 DEF SharedTries
    <3>4. CASE ~(v = u /\ p # "reset")
      <4>1. \A x \in {"login", "change"} : CodeHeld(v, x)' => CodeHeld(v, x) BY <2>4, <3>4
      <4> QED BY <1>1, <3>1, <4>1 DEF SharedTries
    <3> QED BY <3>3, <3>4
  <2> QED BY <2>5, <2>6, <2>7 DEF TriesInv
<1> QED BY <1>3, <1>4

LEMMA TryLeaves ==
  ASSUME IInv, TriesInv, NEW r \in Reqs, req[r].at = "judge",
         NEW q, req' = [req EXCEPT ![r] = q], q.at # "judge"
  PROVE  /\ JudgedApart'
         /\ \A v, x : CodeHeld(v, x)' => CodeHeld(v, x) /\ ~(v = req[r].user /\ x = req[r].op)
<1>1. req'[r] = q /\ \A s \in Reqs \ {r} : req'[s] = req[s] BY DEF IInv, Typed
<1> QED BY <1>1 DEF TriesInv, JudgedApart, CodeHeld

LEMMA TryCounted ==
  ASSUME IInv, Counts, TriesInv, NEW r \in Reqs, WrongCode(r) \/ RightCode(r)
  PROVE  TriesInv'
<1>0. req[r] \in RequestType /\ req[r].at = "judge" /\ req[r].op \in Purposes
  BY DEF IInv, Typed, WrongCode, RightCode
<1>1. PICK u \in Users, p \in Purposes : u = req[r].user /\ p = req[r].op
  BY <1>0 DEF RequestType
<1>2. CodeHeld(u, p) BY <1>0, <1>1 DEF CodeHeld
<1>3. JudgedApart' /\ \A v, x : CodeHeld(v, x)' => CodeHeld(v, x) /\ ~(v = u /\ x = p)
  <2>1. CASE WrongCode(r)
    <3>1. req' = [req EXCEPT ![r] = Idle] /\ Idle.at # "judge" BY <2>1 DEF WrongCode, End, Idle
    <3> QED BY <1>0, <1>1, <3>1, TryLeaves
  <2>2. CASE RightCode(r)
    <3> DEFINE q == [req[r] EXCEPT !.at = AfterCode(p)]
    <3>1. req' = [req EXCEPT ![r] = q] BY <1>1, <2>2 DEF RightCode, Goto
    <3>2. q.at = AfterCode(p) BY <1>0 DEF RequestType
    <3>3. q.at # "judge" BY <3>2 DEF AfterCode, Purposes
    <3> HIDE DEF q
    <3> QED BY <1>0, <1>1, <3>1, <3>3, TryLeaves
  <2> QED BY <2>1, <2>2
<1>4. spoiled' = spoiled BY DEF WrongCode, RightCode
<1>5. MaxDaily \in Nat \ {0} BY AccessAssumption
<1>6. ASSUME NEW v \in Users PROVE ResetTries(v)'
  <2>1. resets[v] \in 0..MaxDaily /\ (CodeHeld(v, "reset") => resets[v] < MaxDaily)
    BY DEF TriesInv, ResetTries
  <2>2. CASE v = u /\ p = "reset"
    <3>1. resets' = [resets EXCEPT ![u] = resets[u] + 1] \/ resets' = [resets EXCEPT ![u] = 0]
      BY <1>1, <2>2 DEF WrongCode, RightCode
    <3>2. resets'[u] = resets[u] + 1 \/ resets'[u] = 0 BY <3>1 DEF Counts
    <3>3. resets'[u] \in 0..MaxDaily BY <1>2, <1>5, <2>1, <2>2, <3>2
    <3> QED BY <1>3, <2>2, <3>3 DEF ResetTries
  <2>3. CASE ~(v = u /\ p = "reset")
    <3>1. resets' = resets \/ (p = "reset" /\ \E n : resets' = [resets EXCEPT ![u] = n])
      BY <1>1 DEF WrongCode, RightCode
    <3>2. resets'[v] = resets[v] BY <2>3, <3>1 DEF Counts
    <3> QED BY <1>3, <2>1, <3>2 DEF ResetTries
  <2> QED BY <2>2, <2>3
<1>7. ASSUME NEW v \in Users, v \notin spoiled' PROVE SharedTries(v)'
  <2>1. SharedTries(v) BY <1>4, <1>7 DEF TriesInv
  <2>2. row[v] \in Row /\ row \in [Users -> Row] BY DEF IInv, Typed
  <2>3. row[v].codeFails \in Nat BY <2>2 DEF Row
  <2>4. CASE row'[v] = row[v] BY <1>3, <2>1, <2>4 DEF SharedTries
  <2>5. CASE row'[v] # row[v]
    <3>1. v = u /\ p \in {"login", "change"}
          /\ (row'[v] = CountedCode(row[v]) \/ row'[v] = Believed(row[v]))
      BY <1>1, <2>2, <2>5 DEF WrongCode, RightCode, Purposes
    <3>2. CASE row'[v] = Believed(row[v])
      <4>1. row'[v].codeFails = 0 /\ row'[v].codeDay = "none" BY <2>2, <3>2, CodeColumns
      <4> QED BY <1>5, <4>1 DEF SharedTries
    <3>3. CASE row'[v] = CountedCode(row[v])
      <4>1. /\ row'[v].codeFails = IF row[v].codeDay = "open" THEN row[v].codeFails + 1 ELSE 1
        BY <2>2, <3>3, CodeColumns
      <4>2. ~(CodeHeld(v, "login")' /\ CodeHeld(v, "change")') BY <1>3, <3>1
      <4>3. row[v].codeDay = "open" =>
              /\ row[v].codeFails <= MaxDaily
              /\ CodeHeld(v, "login")' \/ CodeHeld(v, "change")' => row[v].codeFails < MaxDaily
        BY <1>2, <1>3, <2>1, <3>1 DEF SharedTries
      <4>4. row'[v].codeFails <= MaxDaily + 1 BY <1>5, <2>3, <4>1, <4>3
      <4>5. CodeHeld(v, "login")' \/ CodeHeld(v, "change")' => row'[v].codeFails <= MaxDaily
        BY <1>5, <2>3, <4>1, <4>3
      <4> QED BY <4>2, <4>4, <4>5 DEF SharedTries
    <3> QED BY <3>1, <3>2, <3>3
  <2> QED BY <2>4, <2>5
<1> QED BY <1>3, <1>6, <1>7 DEF TriesInv

-----------------------------------------------------------------------------
LEMMA InitCounted == Init => TallyInv /\ TriesInv /\ PairInv /\ Counts
<1> SUFFICES ASSUME Init PROVE TallyInv /\ TriesInv /\ PairInv /\ Counts OBVIOUS
<1>1. \A u \in Users : /\ row[u].fails = 0 /\ row[u].codeFails = 0 /\ row[u].pwd = 0
                       /\ row[u].codeDay = "none"
  BY DEF Init, FreshRow
<1>2. \A r \in Reqs : req[r].at = "idle" BY DEF Init, Idle
<1>3. MaxDaily \in Nat \ {0} BY AccessAssumption
<1>4. resets = [u \in Users |-> 0] /\ wrong = [u \in Users |-> 0] BY DEF Init
<1>5. TallyInv /\ Counts BY <1>1, <1>4 DEF TallyInv, Counts
<1>6. TriesInv BY <1>1, <1>2, <1>3, <1>4 DEF TriesInv, JudgedApart, ResetTries, SharedTries, CodeHeld
<1>7. \A i \in DOMAIN tok : tok[i].pwd = 0 /\ tok[i].user \in Users
  BY AccessAssumption DEF Init
<1>8. PairInv BY <1>1, <1>2, <1>7 DEF PairInv, Paired
<1> QED BY <1>5, <1>6, <1>8

Inductive == IInv /\ TallyInv /\ TriesInv /\ PairInv /\ Counts

LEMMA NextInductive == Inductive /\ [Next]_vars => Inductive'
<1> SUFFICES ASSUME IInv, TallyInv, TriesInv, PairInv, Counts, [Next]_vars
             PROVE  Inductive'
  BY DEF Inductive
<1>1. IInv' BY NextIInv
<1>2. /\ Calm /\ spoiled \subseteq spoiled' /\ Counts'
      /\ CodesCalm \/ \E r \in Reqs : TakeCode(r) \/ WrongCode(r) \/ RightCode(r)
  BY NextCalm
<1>3. TallyInv' /\ PairInv' BY <1>1, <1>2, CalmKeeps
<1>4. TriesInv' BY <1>2, CodesKeep, TryTaken, TryCounted
<1> QED BY <1>1, <1>2, <1>3, <1>4 DEF Inductive

LEMMA AlwaysInductive == Spec => []Inductive
<1>1. Init => Inductive BY InitIInv, InitCounted DEF Inductive
<1> QED BY <1>1, NextInductive, PTL DEF Spec

(* No wrong password is lost to a concurrent one: the account's count is   *)
(* what was typed since the last success, reset or lock, so it locks at    *)
(* exactly the MaxFails-th (PTUserBackend._register_failed_attempt).       *)
THEOREM FailuresAllCounted == Spec => []EveryFailureCounted
<1>1. Inductive => EveryFailureCounted
  BY DEF Inductive, IInv, Typed, TallyInv, EveryFailureCounted
<1> QED BY <1>1, AlwaysInductive, PTL

(* Past the day's limit no code is tried any more, but for one last try    *)
(* that the other code's row lock let through (verify_otp).                *)
THEOREM TriesWithinLimit == Spec => []DailyTriesBounded
<1>1. Inductive => DailyTriesBounded
  <2> SUFFICES ASSUME Inductive, NEW u \in Users
               PROVE  resets[u] <= MaxDaily /\ (u \notin spoiled => row[u].codeFails <= MaxDaily + 1)
    BY DEF DailyTriesBounded
  <2>1. ResetTries(u) /\ (u \notin spoiled => SharedTries(u)) BY DEF Inductive, TriesInv
  <2>2. MaxDaily \in Nat BY AccessAssumption
  <2> QED BY <2>1, <2>2 DEF ResetTries, SharedTries
<1> QED BY <1>1, AlwaysInductive, PTL

(* Once a change or a reset has gone through, a session works only if the  *)
(* present password signed it in or an emailed code completed it on the    *)
(* account as it was after the change, whatever sign-ins, codes and        *)
(* refreshes had read before it (confirm_password_change,                  *)
(* confirm_password_reset, device_verify).                                 *)
THEOREM SessionsEndWithPassword == Spec => []NoSessionOutlivesPassword
<1>1. Inductive => NoSessionOutlivesPassword
  <2> SUFFICES ASSUME Inductive, NEW i \in DOMAIN tok, Current(i),
                      tok[i].user \notin spoiled, ~Changing(tok[i].user)
               PROVE  \/ tok[i].given = row[tok[i].user].pwd
                      \/ tok[i].by = "code" /\ tok[i].pwd = row[tok[i].user].pwd
    BY DEF NoSessionOutlivesPassword, AccessWorks, RefreshWorks
  <2>1. Paired(tok[i].user, tok[i]) BY DEF Inductive, PairInv
  <2>2. tok[i].pwd = row[tok[i].user].pwd BY <2>1 DEF Paired, Current
  <2>3. tok[i] \in Token /\ ByPassword(tok[i]) BY TokenAt DEF Inductive, IInv, Vouched
  <2> QED BY <2>2, <2>3 DEF Token, ByPassword
<1> QED BY <1>1, AlwaysInductive, PTL

=============================================================================
