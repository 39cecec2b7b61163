--------------------------- MODULE Server_proofs ----------------------------
(***************************************************************************)
(* Theorems about Server, for any number of users, vaults, rows, accounts, *)
(* codes and requests.  Of Sharing: the two rules that say who may use a   *)
(* vault agree, no membership is removed twice, and memberships move as    *)
(* Membership says.  Of Signup: an account is whole from the moment it     *)
(* exists, and an invite code is a ticket of Tickets.                      *)
(***************************************************************************)
EXTENDS Server, TLAPS, FiniteSetTheorems

(* The unique index on (vault_id, user_id).                                *)
OneRowPerPair ==
    \A m, n \in Present :
        row[m].vault = row[n].vault /\ row[m].user = row[n].user => m = n

(* An owner's row is active from the start and is its vault's creator's;   *)
(* a vault has memberships only once it exists.                            *)
RowInv ==
    /\ OneRowPerPair
    /\ \A m \in Present :
          /\ creator[row[m].vault] # None
          /\ row[m].role = "owner" =>
                 row[m].status = "active" /\ creator[row[m].vault] = row[m].user

(* Every vault that exists has its creator's row.                          *)
CreatorsOwn ==
    \A v \in Vaults : creator[v] # None => Owned(v, creator[v]) # {}

(* What a request knows.  One that is about to delete holds the row of a   *)
(* plain member, which is active as long as it is locked; a removal that   *)
(* is done has deleted its row.                                            *)
Known(q) ==
    /\ q.pc # "done" => q.out = "none"
    /\ q.pc \in {"begin", "insert", "lock", "count", "delete"} => q.user \in Users
    /\ q.op \in {"invite", "remove"} =>
          q.vault \in Vaults /\ q.target \in Users /\ creator[q.vault] # None
    /\ q.op \in {"accept", "decline"} => q.row \in Rows /\ row[q.row].status # "unused"
    /\ q.pc = "idle" => q = Idle
    /\ q.pc \in {"lock", "count", "delete", "done"} => q.op = "remove"
    /\ q.pc = "delete" =>
          q.row \in Active(q.vault, q.target) /\ row[q.row].role = "member"
    /\ q.pc = "done" => q.out = "ok" /\ q.row \in Rows /\ row[q.row].status = "deleted"

(* The locks of removeMember, and what became of the rows.                 *)
LockInv ==
    \A r, q \in Requests : r # q =>
        /\ req[r].pc \in {"count", "delete"} /\ req[q].pc \in {"count", "delete"}
               => req[r].row # req[q].row
        /\ req[r].pc = "done" /\ req[q].pc = "done" => req[r].row # req[q].row

IInv == TypeOK /\ RowInv /\ CreatorsOwn /\ (\A r \in Requests : Known(req[r])) /\ LockInv

-----------------------------------------------------------------------------
LEMMA InitInv == Init => IInv
<1> SUFFICES ASSUME Init  PROVE IInv
  OBVIOUS
<1>1. NoRow \in Row /\ Idle \in Request
  BY DEF NoRow, Row, Statuses, Idle, Request, Ops, Pcs, Outs
<1>2. Present = {} /\ Unused = Rows
  BY DEF Init, NoRow, Present, Unused
<1>3. TypeOK
  BY <1>1, <1>2 DEF Init, TypeOK
<1>4. RowInv /\ CreatorsOwn
  BY <1>2 DEF Init, RowInv, OneRowPerPair, CreatorsOwn
<1>5. \A r \in Requests : req[r] = Idle
  BY DEF Init
<1>6. Known(Idle)
  BY DEF Known, Idle
<1>7. LockInv
  BY <1>5 DEF LockInv, Idle
<1> QED BY <1>3, <1>4, <1>5, <1>6, <1>7 DEF IInv

-----------------------------------------------------------------------------
(* A step that writes no row: only its own request moves.                  *)
LEMMA RequestMoves ==
  ASSUME IInv, NEW r \in Requests, NEW q \in Request, req' = [req EXCEPT ![r] = q],
         UNCHANGED <<creator, row>>, secured' \subseteq Users,
         Known(q), q.pc # "done",
         q.pc \in {"count", "delete"} =>
             \A p \in Requests \ {r} : req[p].pc \in {"count", "delete"} => req[p].row # q.row
  PROVE  IInv'
<1>1. req' \in [Requests -> Request] /\ \A p \in Requests : req'[p] = IF p = r THEN q ELSE req[p]
  BY DEF IInv, TypeOK
<1>2. TypeOK'
  BY <1>1 DEF IInv, TypeOK, Unused
<1>3. RowInv' /\ CreatorsOwn'
  BY DEF IInv, RowInv, OneRowPerPair, CreatorsOwn, Present, Owned, Active, Of
<1>4. ASSUME NEW p \in Requests  PROVE Known(req[p])'
  <2>1. Known(req'[p])
    BY <1>1 DEF IInv
  <2> QED BY <2>1 DEF Known, Active, Of, Present
<1>5. LockInv'
  BY <1>1 DEF IInv, LockInv
<1> QED BY <1>2, <1>3, <1>4, <1>5 DEF IInv

(* A request that ends without having removed anything.                    *)
LEMMA EndMoves ==
  ASSUME NEW r \in Requests, NEW out, End(r, out), req \in [Requests -> Request],
         out # "ok" \/ req[r].op # "remove"
  PROVE  req' = [req EXCEPT ![r] = Idle]
BY DEF End

(* A step that ends its request and writes one row: it inserts the row, or *)
(* answers one that is pending.                                            *)
WritesRow(r, m, x) ==
    /\ req' = [req EXCEPT ![r] = Idle]
    /\ row' = [row EXCEPT ![m] = x]
    /\ row[m].status \in {"unused", "pending"}
    /\ x.status \in {"pending", "active", "revoked"}
    /\ x.vault \in Vaults /\ x.user \in Users
    /\ \A n \in Present : row[n].vault = x.vault /\ row[n].user = x.user => n = m
    /\ UNCHANGED secured

(* The vault of the row has a creator, for good, who owns it.              *)
FoundsWith(x) ==
    /\ creator' \in [Vaults -> Users \cup {None}]
    /\ \A v \in Vaults : creator[v] # None => creator'[v] = creator[v]
    /\ creator'[x.vault] # None
    /\ x.role = "owner" => x.status = "active" /\ creator'[x.vault] = x.user
    /\ \A v \in Vaults : creator[v] = None /\ creator'[v] # None =>
           x.vault = v /\ x.user = creator'[v] /\ x.role = "owner"

LEMMA RowMoves ==
  ASSUME IInv, NEW r \in Requests, NEW m \in Rows, NEW x \in Row,
         WritesRow(r, m, x), FoundsWith(x)
  PROVE  IInv'
<1> USE DEF WritesRow, FoundsWith
<1>1. Idle \in Request /\ Known(Idle)
  BY DEF Idle, Request, Ops, Pcs, Outs, Known
<1>2. /\ req' \in [Requests -> Request]
      /\ \A p \in Requests : req'[p] = IF p = r THEN Idle ELSE req[p]
  BY <1>1 DEF IInv, TypeOK
<1>3. /\ row' \in [Rows -> Row]
      /\ \A n \in Rows : row'[n] = IF n = m THEN x ELSE row[n]
  BY DEF IInv, TypeOK
<1>4. None \notin Users /\ None \notin Vaults
  BY NoneIsNobody
<1>5. TypeOK'
  BY <1>2, <1>3, <1>4 DEF IInv, TypeOK, Unused
<1>6. Present' = Present \cup {m} /\ Present' \subseteq Rows
  BY <1>3 DEF Present
<1>7. RowInv'
  <2>1. OneRowPerPair'
    BY <1>3, <1>6 DEF IInv, RowInv, OneRowPerPair
  <2>2. ASSUME NEW n \in Present'
        PROVE  /\ creator'[row'[n].vault] # None
               /\ row'[n].role = "owner" =>
                      row'[n].status = "active" /\ creator'[row'[n].vault] = row'[n].user
    <3>1. CASE n = m
      BY <1>3, <3>1
    <3>2. CASE n # m
      <4>1. n \in Present /\ row'[n] = row[n] /\ n \in Rows
        BY <1>3, <1>6, <3>2
      <4>2. row[n].vault \in Vaults
        BY <4>1 DEF IInv, TypeOK, Unused, Present, Row
      <4> QED BY <4>1, <4>2 DEF IInv, RowInv
    <3> QED BY <3>1, <3>2
  <2> QED BY <2>1, <2>2 DEF RowInv
<1>8. CreatorsOwn'
  <2> SUFFICES ASSUME NEW v \in Vaults, creator'[v] # None
               PROVE  \E n \in Rows : /\ row'[n].status = "active" /\ row'[n].role = "owner"
                                      /\ row'[n].vault = v /\ row'[n].user = creator'[v]
    BY DEF CreatorsOwn, Owned, Active, Of, Present
  <2>1. CASE creator[v] = None
    BY <1>3, <2>1
  <2>2. CASE creator[v] # None
    <3>1. PICK n \in Rows : /\ row[n].status = "active" /\ row[n].role = "owner"
                            /\ row[n].vault = v /\ row[n].user = creator[v]
      BY <2>2 DEF IInv, CreatorsOwn, Owned, Active, Of, Present
    <3> QED BY <1>3, <2>2, <3>1
  <2> QED BY <2>1, <2>2
<1>9. ASSUME NEW p \in Requests  PROVE Known(req[p])'
  <2>1. CASE p = r
    <3>1. req'[p] = Idle
      BY <1>2, <2>1
    <3> QED BY <3>1 DEF Known, Idle
  <2>2. CASE p # r
    <3>1. req'[p] = req[p] /\ Known(req[p]) /\ req[p] \in Request
      BY <1>2, <2>2 DEF IInv, TypeOK
    <3>2. req[p].op \in {"invite", "remove"} => creator'[req[p].vault] # None
      BY <3>1 DEF Known
    <3>3. req[p].op \in {"accept", "decline"} => row'[req[p].row].status # "unused"
      BY <1>3, <3>1 DEF Known
    <3>4. req[p].pc = "done" => row'[req[p].row].status = "deleted"
      BY <1>3, <3>1 DEF Known
    <3>5. req[p].pc = "delete" => /\ req[p].row \in Active(req[p].vault, req[p].target)'
                                  /\ row'[req[p].row].role = "member"
      BY <1>3, <3>1 DEF Known, Active, Of, Present
    <3> QED BY <3>1, <3>2, <3>3, <3>4, <3>5 DEF Known
  <2> QED BY <2>1, <2>2
<1>10. LockInv'
  BY <1>2 DEF IInv, LockInv, Idle
<1> QED BY <1>5, <1>7, <1>8, <1>9, <1>10 DEF IInv

LEMMA CreateVaultKeeps ==
  ASSUME IInv, NEW r \in Requests, CreateVault(r)
  PROVE  IInv'
<1>1. PICK v \in Vaults, m \in Unused :
          /\ creator[v] = None
          /\ creator' = [creator EXCEPT ![v] = req[r].user]
          /\ row' = [row EXCEPT ![m] = [vault |-> v, user |-> req[r].user,
                                        role |-> "owner", status |-> "active"]]
  BY DEF CreateVault
<1> DEFINE x == [vault |-> v, user |-> req[r].user, role |-> "owner", status |-> "active"]
<1>2. req[r].user \in Users
  BY DEF CreateVault, IInv, Known
<1>3. x \in Row
  BY <1>2 DEF Row, Statuses
<1>4. /\ creator' \in [Vaults -> Users \cup {None}]
      /\ \A w \in Vaults : creator'[w] = IF w = v THEN req[r].user ELSE creator[w]
  BY <1>1, <1>2 DEF IInv, TypeOK
<1>5. req' = [req EXCEPT ![r] = Idle]
  BY EndMoves DEF CreateVault, IInv, TypeOK
<1>6. \A n \in Present : row[n].vault # v
  BY <1>1 DEF IInv, RowInv
<1>7. m \in Rows /\ row[m].status = "unused"
  BY DEF Unused
<1>8. None \notin Users
  BY NoneIsNobody
<1>9. /\ x.vault = v /\ x.user = req[r].user /\ x.role = "owner" /\ x.status = "active"
      /\ row' = [row EXCEPT ![m] = x]
  BY <1>1
<1> HIDE DEF x
<1>10. WritesRow(r, m, x)
  BY <1>2, <1>5, <1>6, <1>7, <1>9 DEF WritesRow, CreateVault
<1>11. FoundsWith(x)
  BY <1>1, <1>2, <1>4, <1>8, <1>9 DEF FoundsWith
<1> QED BY <1>3, <1>7, <1>10, <1>11, RowMoves

LEMMA InsertInviteKeeps ==
  ASSUME IInv, NEW r \in Requests, InsertInvite(r)
  PROVE  IInv'
<1>1. req' = [req EXCEPT ![r] = Idle]
  BY EndMoves DEF InsertInvite, IInv, TypeOK
<1>2. Idle \in Request /\ Known(Idle) /\ Idle.pc = "idle"
  BY DEF Idle, Request, Ops, Pcs, Outs, Known
<1>3. CASE UNCHANGED row
  BY <1>1, <1>2, <1>3, RequestMoves DEF InsertInvite, IInv, TypeOK
<1>4. ASSUME Of(req[r].vault, req[r].target) = {}, NEW m \in Unused,
             row' = [row EXCEPT ![m] = [vault |-> req[r].vault, user |-> req[r].target,
                                        role |-> "member", status |-> "pending"]]
      PROVE  IInv'
  <2> DEFINE x == [vault |-> req[r].vault, user |-> req[r].target,
                   role |-> "member", status |-> "pending"]
  <2>1. req[r].vault \in Vaults /\ req[r].target \in Users /\ creator[req[r].vault] # None
    BY DEF InsertInvite, IInv, Known
  <2>2. x \in Row
    BY <2>1 DEF Row, Statuses
  <2>3. \A n \in Present : ~ (row[n].vault = req[r].vault /\ row[n].user = req[r].target)
    BY <1>4 DEF Of
  <2>4. m \in Rows /\ row[m].status = "unused"
    BY DEF Unused
  <2>5. /\ x.vault = req[r].vault /\ x.user = req[r].target
        /\ x.role = "member" /\ x.status = "pending"
        /\ row' = [row EXCEPT ![m] = x]
    BY <1>4
  <2>6. UNCHANGED <<creator, secured>> /\ creator \in [Vaults -> Users \cup {None}]
    BY DEF InsertInvite, IInv, TypeOK
  <2> HIDE DEF x
  <2>7. WritesRow(r, m, x)
    BY <1>1, <2>1, <2>3, <2>4, <2>5, <2>6 DEF WritesRow
  <2>8. FoundsWith(x)
    BY <2>1, <2>5, <2>6 DEF FoundsWith
  <2> QED BY <2>2, <2>4, <2>7, <2>8, RowMoves
<1> QED BY <1>3, <1>4 DEF InsertInvite

LEMMA AnswerKeeps ==
  ASSUME IInv, NEW r \in Requests, NEW op \in {"accept", "decline"},
         NEW status \in {"active", "revoked"}, Answer(r, op, status)
  PROVE  IInv'
<1>1. req' = [req EXCEPT ![r] = Idle]
  BY EndMoves DEF Answer, IInv, TypeOK
<1>2. Idle \in Request /\ Known(Idle) /\ Idle.pc = "idle"
  BY DEF Idle, Request, Ops, Pcs, Outs, Known
<1>3. CASE UNCHANGED row
  BY <1>1, <1>2, <1>3, RequestMoves DEF Answer, IInv, TypeOK
<1> DEFINE m == req[r].row
           x == [row[m] EXCEPT !.status = status]
<1>4. CASE row[m].status = "pending" /\ row' = [row EXCEPT ![m].status = status]
  <2>1. m \in Rows
    BY DEF Answer, IInv, Known
  <2>2. row[m] \in Row /\ m \in Present
    BY <1>4, <2>1 DEF IInv, TypeOK, Present
  <2>3. x \in Row /\ x.status = status /\ x.role = row[m].role
        /\ x.vault = row[m].vault /\ x.user = row[m].user
    BY <2>2 DEF Row, Statuses
  <2>4. row' = [row EXCEPT ![m] = x]
    BY <1>4, <2>1 DEF IInv, TypeOK
  <2>5. row[m].vault \in Vaults /\ row[m].user \in Users /\ row[m].role # "owner"
        /\ creator[row[m].vault] # None
    BY <1>4, <2>1, <2>2 DEF IInv, TypeOK, RowInv, Unused, Row
  <2>6. UNCHANGED <<creator, secured>> /\ creator \in [Vaults -> Users \cup {None}]
    BY DEF Answer, IInv, TypeOK
  <2>7. \A n \in Present : row[n].vault = row[m].vault /\ row[n].user = row[m].user => n = m
    BY <2>2 DEF IInv, RowInv, OneRowPerPair
  <2> HIDE DEF m, x
  <2>8. WritesRow(r, m, x)
    BY <1>1, <1>4, <2>3, <2>4, <2>5, <2>6, <2>7 DEF WritesRow
  <2>9. FoundsWith(x)
    BY <2>3, <2>5, <2>6 DEF FoundsWith
  <2> QED BY <2>1, <2>3, <2>8, <2>9, RowMoves
<1> QED BY <1>3, <1>4 DEF Answer

-----------------------------------------------------------------------------
(* The steps of a request that write no row.                               *)
LEMMA EndKeeps ==
  ASSUME IInv, NEW r \in Requests, NEW out \in Outs \ {"ok"}, End(r, out),
         UNCHANGED <<creator, row, secured>>
  PROVE  IInv'
<1>1. Idle \in Request /\ Known(Idle) /\ Idle.pc = "idle"
  BY DEF Idle, Request, Ops, Pcs, Outs, Known
<1>2. req' = [req EXCEPT ![r] = Idle]
  BY EndMoves DEF IInv, TypeOK
<1> QED BY <1>1, <1>2, RequestMoves DEF IInv, TypeOK

LEMMA EnterKeeps ==
  ASSUME IInv, NEW r \in Requests, NEW u \in Users, NEW op \in Ops,
         NEW v \in Vaults \cup {None}, NEW w \in Users \cup {None}, NEW m \in Rows \cup {None},
         Enter(r, u, op, v, w, m),
         op \in {"invite", "remove"} => v \in Vaults /\ w \in Users /\ creator[v] # None,
         op \in {"accept", "decline"} => m \in Rows /\ row[m].status # "unused"
  PROVE  IInv'
<1> DEFINE q == [op |-> op, pc |-> "begin", user |-> u, vault |-> v,
                 target |-> w, row |-> m, out |-> "none"]
<1>1. req' = [req EXCEPT ![r] = q] /\ UNCHANGED <<creator, row, secured>>
  BY DEF Enter
<1>2. q \in Request /\ Known(q) /\ q.pc = "begin"
  BY DEF Request, Pcs, Outs, Known
<1> HIDE DEF q
<1> QED BY <1>1, <1>2, RequestMoves DEF IInv, TypeOK

LEMMA GoToKeeps ==
  ASSUME IInv, NEW r \in Requests, NEW pc \in {"insert", "lock"}, GoTo(r, pc),
         UNCHANGED <<creator, row, secured>>,
         req[r].pc = "begin", pc = "lock" => req[r].op = "remove"
  PROVE  IInv'
<1> DEFINE q == [req[r] EXCEPT !.pc = pc]
<1>1. req[r] \in Request /\ Known(req[r])
  BY DEF IInv, TypeOK
<1>2. req' = [req EXCEPT ![r] = q]
  BY DEF IInv, TypeOK, GoTo
<1>3. /\ q \in Request /\ q.pc = pc /\ q.op = req[r].op /\ q.user = req[r].user
      /\ q.vault = req[r].vault /\ q.target = req[r].target /\ q.row = req[r].row
      /\ q.out = req[r].out
  BY <1>1 DEF Request, Pcs
<1> HIDE DEF q
<1>4. Known(q)
  BY <1>1, <1>3 DEF Known
<1> QED BY <1>2, <1>3, <1>4, RequestMoves DEF IInv, TypeOK

(* A removal goes on only with a row that no other holds.                  *)
LEMMA LockTargetKeeps ==
  ASSUME IInv, NEW r \in Requests, LockTarget(r)
  PROVE  IInv'
<1>1. req[r] \in Request /\ Known(req[r]) /\ req[r].op = "remove" /\ req[r].pc = "lock"
  BY DEF IInv, TypeOK, LockTarget
<1>2. CASE End(r, "denied")
  BY <1>2, EndKeeps DEF LockTarget, Outs
<1>3. ASSUME NEW m \in Active(req[r].vault, req[r].target),
             \A p \in Requests : ~ Holds(p, m),
             req' = [req EXCEPT ![r].row = m,
                         ![r].pc = IF row[m].role = "owner" THEN "count" ELSE "delete"]
      PROVE  IInv'
  <2>1. m \in Rows /\ row[m] \in Row
    BY DEF Active, Of, Present, IInv, TypeOK
  <2> DEFINE pc == IF row[m].role = "owner" THEN "count" ELSE "delete"
             q == [req[r] EXCEPT !.row = m, !.pc = pc]
  <2>2. req' = [req EXCEPT ![r] = q]
    BY <1>3 DEF IInv, TypeOK
  <2>3. pc = "count" \/ (pc = "delete" /\ row[m].role = "member")
    BY <2>1 DEF Row
  <2> HIDE DEF pc
  <2>4. /\ q.pc = pc /\ q.op = "remove" /\ q.user = req[r].user
        /\ q.vault = req[r].vault /\ q.target = req[r].target /\ q.row = m
        /\ q.out = req[r].out /\ q \in Request
    BY <1>1, <2>1, <2>3 DEF Request, Pcs
  <2> HIDE DEF q
  <2>5. Known(q)
    BY <1>1, <1>3, <2>3, <2>4 DEF Known
  <2>6. \A p \in Requests \ {r} : req[p].pc \in {"count", "delete"} => req[p].row # q.row
    BY <1>3, <2>4 DEF Holds, IInv, Known
  <2>7. q.pc # "done" /\ UNCHANGED <<creator, row, secured>> /\ secured \subseteq Users
    BY <2>3, <2>4 DEF LockTarget, IInv, TypeOK
  <2> QED BY <2>2, <2>4, <2>5, <2>6, <2>7, RequestMoves
<1> QED BY <1>2, <1>3 DEF LockTarget

(* The row that the DELETE removes is the one that is locked, and the only *)
(* one; it is nobody's as an owner.                                        *)
LEMMA DeleteFacts ==
  ASSUME IInv, NEW r \in Requests, DeleteMember(r)
  PROVE  /\ req[r].row \in Rows /\ row[req[r].row].status = "active"
         /\ row[req[r].row].role = "member"
         /\ row[req[r].row].vault = req[r].vault /\ row[req[r].row].user = req[r].target
         /\ req[r].vault \in Vaults /\ req[r].target \in Users
         /\ row' \in [Rows -> Row]
         /\ \A m \in Rows : row'[m] = IF m = req[r].row
                                      THEN [row[m] EXCEPT !.status = "deleted"] ELSE row[m]
<1>1. /\ Known(req[r]) /\ req[r].op = "remove" /\ req[r].pc = "delete"
      /\ req[r].row \in Active(req[r].vault, req[r].target)
      /\ row[req[r].row].role = "member"
  BY DEF DeleteMember, IInv, Known
<1>2. \A m \in Active(req[r].vault, req[r].target) : m = req[r].row
  BY <1>1 DEF Active, Of, IInv, RowInv, OneRowPerPair
<1>3. \A m \in Rows : row'[m] = IF m = req[r].row
                                THEN [row[m] EXCEPT !.status = "deleted"] ELSE row[m]
  BY <1>1, <1>2 DEF DeleteMember
<1>4. \A m \in Rows : [row[m] EXCEPT !.status = "deleted"] \in Row
  BY DEF IInv, TypeOK, Row, Statuses
<1>5. row' \in [Rows -> Row]
  BY <1>3, <1>4 DEF IInv, TypeOK, DeleteMember
<1> QED BY <1>1, <1>3, <1>5 DEF Active, Of, Present, Known

LEMMA DeleteMemberKeeps ==
  ASSUME IInv, NEW r \in Requests, DeleteMember(r)
  PROVE  IInv'
<1> DEFINE m == req[r].row
           q == [req[r] EXCEPT !.pc = "done", !.out = "ok"]
<1>1. /\ m \in Rows /\ row[m].status = "active" /\ row[m].role = "member"
      /\ req[r].vault \in Vaults /\ req[r].target \in Users
      /\ row' \in [Rows -> Row]
      /\ \A n \in Rows : row'[n] = IF n = m THEN [row[n] EXCEPT !.status = "deleted"] ELSE row[n]
  BY DeleteFacts
<1>2. /\ row'[m].status = "deleted" /\ row'[m].vault = row[m].vault
      /\ row'[m].user = row[m].user
      /\ \A n \in Rows \ {m} : row'[n] = row[n]
  BY <1>1 DEF IInv, TypeOK, Row
<1>3. Known(req[r]) /\ req[r] \in Request /\ req[r].op = "remove" /\ req[r].pc = "delete"
  BY DEF DeleteMember, IInv, TypeOK
<1>4. req' = [req EXCEPT ![r] = q]
  BY <1>3 DEF DeleteMember, End, IInv, TypeOK
<1>5. /\ q \in Request /\ q.pc = "done" /\ q.op = "remove" /\ q.user = req[r].user
      /\ q.vault = req[r].vault /\ q.target = req[r].target /\ q.row = m /\ q.out = "ok"
  BY <1>3 DEF Request, Pcs, Outs
<1>6. /\ req' \in [Requests -> Request]
      /\ \A p \in Requests : req'[p] = IF p = r THEN q ELSE req[p]
  BY <1>4, <1>5 DEF IInv, TypeOK
<1> HIDE DEF m, q
<1>7. UNCHANGED <<creator, secured>>
  BY DEF DeleteMember
<1>8. TypeOK'
  BY <1>1, <1>2, <1>6, <1>7 DEF IInv, TypeOK, Unused
<1>9. Present' = Present \ {m}
  BY <1>1, <1>2 DEF Present
<1>10. RowInv'
  BY <1>2, <1>7, <1>9 DEF IInv, RowInv, OneRowPerPair, Present
<1>11. CreatorsOwn'
  <2> SUFFICES ASSUME NEW v \in Vaults, creator[v] # None
               PROVE  \E n \in Rows : /\ row'[n].status = "active" /\ row'[n].role = "owner"
                                      /\ row'[n].vault = v /\ row'[n].user = creator[v]
    BY <1>7 DEF CreatorsOwn, Owned, Active, Of, Present
  <2>1. PICK n \in Rows : /\ row[n].status = "active" /\ row[n].role = "owner"
                          /\ row[n].vault = v /\ row[n].user = creator[v]
    BY DEF IInv, CreatorsOwn, Owned, Active, Of, Present
  <2> QED BY <1>1, <1>2, <2>1
<1>12. ASSUME NEW p \in Requests  PROVE Known(req[p])'
  <2>1. CASE p = r
    <3>1. /\ req'[p].pc = "done" /\ req'[p].op = "remove" /\ req'[p].out = "ok"
          /\ req'[p].vault = req[r].vault /\ req'[p].target = req[r].target
          /\ req'[p].row = m
      BY <1>5, <1>6, <2>1
    <3>2. creator'[req[r].vault] # None
      BY <1>3, <1>7 DEF Known
    <3> QED BY <1>1, <1>2, <3>1, <3>2 DEF Known
  <2>2. CASE p # r
    <3>1. req'[p] = req[p] /\ Known(req[p]) /\ req[p] \in Request
      BY <1>6, <2>2 DEF IInv, TypeOK
    <3>2. req[p].op \in {"accept", "decline"} => row'[req[p].row].status # "unused"
      BY <1>1, <1>2, <3>1 DEF Known
    <3>3. req[p].pc = "done" => row'[req[p].row].status = "deleted"
      BY <1>1, <1>2, <3>1 DEF Known
    <3>4. req[p].pc = "delete" => req[p].row # m
      BY <1>3, <2>2 DEF IInv, LockInv, m
    <3>5. req[p].pc = "delete" => /\ req[p].row \in Active(req[p].vault, req[p].target)'
                                  /\ row'[req[p].row].role = "member"
      BY <1>2, <3>1, <3>4 DEF Known, Active, Of, Present
    <3> QED BY <1>7, <3>1, <3>2, <3>3, <3>5 DEF Known
  <2> QED BY <2>1, <2>2
<1>13. \A p \in Requests \ {r} : req[p].pc = "done" => req[p].row # m
  BY <1>1 DEF IInv, Known
<1>14. LockInv'
  BY <1>5, <1>6, <1>13 DEF IInv, LockInv
<1> QED BY <1>8, <1>10, <1>11, <1>12, <1>14 DEF IInv

-----------------------------------------------------------------------------
LEMMA NextInv == IInv /\ [Next]_vars => IInv'
<1> SUFFICES ASSUME IInv, [Next]_vars  PROVE IInv'
  OBVIOUS
<1>1. ASSUME NEW u \in Users, Secure(u) \/ Unsecure(u)  PROVE IInv'
  <2>1. UNCHANGED <<creator, row, req>> /\ secured' \subseteq Users
    BY <1>1 DEF Secure, Unsecure, IInv, TypeOK
  <2> QED BY <2>1
  DEF IInv, TypeOK, Unused, RowInv, OneRowPerPair, CreatorsOwn, Known, LockInv,
      Present, Owned, Active, Of
<1>2. ASSUME NEW r \in Requests, PostVault(r)  PROVE IInv'
  BY <1>2, EnterKeeps DEF PostVault, Ops
<1>3. ASSUME NEW r \in Requests, PostInvite(r)  PROVE IInv'
  BY <1>3, EnterKeeps DEF PostInvite, Founded, Ops
<1>4. ASSUME NEW r \in Requests, PostAccept(r) \/ PostDecline(r)  PROVE IInv'
  BY <1>4, EnterKeeps DEF PostAccept, PostDecline, Unused, Ops
<1>5. ASSUME NEW r \in Requests, DeleteFromVault(r)  PROVE IInv'
  BY <1>5, EnterKeeps DEF DeleteFromVault, Founded, Ops
<1>6. ASSUME NEW r \in Requests, CheckInviter(r) \/ CheckRemover(r)  PROVE IInv'
  BY <1>6, EndKeeps, GoToKeeps DEF CheckInviter, CheckRemover, Outs
<1>7. ASSUME NEW r \in Requests, AcceptInvite(r) \/ DeclineInvite(r)  PROVE IInv'
  BY <1>7, AnswerKeeps DEF AcceptInvite, DeclineInvite
<1>8. ASSUME NEW r \in Requests, CountOwners(r) \/ Die(r)  PROVE IInv'
  BY <1>8, EndKeeps DEF CountOwners, Die, Outs
<1>9. CASE UNCHANGED vars
  BY <1>9 DEF vars, IInv, TypeOK, Unused, RowInv, OneRowPerPair, CreatorsOwn, Known,
              LockInv, Present, Owned, Active, Of
<1> QED BY <1>1, <1>2, <1>3, <1>4, <1>5, <1>6, <1>7, <1>8, <1>9, CreateVaultKeeps,
           InsertInviteKeeps, LockTargetKeeps, DeleteMemberKeeps DEF Next

LEMMA Invariance == Spec => []IInv
<1> QED BY InitInv, NextInv, PTL DEF Spec

THEOREM TypeCorrect == Spec => []TypeOK
<1>1. IInv => TypeOK
  BY DEF IInv
<1> QED BY <1>1, Invariance, PTL

(* The vault's creator and the owner of record are the same user, at every *)
(* step of every request: the two access rules of the services agree.      *)
THEOREM AccessRulesAgree == Spec => []RulesAgree
<1>1. IInv => RulesAgree
  <2> SUFFICES ASSUME IInv, NEW v \in Vaults, NEW u \in Users
               PROVE  creator[v] = u <=> Owned(v, u) # {}
    BY DEF RulesAgree
  <2>1. creator[v] = u => Owned(v, u) # {}
    BY NoneIsNobody DEF IInv, CreatorsOwn
  <2>2. Owned(v, u) # {} => creator[v] = u
    BY DEF IInv, RowInv, Owned, Active, Of
  <2> QED BY <2>1, <2>2
<1> QED BY <1>1, Invariance, PTL

(* Two removals that answer 204 removed two memberships.                   *)
THEOREM RemovalsAreDistinct == Spec => []RemovedOnce
<1>1. IInv => RemovedOnce
  BY DEF IInv, RemovedOnce, Removals, Known, LockInv
<1> QED BY <1>1, Invariance, PTL

-----------------------------------------------------------------------------
(* Sharing implements Membership.  A user's standing at a vault is that of *)
(* the one row of the pair, if there is one.                               *)
LEMMA StandingIsTheRows ==
  ASSUME OneRowPerPair, NEW v, NEW u, NEW m \in Of(v, u)
  PROVE  StandingOf(v, u) = Standing(row[m])
<1>1. \A n \in Of(v, u) : n = m
  BY DEF Of, OneRowPerPair
<1>2. (CHOOSE n \in Of(v, u) : TRUE) = m
  BY <1>1
<1>3. Of(v, u) # {}
  OBVIOUS
<1> QED BY <1>2, <1>3 DEF StandingOf

(* The same of the next state.                                             *)
LEMMA StandingIsTheRowsNext ==
  ASSUME OneRowPerPair', NEW v, NEW u, NEW m \in Of(v, u)'
  PROVE  StandingOf(v, u)' = Standing(row'[m])
<1>1. \A n \in Of(v, u)' : n = m
  BY DEF Of, OneRowPerPair
<1>2. (CHOOSE n \in Of(v, u)' : TRUE) = m
  BY <1>1
<1>3. Of(v, u)' # {}
  OBVIOUS
<1> QED BY <1>2, <1>3 DEF StandingOf

(* A step that writes the row of one pair moves the standing of that pair. *)
LEMMA OneStandingMoves ==
  ASSUME NEW w \in Vaults, NEW t \in Users, NEW m \in Rows,
         \A n \in Rows \ {m} : row'[n] = row[n],
         m \in Present => row[m].vault = w /\ row[m].user = t,
         row'[m].vault = w, row'[m].user = t
  PROVE  MB!Become(w, t, StandingOf(w, t)')
<1>1. ASSUME NEW v \in Vaults, NEW u \in Users, v # w \/ u # t
      PROVE  StandingOf(v, u)' = StandingOf(v, u)
  <2>1. Of(v, u)' = Of(v, u) /\ \A n \in Of(v, u) : row'[n] = row[n]
    BY <1>1 DEF Of, Present
  <2>2. Of(v, u) # {} => (CHOOSE n \in Of(v, u) : TRUE) \in Of(v, u)
    OBVIOUS
  <2> QED BY <2>1, <2>2 DEF StandingOf, Standing
<1>2. standing' = [v \in Vaults |-> [u \in Users |-> StandingOf(v, u)']]
  BY DEF standing
<1> DEFINE a == StandingOf(w, t)'
           f == [v \in Vaults |-> [u \in Users |-> StandingOf(v, u)']]
<1>3. [standing[w] EXCEPT ![t] = a] = f[w]
  BY <1>1 DEF standing
<1>4. \A v \in Vaults \ {w} : standing[v] = f[v]
  BY <1>1 DEF standing
<1>5. [standing EXCEPT ![w][t] = a] = [standing EXCEPT ![w] = f[w]]
  BY <1>3
<1>6. DOMAIN standing = Vaults /\ standing = [v \in Vaults |-> standing[v]]
  BY DEF standing
<1>7. f = [v \in Vaults |-> f[v]]
  OBVIOUS
<1> HIDE DEF f
<1>8. [standing EXCEPT ![w] = f[w]] = f
  BY <1>4, <1>6, <1>7
<1> QED BY <1>2, <1>5, <1>8 DEF MB!Become, f

LEMMA CreateVaultRefines ==
  ASSUME IInv, IInv', NEW r \in Requests, CreateVault(r)
  PROVE  MB!Next
<1>1. PICK u \in Users : u = req[r].user
  BY DEF CreateVault, IInv, Known
<1>2. PICK v \in Vaults, m \in Unused :
          /\ creator[v] = None
          /\ row' = [row EXCEPT ![m] = [vault |-> v, user |-> u,
                                        role |-> "owner", status |-> "active"]]
  BY <1>1 DEF CreateVault
<1>3. m \in Rows /\ m \notin Present
  BY DEF Unused, Present
<1>4. /\ \A n \in Rows \ {m} : row'[n] = row[n]
      /\ row'[m].vault = v /\ row'[m].user = u
      /\ row'[m].role = "owner" /\ row'[m].status = "active"
  BY <1>2, <1>3 DEF IInv, TypeOK
<1>5. m \in Of(v, u)'
  BY <1>3, <1>4 DEF Of, Present
<1>6. StandingOf(v, u)' = "owner"
  BY <1>4, <1>5, StandingIsTheRowsNext DEF IInv, RowInv, Standing
<1>7. \A t \in Users : standing[v][t] = "none"
  <2>1. \A t \in Users : Of(v, t) = {}
    BY <1>2 DEF IInv, RowInv, Of
  <2> QED BY <2>1 DEF standing, StandingOf
<1>8. MB!Become(v, u, "owner")
  BY <1>3, <1>4, <1>6, OneStandingMoves
<1> QED BY <1>7, <1>8 DEF MB!Next, MB!Found

LEMMA InsertInviteRefines ==
  ASSUME IInv, IInv', NEW r \in Requests, InsertInvite(r), row' # row
  PROVE  MB!Next
<1>1. PICK v \in Vaults, u \in Users : v = req[r].vault /\ u = req[r].target /\ creator[v] # None
  BY DEF InsertInvite, IInv, Known
<1>2. Of(v, u) = {} /\ \E m \in Unused :
          row' = [row EXCEPT ![m] = [vault |-> v, user |-> u,
                                     role |-> "member", status |-> "pending"]]
  BY <1>1 DEF InsertInvite
<1>3. PICK m \in Unused :
          row' = [row EXCEPT ![m] = [vault |-> v, user |-> u,
                                     role |-> "member", status |-> "pending"]]
  BY <1>2
<1>4. m \in Rows /\ m \notin Present
  BY DEF Unused, Present
<1>5. /\ \A n \in Rows \ {m} : row'[n] = row[n]
      /\ row'[m].vault = v /\ row'[m].user = u
      /\ row'[m].role = "member" /\ row'[m].status = "pending"
  BY <1>3, <1>4 DEF IInv, TypeOK
<1>6. m \in Of(v, u)'
  BY <1>4, <1>5 DEF Of, Present
<1>7. StandingOf(v, u)' = "invited"
  BY <1>5, <1>6, StandingIsTheRowsNext DEF IInv, RowInv, Standing
<1>8. MB!Become(v, u, "invited")
  BY <1>4, <1>5, <1>7, OneStandingMoves
<1>9. standing[v][u] = "none"
  BY <1>2 DEF standing, StandingOf
<1>10. PICK by \in Users : by = creator[v]
  BY <1>1 DEF IInv, TypeOK
<1>11. PICK n \in Of(v, by) : row[n].role = "owner" /\ row[n].status = "active"
  BY <1>1, <1>10 DEF IInv, CreatorsOwn, Owned, Active
<1>12. standing[v][by] = "owner"
  BY <1>10, <1>11, StandingIsTheRows DEF IInv, RowInv, Standing, standing
<1> QED BY <1>8, <1>9, <1>12 DEF MB!Next, MB!Invite

LEMMA AnswerRefines ==
  ASSUME IInv, IInv', NEW r \in Requests, row' # row,
         AcceptInvite(r) \/ DeclineInvite(r)
  PROVE  MB!Next
<1>1. PICK op \in {"accept", "decline"}, status \in {"active", "revoked"} :
          /\ Answer(r, op, status)
          /\ op = "accept" <=> status = "active"
  BY DEF AcceptInvite, DeclineInvite
<1>2. PICK m \in Rows : m = req[r].row
  BY <1>1 DEF Answer, IInv, Known
<1>3. row[m].status = "pending" /\ row' = [row EXCEPT ![m].status = status]
  BY <1>1, <1>2 DEF Answer
<1>4. row[m] \in Row /\ row[m].vault \in Vaults /\ row[m].user \in Users /\ row[m].role = "member"
  BY <1>3 DEF IInv, TypeOK, RowInv, Unused, Present, Row
<1>5. PICK v \in Vaults, u \in Users : v = row[m].vault /\ u = row[m].user
  BY <1>4
<1>6. /\ \A n \in Rows \ {m} : row'[n] = row[n]
      /\ row'[m].vault = v /\ row'[m].user = u
      /\ row'[m].role = "member" /\ row'[m].status = status
  BY <1>3, <1>4, <1>5 DEF IInv, TypeOK, Row
<1>7. m \in Of(v, u) /\ m \in Of(v, u)'
  BY <1>3, <1>5, <1>6 DEF Of, Present
<1>8. standing[v][u] = "invited"
  BY <1>3, <1>7, StandingIsTheRows DEF IInv, RowInv, Standing, standing
<1>9. StandingOf(v, u)' = IF status = "active" THEN "member" ELSE "declined"
  BY <1>6, <1>7, StandingIsTheRowsNext DEF IInv, RowInv, Standing
<1>10. MB!Become(v, u, StandingOf(v, u)')
  BY <1>5, <1>6, OneStandingMoves
<1> QED BY <1>8, <1>9, <1>10 DEF MB!Next, MB!Accept, MB!Decline

LEMMA DeleteMemberRefines ==
  ASSUME IInv, IInv', NEW r \in Requests, DeleteMember(r)
  PROVE  MB!Next
<1>1. PICK v \in Vaults, u \in Users, m \in Rows :
          v = req[r].vault /\ u = req[r].target /\ m = req[r].row
  BY DeleteFacts
<1>2. /\ row[m].status = "active" /\ row[m].role = "member"
      /\ row[m].vault = v /\ row[m].user = u
      /\ \A n \in Rows : row'[n] = IF n = m THEN [row[n] EXCEPT !.status = "deleted"] ELSE row[n]
  BY <1>1, DeleteFacts
<1>3. /\ \A n \in Rows \ {m} : row'[n] = row[n]
      /\ row'[m].vault = v /\ row'[m].user = u /\ row'[m].status = "deleted"
  BY <1>2 DEF IInv, TypeOK, Row
<1>4. m \in Of(v, u)
  BY <1>2 DEF Of, Present
<1>5. standing[v][u] = "member"
  BY <1>2, <1>4, StandingIsTheRows DEF IInv, RowInv, Standing, standing
<1>6. Of(v, u)' = {}
  BY <1>2, <1>3, <1>4 DEF Of, Present, IInv, RowInv, OneRowPerPair
<1>7. StandingOf(v, u)' = "none"
  BY <1>6 DEF StandingOf
<1>8. MB!Become(v, u, "none")
  BY <1>2, <1>3, <1>7, OneStandingMoves
<1> QED BY <1>5, <1>8 DEF MB!Next, MB!Leave

LEMMA StepRefines ==
  ASSUME IInv, IInv', [Next]_vars
  PROVE  [MB!Next]_standing
<1>1. CASE UNCHANGED row
  BY <1>1 DEF standing, StandingOf, Of, Present
<1>2. CASE row' # row
  <2>1. \E r \in Requests : CreateVault(r) \/ InsertInvite(r) \/ AcceptInvite(r)
                            \/ DeclineInvite(r) \/ DeleteMember(r)
    BY <1>2
    DEF Next, vars, Secure, Unsecure, PostVault, PostInvite, PostAccept,
        PostDecline, DeleteFromVault, Enter, CheckInviter, CheckRemover, LockTarget,
        CountOwners, Die
  <2> QED BY <1>2, <2>1, CreateVaultRefines, InsertInviteRefines, AnswerRefines,
             DeleteMemberRefines
<1> QED BY <1>1, <1>2

(* Whatever requests overlap, a vault's memberships move as Membership     *)
(* says: an owner for good, a member only by the owner's invitation and    *)
(* their own acceptance, never again after declining.                      *)
THEOREM Refinement == Spec => ImplementsMembership
<1>1. Init => MB!Init
  <2> SUFFICES ASSUME Init  PROVE MB!Init
    OBVIOUS
  <2>1. \A v \in Vaults, u \in Users : Of(v, u) = {}
    BY DEF Init, Of, Present, NoRow
  <2> QED BY <2>1 DEF MB!Init, standing, StandingOf
<1>2. IInv /\ IInv' /\ [Next]_vars => [MB!Next]_standing
  BY StepRefines
<1> QED BY <1>1, <1>2, Invariance, PTL DEF Spec, ImplementsMembership, MB!Spec

-----------------------------------------------------------------------------
(* Signup, as Server instantiates it.  A redeemed code made an account for *)
(* its address, another code another account.                              *)
CodesInv ==
    /\ \A k \in expired : invited[k] # None
    /\ \A k \in Codes : redeemed[k] = None => winners[k] = {}
    /\ \A k \in Codes : redeemed[k] # None =>
          /\ redeemed[k] \in personal
          /\ invited[k] # None /\ email[redeemed[k]] = invited[k]
    /\ \A j, k \in Codes : redeemed[k] # None /\ redeemed[j] = redeemed[k] => j = k
    /\ \A a \in personal : \E k \in Codes : redeemed[k] = a

AccountsInv ==
    /\ \A a \in Accounts : email[a] # None <=> a \in personal
    /\ \A a, b \in personal : email[a] = email[b] => a = b

(* What a transaction has checked stays true until it ends: its locks keep *)
(* its code unredeemed and its address free.                               *)
RequestsInv ==
    /\ \A r \in Requests :
          /\ signupReq[r].pc # "idle" =>
                signupReq[r].code \in Codes /\ invited[signupReq[r].code] # None
          /\ SU!InTransaction(r) => redeemed[signupReq[r].code] = None
          /\ signupReq[r].account # None <=> signupReq[r].pc = "inserted"
          /\ signupReq[r].pc = "inserted" =>
                /\ signupReq[r].account \in Accounts
                /\ email[signupReq[r].account] = None
                /\ \A a \in Accounts : email[a] # invited[signupReq[r].code]
    /\ \A q, r \in Requests :
          /\ /\ SU!InTransaction(q) /\ SU!InTransaction(r)
             /\ signupReq[q].code = signupReq[r].code
             => q = r
          /\ signupReq[q].pc = "inserted" /\ signupReq[r].pc = "inserted" =>
                \/ q = r
                \/ /\ signupReq[q].account # signupReq[r].account
                   /\ invited[signupReq[q].code] # invited[signupReq[r].code]

SignupInv == SU!TypeOK /\ CodesInv /\ AccountsInv /\ RequestsInv

LEMMA SignupInit == SU!Init => SignupInv
  BY NoneIsNobody, NoneIsNoCode
  DEF SU!Init, SignupInv, SU!TypeOK, CodesInv, AccountsInv, RequestsInv, SU!Idle,
      SU!Request, SU!InTransaction

LEMMA SignupStep == SignupInv /\ [SU!Next]_(SU!vars) => SignupInv'
<1> SUFFICES ASSUME SignupInv, [SU!Next]_(SU!vars) PROVE SignupInv'
  OBVIOUS
<1> USE NoneIsNobody, NoneIsNoCode
<1>0. SU!TypeOK /\ CodesInv /\ AccountsInv /\ RequestsInv
  BY DEF SignupInv
<1>1. ASSUME NEW k \in Codes, NEW e \in Users, SU!InviteCreate(k, e) PROVE SignupInv'
  <2>1. /\ invited'[k] = e /\ e # None /\ invited[k] = None /\ redeemed[k] = None
        /\ \A j \in Codes \ {k} : invited'[j] = invited[j]
        /\ UNCHANGED <<expired, redeemed, email, personal, signupReq, winners>>
    BY <1>0, <1>1 DEF SU!InviteCreate, SU!TypeOK, CodesInv
  <2>2. SU!TypeOK'
    BY <1>0, <1>1 DEF SU!TypeOK, SU!InviteCreate
  <2>3. CodesInv' /\ AccountsInv'
    BY <1>0, <2>1 DEF CodesInv, AccountsInv, SU!TypeOK
  <2>4. RequestsInv'
    <3>1. \A r \in Requests : signupReq[r].pc # "idle" =>
             /\ signupReq[r].code # k /\ signupReq[r].code \in Codes
             /\ invited'[signupReq[r].code] = invited[signupReq[r].code]
      BY <1>0, <2>1 DEF RequestsInv
    <3> QED BY <1>0, <2>1, <3>1 DEF RequestsInv, SU!InTransaction
  <2> QED BY <2>2, <2>3, <2>4 DEF SignupInv
<1>2. ASSUME NEW k \in Codes, SU!Expire(k) PROVE SignupInv'
  BY <1>0, <1>2
  DEF SU!Expire, SignupInv, SU!TypeOK, CodesInv, AccountsInv, RequestsInv,
      SU!InTransaction
<1>3. ASSUME NEW r \in Requests, NEW x \in SU!Request,
             SU!Put(r, x), UNCHANGED SU!rowVars,
             x.pc # "idle" => x.code \in Codes /\ invited[x.code] # None,
             x.account # None <=> x.pc = "inserted",
             x.pc \in {"locked", "inserted"} =>
                 /\ redeemed[x.code] = None
                 /\ \A q \in Requests \ {r} : SU!InTransaction(q) => signupReq[q].code # x.code,
             x.pc = "inserted" =>
                 /\ ~ SU!Taken(x.account) /\ x.account \in Accounts
                 /\ \A a \in Accounts : email[a] # invited[x.code]
                 /\ \A q \in Requests : signupReq[q].pc = "inserted" =>
                                            invited[signupReq[q].code] # invited[x.code]
      PROVE  SignupInv'
  <2>1. /\ signupReq'[r] = x /\ \A q \in Requests \ {r} : signupReq'[q] = signupReq[q]
        /\ signupReq' \in [Requests -> SU!Request]
    BY <1>0, <1>3 DEF SU!Put, SU!TypeOK
  <2>2. SU!TypeOK' /\ CodesInv' /\ AccountsInv'
    BY <1>0, <1>3, <2>1 DEF SU!rowVars, SU!TypeOK, CodesInv, AccountsInv
  <2>3. RequestsInv'
    <3>1. \A q \in Requests \ {r} : signupReq[q].pc = "inserted" /\ x.pc = "inserted" =>
              signupReq[q].account # x.account
      BY <1>3 DEF SU!Taken
    <3> QED BY <1>0, <1>3, <2>1, <3>1
    DEF SU!rowVars, RequestsInv, SU!InTransaction, SU!Taken
  <2> QED BY <2>2, <2>3 DEF SignupInv
<1>4. ASSUME NEW r \in Requests, SU!Put(r, SU!Idle), UNCHANGED SU!rowVars
      PROVE  SignupInv'
  BY <1>3, <1>4 DEF SU!Idle, SU!Request
<1>5. ASSUME NEW r \in Requests, NEW k \in Codes, SU!Submit(r, k) PROVE SignupInv'
  <2> DEFINE x == [SU!Idle EXCEPT !.pc = "begin", !.code = k]
  <2>1. x \in SU!Request /\ x.pc = "begin" /\ x.code = k /\ x.account = None
    BY DEF SU!Idle, SU!Request
  <2> HIDE DEF x
  <2> QED BY <1>3, <1>5, <2>1 DEF SU!Submit, x
<1>6. ASSUME NEW r \in Requests, SU!LockInvite(r) PROVE SignupInv'
  <2> DEFINE k == signupReq[r].code
             x == [signupReq[r] EXCEPT !.pc = "locked"]
  <2>1. CASE k \in expired \/ redeemed[k] # None
    BY <1>4, <1>6, <2>1 DEF SU!LockInvite
  <2>2. CASE ~ (k \in expired \/ redeemed[k] # None)
    <3>1. x \in SU!Request /\ x.pc = "locked" /\ x.code = k /\ x.account = signupReq[r].account
      BY <1>0 DEF SU!TypeOK, SU!Request
    <3>2. signupReq[r].account = None /\ k \in Codes /\ invited[k] # None
      BY <1>0, <1>6 DEF SU!LockInvite, RequestsInv
    <3>3. SU!Put(r, x) /\ UNCHANGED SU!rowVars
      BY <1>6, <2>2 DEF SU!LockInvite
    <3> HIDE DEF x
    <3> QED BY <1>3, <1>6, <2>2, <3>1, <3>2, <3>3 DEF SU!LockInvite
  <2> QED BY <2>1, <2>2
<1>7. ASSUME NEW r \in Requests, SU!InsertUser(r) PROVE SignupInv'
  <2>1. CASE SU!Put(r, SU!Idle)
    BY <1>4, <1>7, <2>1 DEF SU!InsertUser
  <2>2. ASSUME NEW a \in Accounts, ~ SU!Taken(a),
               SU!Put(r, [signupReq[r] EXCEPT !.pc = "inserted", !.account = a]),
               \A b \in Accounts : email[b] # invited[signupReq[r].code]
        PROVE  SignupInv'
    <3> DEFINE x == [signupReq[r] EXCEPT !.pc = "inserted", !.account = a]
    <3>1. x \in SU!Request /\ x.pc = "inserted" /\ x.code = signupReq[r].code /\ x.account = a
      BY <1>0 DEF SU!TypeOK, SU!Request
    <3>2. /\ signupReq[r].code \in Codes /\ invited[signupReq[r].code] # None
          /\ redeemed[signupReq[r].code] = None
          /\ \A q \in Requests \ {r} :
                SU!InTransaction(q) => signupReq[q].code # signupReq[r].code
      BY <1>0, <1>7 DEF SU!InsertUser, RequestsInv, SU!InTransaction
    <3>3. SU!Put(r, x) /\ UNCHANGED SU!rowVars
      BY <1>7, <2>2 DEF SU!InsertUser
    <3> HIDE DEF x
    <3> QED BY <1>3, <1>7, <2>2, <3>1, <3>2, <3>3 DEF SU!InsertUser
  <2> QED BY <1>7, <2>1, <2>2 DEF SU!InsertUser
<1>8. ASSUME NEW r \in Requests, SU!Commit(r) PROVE SignupInv'
  <2> DEFINE k == signupReq[r].code
             a == signupReq[r].account
  <2>1. /\ k \in Codes /\ a \in Accounts /\ invited[k] # None /\ redeemed[k] = None
        /\ email[a] = None /\ a \notin personal
        /\ \A b \in Accounts : email[b] # invited[k]
    BY <1>0, <1>8 DEF SU!Commit, RequestsInv, AccountsInv, SU!InTransaction
  <2>2. /\ email'[a] = invited[k] /\ \A b \in Accounts \ {a} : email'[b] = email[b]
        /\ redeemed'[k] = a /\ \A j \in Codes \ {k} : redeemed'[j] = redeemed[j]
        /\ signupReq'[r] = SU!Idle /\ \A q \in Requests \ {r} : signupReq'[q] = signupReq[q]
        /\ \A j \in Codes \ {k} : winners'[j] = winners[j]
        /\ personal' = personal \cup {a}
        /\ UNCHANGED <<invited, expired>>
    BY <1>0, <1>8, <2>1 DEF SU!Commit, SU!Put, SU!TypeOK
  <2>3. SU!TypeOK'
    <3>1. SU!Idle \in SU!Request /\ winners[k] \in SUBSET Requests
      BY <1>0, <2>1 DEF SU!Idle, SU!Request, SU!TypeOK
    <3> QED BY <1>0, <1>8, <2>1, <3>1 DEF SU!Commit, SU!Put, SU!TypeOK
  <2>4. CodesInv'
    BY <1>0, <2>1, <2>2 DEF CodesInv, SU!TypeOK
  <2>5. AccountsInv'
    BY <1>0, <2>1, <2>2 DEF AccountsInv, SU!TypeOK
  <2>6. RequestsInv'
    <3>1. \A q \in Requests \ {r} :
             /\ SU!InTransaction(q) => signupReq[q].code # k
             /\ signupReq[q].pc = "inserted" => /\ signupReq[q].account # a
                                          /\ invited[signupReq[q].code] # invited[k]
      BY <1>0, <1>8 DEF SU!Commit, RequestsInv, SU!InTransaction
    <3>2. signupReq'[r].pc = "idle" /\ signupReq'[r].account = None
      BY <2>2 DEF SU!Idle
    <3> QED BY <1>0, <2>1, <2>2, <3>1, <3>2 DEF RequestsInv, SU!InTransaction
  <2> QED BY <2>3, <2>4, <2>5, <2>6 DEF SignupInv
<1>9. ASSUME NEW r \in Requests, SU!RollBack(r) PROVE SignupInv'
  BY <1>4, <1>9 DEF SU!RollBack
<1>10. CASE UNCHANGED SU!vars
  BY <1>0, <1>10
  DEF SU!vars, SignupInv, SU!TypeOK, CodesInv, AccountsInv, RequestsInv,
      SU!InTransaction
<1> QED BY <1>1, <1>2, <1>5, <1>6, <1>7, <1>8, <1>9, <1>10 DEF SU!Next

LEMMA SignupInvariance == SU!Spec => []SignupInv
  BY SignupInit, SignupStep, PTL DEF SU!Spec

LEMMA SameCardinality == \A S : SU!Cardinality(S) = Cardinality(S)
  BY DEF SU!Cardinality, Cardinality

(* Each account was made by exactly one code.                              *)
LEMMA WholeAccounts == SignupInv => SU!AccountsAreWhole
<1> SUFFICES ASSUME SignupInv PROVE SU!AccountsAreWhole
  OBVIOUS
<1>1. ASSUME NEW a \in personal PROVE SU!Cardinality({k \in Codes : redeemed[k] = a}) = 1
  <2>1. PICK k \in Codes : redeemed[k] = a
    BY DEF SignupInv, CodesInv
  <2>2. a # None
    BY NoneIsNobody, NoneIsNoCode DEF SignupInv, SU!TypeOK
  <2>3. {j \in Codes : redeemed[j] = a} = {k}
    BY <2>1, <2>2 DEF SignupInv, CodesInv
  <2> QED BY <2>3, FS_Singleton, SameCardinality
<1> QED BY <1>1 DEF SignupInv, SU!TypeOK, CodesInv, AccountsInv, SU!AccountsAreWhole

-----------------------------------------------------------------------------
(* Codes as tickets.  While its request has code k locked, k is open; when *)
(* the transaction ends without redeeming it, k is as open as its expiry   *)
(* says.                                                                   *)
Holding(k) == \E r \in Requests : SU!InTransaction(r) /\ signupReq[r].code = k
Open(k)    == invited[k] # None /\ redeemed[k] = None /\ (k \notin expired \/ Holding(k))

LEMMA OpenFacts == /\ SU!OpenCodes = {k \in Codes : Open(k)}
                   /\ SU!OpenCodes' = {k \in Codes : Open(k)'}
  BY DEF SU!OpenCodes, Open, Holding

(* Whom a code's request acted for is in the row of the account it made.   *)
LEMMA SameRedeemers == UNCHANGED <<email, redeemed, winners>> => UNCHANGED SU!Redeemers
  BY DEF SU!Redeemers

(* A request that starts or goes on opens nothing and closes nothing.      *)
LEMMA HoldingMoves ==
  ASSUME SignupInv, NEW r \in Requests, NEW x \in SU!Request,
         SU!Put(r, x), UNCHANGED SU!rowVars,
         ~ SU!InTransaction(r) => x.pc # "inserted" /\ (x.pc = "locked" => x.code \notin expired),
         SU!InTransaction(r) => x.pc \in {"locked", "inserted"} /\ x.code = signupReq[r].code
  PROVE  UNCHANGED <<invited, SU!OpenCodes, SU!Redeemers>>
<1>1. signupReq'[r] = x /\ \A q \in Requests \ {r} : signupReq'[q] = signupReq[q]
  BY DEF SU!Put, SignupInv, SU!TypeOK
<1>2. \A k \in Codes : Open(k)' <=> Open(k)
  BY <1>1 DEF Open, Holding, SU!InTransaction, SU!rowVars
<1> QED BY <1>2, OpenFacts, SameRedeemers DEF SU!rowVars

(* A request that gives its code back lets an expired one lapse.           *)
LEMMA GivenBack ==
  ASSUME SignupInv, NEW r \in Requests, SU!Put(r, SU!Idle), UNCHANGED SU!rowVars
  PROVE  [SU!TK!Next]_(SU!TK!vars)
<1>1. signupReq'[r].pc = "idle" /\ \A q \in Requests \ {r} : signupReq'[q] = signupReq[q]
  BY DEF SU!Put, SignupInv, SU!TypeOK, SU!Idle
<1>2. CASE SU!InTransaction(r) /\ signupReq[r].code \in expired
  <2>0. PICK k \in Codes : k = signupReq[r].code
    BY <1>2 DEF SignupInv, RequestsInv, SU!InTransaction
  <2>1. invited[k] # None /\ redeemed[k] = None /\ Open(k)
    BY <1>2, <2>0 DEF SignupInv, RequestsInv, SU!InTransaction, Open, Holding
  <2>2. k \in expired' /\ ~ Open(k)'
    <3>1. ~ Holding(k)'
      BY <1>1, <1>2, <2>0 DEF Holding, SU!InTransaction, SignupInv, RequestsInv
    <3> QED BY <1>2, <2>0, <3>1 DEF Open, SU!rowVars
  <2>3. \A j \in Codes \ {k} : Open(j)' <=> Open(j)
    BY <1>1, <2>0 DEF Open, Holding, SU!InTransaction, SU!rowVars
  <2>4. k \in SU!OpenCodes /\ SU!OpenCodes' = SU!OpenCodes \ {k}
    BY <2>1, <2>2, <2>3, OpenFacts
  <2>5. SU!TK!Lapse(k)
    BY <2>4, SameRedeemers DEF SU!TK!Lapse, SU!rowVars
  <2> QED BY <2>1, <2>5 DEF SU!TK!Next
<1>3. CASE ~ (SU!InTransaction(r) /\ signupReq[r].code \in expired)
  <2>1. \A k \in Codes : Open(k)' <=> Open(k)
    BY <1>1, <1>3 DEF Open, Holding, SU!InTransaction, SU!rowVars
  <2>2. UNCHANGED SU!OpenCodes
    BY <2>1, OpenFacts
  <2> QED BY <2>2, SameRedeemers DEF SU!TK!vars, SU!rowVars
<1> QED BY <1>2, <1>3

(* The commit adds its request, for the address of the account it makes;   *)
(* that account is new, so what other codes say of theirs stays.           *)
LEMMA OneRedeems ==
  ASSUME SignupInv, NEW r \in Requests, NEW k \in Codes,
         SU!Commit(r), k = signupReq[r].code
  PROVE  SU!Redeemers' = [SU!Redeemers EXCEPT ![k] = @ \cup {<<r, invited[k]>>}]
<1> USE NoneIsNobody, NoneIsNoCode
<1>0. SU!TypeOK /\ CodesInv /\ RequestsInv
  BY DEF SignupInv
<1>1. PICK a : a = signupReq[r].account
  OBVIOUS
<1>2. /\ a \in Accounts /\ email[a] = None /\ winners[k] = {}
      /\ redeemed'[k] = a /\ email'[a] = invited[k] /\ winners'[k] = {r}
      /\ \A j \in Codes \ {k} : redeemed'[j] = redeemed[j] /\ winners'[j] = winners[j]
      /\ \A b \in Accounts \ {a} : email'[b] = email[b]
  BY <1>0, <1>1 DEF SU!Commit, SU!TypeOK, CodesInv, RequestsInv
<1>3. \A j \in Codes \ {k} : winners[j] # {} => redeemed[j] \in Accounts \ {a}
  BY <1>0, <1>2 DEF CodesInv, SU!TypeOK
<1> DEFINE Before(j) == {<<q, email[redeemed[j]]>> : q \in winners[j]}
           After(j)  == {<<q, email'[redeemed'[j]]>> : q \in winners'[j]}
<1>4. ASSUME NEW j \in Codes
      PROVE  After(j) = IF j = k THEN Before(j) \cup {<<r, invited[k]>>} ELSE Before(j)
  <2>1. CASE j = k
    BY <1>2, <2>1
  <2>2. CASE j # k /\ winners[j] = {}
    BY <1>2, <2>2
  <2>3. CASE j # k /\ winners[j] # {}
    <3>1. email'[redeemed'[j]] = email[redeemed[j]] /\ winners'[j] = winners[j]
      BY <1>2, <1>3, <2>3
    <3> QED BY <2>3, <3>1
  <2> QED BY <2>1, <2>2, <2>3
<1>5. /\ SU!Redeemers  = [j \in Codes |-> Before(j)]
      /\ SU!Redeemers' = [j \in Codes |-> After(j)]
  BY DEF SU!Redeemers
<1> HIDE DEF Before, After
<1> QED BY <1>4, <1>5

LEMMA SignupRefines ==
  ASSUME SignupInv, [SU!Next]_(SU!vars)
  PROVE  [SU!TK!Next]_(SU!TK!vars)
<1> USE NoneIsNobody, NoneIsNoCode
<1>0. SU!TypeOK /\ CodesInv /\ RequestsInv
  BY DEF SignupInv
<1>1. ASSUME NEW k \in Codes, NEW e \in Users, SU!InviteCreate(k, e) PROVE SU!TK!Next
  <2>1. /\ invited'[k] = e /\ e # None /\ redeemed[k] = None /\ k \notin expired
        /\ \A j \in Codes \ {k} : invited'[j] = invited[j]
        /\ UNCHANGED <<expired, redeemed, signupReq>>
    BY <1>0, <1>1 DEF SU!InviteCreate, SU!TypeOK, CodesInv
  <2>2. Open(k)' /\ \A j \in Codes \ {k} : Open(j)' <=> Open(j)
    BY <2>1 DEF Open, Holding, SU!InTransaction
  <2>3. SU!OpenCodes' = SU!OpenCodes \cup {k}
    BY <2>2, OpenFacts
  <2>4. SU!TK!Issue(k, e)
    BY <1>1, <2>3, SameRedeemers DEF SU!TK!Issue, SU!InviteCreate
  <2> QED BY <2>4 DEF SU!TK!Next
<1>2. ASSUME NEW k \in Codes, SU!Expire(k) PROVE [SU!TK!Next]_(SU!TK!vars)
  <2>1. /\ \A j \in Codes \ {k} : Open(j)' <=> Open(j)
        /\ Open(k)' => Open(k)
    BY <1>2 DEF SU!Expire, Open, Holding, SU!InTransaction
  <2>2. CASE Open(k) /\ ~ Open(k)'
    <3>1. k \in SU!OpenCodes /\ SU!OpenCodes' = SU!OpenCodes \ {k}
      BY <2>1, <2>2, OpenFacts
    <3>2. SU!TK!Lapse(k)
      BY <1>2, <3>1, SameRedeemers DEF SU!TK!Lapse, SU!Expire
    <3> QED BY <3>2 DEF SU!TK!Next
  <2>3. CASE Open(k) => Open(k)'
    <3>1. UNCHANGED SU!OpenCodes
      BY <2>1, <2>3, OpenFacts
    <3> QED BY <1>2, <3>1, SameRedeemers DEF SU!TK!vars, SU!Expire
  <2> QED BY <2>2, <2>3
<1>3. ASSUME NEW r \in Requests, NEW k \in Codes, SU!Submit(r, k)
      PROVE  UNCHANGED <<invited, SU!OpenCodes, SU!Redeemers>>
  <2> DEFINE x == [SU!Idle EXCEPT !.pc = "begin", !.code = k]
  <2>1. x \in SU!Request /\ x.pc = "begin"
    BY DEF SU!Idle, SU!Request
  <2>2. ~ SU!InTransaction(r) /\ SU!Put(r, x) /\ UNCHANGED SU!rowVars
    BY <1>3 DEF SU!Submit, SU!InTransaction
  <2> HIDE DEF x
  <2> QED BY <2>1, <2>2, HoldingMoves
<1>4. ASSUME NEW r \in Requests, SU!LockInvite(r) PROVE [SU!TK!Next]_(SU!TK!vars)
  <2> DEFINE x == [signupReq[r] EXCEPT !.pc = "locked"]
  <2>1. CASE signupReq[r].code \in expired \/ redeemed[signupReq[r].code] # None
    BY <1>4, <2>1, GivenBack DEF SU!LockInvite
  <2>2. CASE ~ (signupReq[r].code \in expired \/ redeemed[signupReq[r].code] # None)
    <3>1. x \in SU!Request /\ x.pc = "locked" /\ x.code = signupReq[r].code
      BY <1>0 DEF SU!TypeOK, SU!Request
    <3>2. ~ SU!InTransaction(r) /\ SU!Put(r, x) /\ UNCHANGED SU!rowVars
      BY <1>4, <2>2 DEF SU!LockInvite, SU!InTransaction
    <3> HIDE DEF x
    <3>3. UNCHANGED <<invited, SU!OpenCodes, SU!Redeemers>>
      BY <2>2, <3>1, <3>2, HoldingMoves
    <3> QED BY <3>3 DEF SU!TK!vars
  <2> QED BY <2>1, <2>2
<1>5. ASSUME NEW r \in Requests, SU!InsertUser(r) PROVE [SU!TK!Next]_(SU!TK!vars)
  <2>1. CASE SU!Put(r, SU!Idle)
    BY <1>5, <2>1, GivenBack DEF SU!InsertUser
  <2>2. ASSUME NEW a \in Accounts,
               SU!Put(r, [signupReq[r] EXCEPT !.pc = "inserted", !.account = a])
        PROVE  UNCHANGED <<invited, SU!OpenCodes, SU!Redeemers>>
    <3> DEFINE x == [signupReq[r] EXCEPT !.pc = "inserted", !.account = a]
    <3>1. x \in SU!Request /\ x.pc = "inserted" /\ x.code = signupReq[r].code
      <4>1. signupReq[r] \in SU!Request
        BY <1>0 DEF SU!TypeOK
      <4> QED BY <4>1 DEF SU!Request
    <3>2. SU!InTransaction(r) /\ SU!Put(r, x) /\ UNCHANGED SU!rowVars
      BY <1>5, <2>2 DEF SU!InsertUser, SU!InTransaction
    <3> HIDE DEF x
    <3> QED BY <3>1, <3>2, HoldingMoves
  <2> QED BY <1>5, <2>1, <2>2 DEF SU!InsertUser, SU!TK!vars
<1>6. ASSUME NEW r \in Requests, SU!Commit(r) PROVE SU!TK!Next
  <2>0. PICK k \in Codes : k = signupReq[r].code
    BY <1>0, <1>6 DEF SU!Commit, RequestsInv
  <2>1. /\ invited[k] # None /\ redeemed[k] = None /\ signupReq[r].account # None
        /\ SU!InTransaction(r)
    BY <1>0, <1>6, <2>0 DEF SU!Commit, RequestsInv, SU!InTransaction
  <2>2. /\ redeemed'[k] # None /\ \A j \in Codes \ {k} : redeemed'[j] = redeemed[j]
        /\ signupReq'[r].pc = "idle"
        /\ \A q \in Requests \ {r} : signupReq'[q] = signupReq[q]
        /\ UNCHANGED <<invited, expired>>
    BY <1>0, <1>6, <2>0, <2>1 DEF SU!Commit, SU!Put, SU!TypeOK, SU!Idle
  <2>3. Open(k) /\ ~ Open(k)'
    BY <2>0, <2>1, <2>2 DEF Open, Holding
  <2>4. \A j \in Codes \ {k} : Open(j)' <=> Open(j)
    BY <2>0, <2>2 DEF Open, Holding, SU!InTransaction
  <2>5. k \in SU!OpenCodes /\ SU!OpenCodes' = SU!OpenCodes \ {k}
    BY <2>1, <2>3, <2>4, OpenFacts
  <2>6. invited[k] \in Users
    BY <1>0, <2>1 DEF SU!TypeOK
  <2>7. SU!Redeemers' = [SU!Redeemers EXCEPT ![k] = @ \cup {<<r, invited[k]>>}]
    BY <1>6, <2>0, OneRedeems
  <2>8. SU!TK!Redeem(k, r, invited[k])
    BY <1>6, <2>0, <2>5, <2>7 DEF SU!TK!Redeem, SU!Commit
  <2> QED BY <2>1, <2>6, <2>8 DEF SU!TK!Next
<1>7. ASSUME NEW r \in Requests, SU!RollBack(r) PROVE [SU!TK!Next]_(SU!TK!vars)
  BY <1>7, GivenBack DEF SU!RollBack
<1>8. CASE UNCHANGED SU!vars
  <2>1. UNCHANGED <<invited, SU!OpenCodes, SU!Redeemers>>
    BY <1>8, SameRedeemers DEF SU!vars, SU!OpenCodes, SU!InTransaction
  <2> QED BY <2>1 DEF SU!TK!vars
<1> QED BY <1>1, <1>2, <1>3, <1>4, <1>5, <1>6, <1>7, <1>8 DEF SU!Next, SU!TK!vars

LEMMA TicketsInit == SU!Init => SU!TK!Init
  BY DEF SU!Init, SU!TK!Init, SU!OpenCodes, SU!Redeemers

-----------------------------------------------------------------------------
(* The composition: whichever part is in focus, the other one rests, so a  *)
(* behaviour of Server is a behaviour of both.                             *)
LEMMA PartsMove == [ServerNext]_serverVars => [Next]_vars /\ [SU!Next]_(SU!vars)
  BY DEF ServerNext, serverVars, signupVars, SU!vars

THEOREM PartsRun == ServerSpec => Spec /\ SU!Spec
<1>1. ServerInit => Init /\ SU!Init
  BY DEF ServerInit
<1> QED BY <1>1, PartsMove, PTL DEF ServerSpec, Spec, SU!Spec

(* Every variable of Sharing and of Signup keeps its type.                 *)
THEOREM ServerTypes == ServerSpec => []TypesOK
<1>1. SignupInv => SU!TypeOK
  BY DEF SignupInv
<1>2. Spec /\ SU!Spec => [](TypeOK /\ SU!TypeOK)
  BY <1>1, TypeCorrect, SignupInvariance, PTL
<1> QED BY <1>2, PartsRun, PTL DEF TypesOK

(* An account that exists owns its personal vault, its address is its own, *)
(* and one code for that address made it, whatever signups overlap, expire *)
(* or roll back.                                                           *)
THEOREM AccountsStayWhole == ServerSpec => []AccountsAreWhole
<1>1. SU!Spec => []SU!AccountsAreWhole
  BY SignupInvariance, WholeAccounts, PTL
<1> QED BY <1>1, PartsRun, PTL DEF AccountsAreWhole

(* An invite code is redeemed at most once, by one request, which makes an *)
(* account with the address it was issued to, and never after it lapsed.   *)
THEOREM CodesRedeemOnce == ServerSpec => CodesAreTickets
<1>1. SU!Spec => SU!ImplementsTickets
  BY SignupInvariance, TicketsInit, SignupRefines, PTL
  DEF SU!Spec, SU!ImplementsTickets, SU!TK!Spec
<1> QED BY <1>1, PartsRun, PTL DEF CodesAreTickets
=============================================================================
