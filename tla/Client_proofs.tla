--------------------------- MODULE Client_proofs ----------------------------
(***************************************************************************)
(* Theorems about Client, for any number of users, vaults, tabs, accounts, *)
(* keys and parameters.  Of SharedKeys: under a vault's name there is that *)
(* vault's key or a blank one, never blank in its owner's box, and only in *)
(* pages that had somebody who was let in.  Of ClientSession: a page with a*)
(* token goes on renewing it.  Of Account: a password that was written down*)
(* opens the row, and token and keys part for three reasons only.          *)
(***************************************************************************)
EXTENDS Client, TLAPS

(* What OwnKeyOrBlank says, and the same of a handler's copy.              *)
OnlyOwnKeys ==
    /\ \A v \in Vaults :
          /\ sealed[v] \in {v, Blank, None}
          /\ \A u \in Users : wrapped[v][u] \in {v, Blank, None}
          /\ \A d \in Tabs : held[d][v] \in {v, Blank, None}
    /\ \A d \in Tabs : task[d].key \in {task[d].vault, Blank, None}

(* The owner's box is the one its creator's browser made.                  *)
OwnersBox == \A v \in Vaults, u \in Users : member[v][u] = "owner" => wrapped[v][u] = v

(* Somebody whose token the page had was let into the vault.               *)
LetIn(d, v) == \E u \in realm[d] : v \in joined[u]

(* A page had the token it has, and has the keys of vaults somebody was let*)
(* into; a handler that will store a key started for somebody who was.     *)
PageInv(d) ==
    /\ signed[d] # None => signed[d] \in realm[d]
    /\ \A v \in Vaults : held[d][v] # None => LetIn(d, v)
    /\ task[d].op # "none" => task[d].vault \in Vaults
    /\ task[d].op \in {"create", "accept"} => LetIn(d, task[d].vault)
    /\ task[d].op = "invite" => task[d].user \in Users /\ task[d].target \in Users

IInv == TypeOK /\ OnlyOwnKeys /\ OwnersBox /\ \A d \in Tabs : PageInv(d)

-----------------------------------------------------------------------------
LEMMA NoTaskFields ==
  /\ NoTask \in Task /\ NoTask.op = "none" /\ NoTask.key = None
  /\ NoKeys \in [Vaults -> Keys \cup {None}] /\ \A v \in Vaults : NoKeys[v] = None
BY DEF NoTask, Task, NoKeys

(* A task that is NoTask but for its handler, vault and key.               *)
LEMMA TaskWith ==
  ASSUME NEW op, NEW v, NEW key
  PROVE  [NoTask EXCEPT !.op = op, !.vault = v, !.key = key]
            = [op |-> op, vault |-> v, user |-> None, target |-> None, key |-> key]
<1> DEFINE n1 == [op |-> op, vault |-> None, user |-> None, target |-> None, key |-> None]
           n2 == [op |-> op, vault |-> v, user |-> None, target |-> None, key |-> None]
           n3 == [op |-> op, vault |-> v, user |-> None, target |-> None, key |-> key]
<1>1. [NoTask EXCEPT !.op = op] = n1 BY DEF NoTask
<1>2. [n1 EXCEPT !.vault = v] = n2 OBVIOUS
<1>3. [n2 EXCEPT !.key = key] = n3 OBVIOUS
<1> HIDE DEF n1, n2, n3
<1> QED BY <1>1, <1>2, <1>3 DEF n3

LEMMA InitInv == Init => IInv
<1> SUFFICES ASSUME Init  PROVE IInv
  OBVIOUS
<1>1. /\ member = [v \in Vaults |-> [u \in Users |-> "none"]]
      /\ wrapped = [v \in Vaults |-> [u \in Users |-> None]]
      /\ sealed = [v \in Vaults |-> None] /\ joined = [u \in Users |-> {}]
      /\ realm = [d \in Tabs |-> {}] /\ signed = [d \in Tabs |-> None]
      /\ unlocked = [d \in Tabs |-> None] /\ held = [d \in Tabs |-> NoKeys]
      /\ task = [d \in Tabs |-> NoTask]
  BY DEF Init, MB!Init
<1>2. TypeOK
  BY <1>1, NoTaskFields DEF TypeOK, MB!Standing
<1>3. OnlyOwnKeys /\ OwnersBox
  BY <1>1, NoTaskFields DEF OnlyOwnKeys, OwnersBox
<1>4. \A d \in Tabs : PageInv(d)
  BY <1>1, NoTaskFields DEF PageInv
<1> QED BY <1>2, <1>3, <1>4 DEF IInv

-----------------------------------------------------------------------------
(* Who was let in stays so: what a page knows, it goes on knowing.         *)
Grows(d) ==
    /\ joined' \in [Users -> SUBSET Vaults] /\ \A u \in Users : joined[u] \subseteq joined'[u]
    /\ realm' \in [Tabs -> SUBSET Users] /\ realm[d] \subseteq realm'[d]

LEMMA StillLetIn ==
  ASSUME IInv, NEW d \in Tabs, Grows(d), NEW v, LetIn(d, v)
  PROVE  LetIn(d, v)'
BY DEF IInv, TypeOK, Grows, LetIn

LEMMA StillPage ==
  ASSUME IInv, NEW d \in Tabs, Grows(d), signed'[d] = signed[d], held'[d] = held[d],
         task'[d] = task[d]
  PROVE  PageInv(d)'
<1>1. PageInv(d)
  BY DEF IInv
<1>2. \A v : LetIn(d, v) => LetIn(d, v)'
  BY StillLetIn
<1>3. \A u \in realm[d] : u \in realm'[d]
  BY DEF Grows
<1> QED BY <1>1, <1>2, <1>3 DEF PageInv

LEMMA UserAt ==
  ASSUME IInv, NEW d \in Tabs, NEW u \in Users, At(d, u)
  PROVE  u \in realm[d] /\ task[d] = NoTask
BY KeysAssumption DEF At, IInv, PageInv

-----------------------------------------------------------------------------
(* A membership that moves as Membership says, and its box with it.        *)
LEMMA BoxMoves ==
  ASSUME IInv, NEW w \in Vaults, NEW t \in Users, NEW s \in MB!Standing,
         MB!Become(w, t, s), NEW key, key \in {w, Blank, None},
         Wrap(w, t, key) \/ UNCHANGED wrapped,
         s = "owner" => key = w /\ Wrap(w, t, key)
  PROVE  /\ member' \in [Vaults -> [Users -> MB!Standing]]
         /\ wrapped' \in [Vaults -> [Users -> Keys \cup {None}]]
         /\ \A v \in Vaults, u \in Users : wrapped'[v][u] \in {v, Blank, None}
         /\ \A v \in Vaults, u \in Users : v # w \/ u # t => wrapped'[v][u] = wrapped[v][u]
         /\ \A v \in Vaults, u \in Users : (v # w \/ u # t) => member'[v][u] = member[v][u]
         /\ OwnersBox'
<1>1. /\ member' \in [Vaults -> [Users -> MB!Standing]]
      /\ \A v \in Vaults, u \in Users :
            member'[v][u] = IF v = w /\ u = t THEN s ELSE member[v][u]
  BY DEF MB!Become, IInv, TypeOK
<1>2. key \in Keys \cup {None}
  BY DEF Keys
<1>3. CASE Wrap(w, t, key)
  <2>1. /\ wrapped' \in [Vaults -> [Users -> Keys \cup {None}]]
        /\ \A v \in Vaults, u \in Users :
              wrapped'[v][u] = IF v = w /\ u = t THEN key ELSE wrapped[v][u]
    BY <1>2, <1>3 DEF Wrap, IInv, TypeOK
  <2>2. \A v \in Vaults, u \in Users : wrapped'[v][u] \in {v, Blank, None}
    BY <2>1 DEF IInv, OnlyOwnKeys
  <2>3. OwnersBox'
    BY <1>1, <2>1 DEF IInv, OwnersBox
  <2> QED BY <1>1, <2>1, <2>2, <2>3
<1>4. CASE UNCHANGED wrapped /\ s # "owner"
  <2>1. OwnersBox'
    BY <1>1, <1>4 DEF IInv, OwnersBox
  <2> QED BY <1>1, <1>4, <2>1 DEF IInv, TypeOK, OnlyOwnKeys
<1> QED BY <1>3, <1>4

LEMMA JoinMoves ==
  ASSUME IInv, NEW w \in Vaults, NEW t \in Users, Join(w, t)
  PROVE  /\ joined' \in [Users -> SUBSET Vaults] /\ \A u \in Users : joined[u] \subseteq joined'[u]
         /\ w \in joined'[t]
<1>1. joined[t] \cup {w} \in SUBSET Vaults
  BY DEF IInv, TypeOK
<1>2. joined' = [joined EXCEPT ![t] = joined[t] \cup {w}]
  BY DEF Join, IInv, TypeOK
<1>3. \A u \in Users : joined'[u] = IF u = t THEN joined[t] \cup {w} ELSE joined[u]
  BY <1>2 DEF IInv, TypeOK
<1>4. joined' \in [Users -> SUBSET Vaults]
  BY <1>1, <1>2 DEF IInv, TypeOK
<1> QED BY <1>3, <1>4

(* A step of the server on behalf of a handler, which may go on to wait.   *)
LEMMA ServerMoves ==
  ASSUME IInv, UNCHANGED tabVars,
         member' \in [Vaults -> [Users -> MB!Standing]], OwnersBox',
         joined' \in [Users -> SUBSET Vaults], \A u \in Users : joined[u] \subseteq joined'[u],
         sealed' \in [Vaults -> Keys \cup {None}],
         \A v \in Vaults : sealed'[v] \in {v, Blank, None},
         wrapped' \in [Vaults -> [Users -> Keys \cup {None}]],
         \A v \in Vaults, u \in Users : wrapped'[v][u] \in {v, Blank, None},
         NEW d \in Tabs, NEW x \in Task, task' = [task EXCEPT ![d] = x],
         x.key \in {x.vault, Blank, None},
         x.op # "none" => x.vault \in Vaults,
         x.op \in {"create", "accept"} => \E u \in realm[d] : x.vault \in joined'[u],
         x.op # "invite"
  PROVE  IInv'
<1>1. /\ task' \in [Tabs -> Task]
      /\ \A c \in Tabs : task'[c] = IF c = d THEN x ELSE task[c]
  BY DEF IInv, TypeOK
<1>2. UNCHANGED <<realm, signed, unlocked, held>>
  BY DEF tabVars
<1>3. TypeOK'
  BY <1>1, <1>2 DEF IInv, TypeOK
<1>4. OnlyOwnKeys'
  BY <1>1, <1>2 DEF IInv, OnlyOwnKeys
<1>5. \A c \in Tabs : Grows(c)
  BY <1>2 DEF Grows, IInv, TypeOK
<1>6. \A c \in Tabs \ {d} : PageInv(c)'
  BY <1>1, <1>2, <1>5, StillPage
<1>7. PageInv(d)'
  <2>1. PageInv(d) BY DEF IInv
  <2>2. \A v : LetIn(d, v) => LetIn(d, v)' BY <1>5, StillLetIn
  <2>3. x.op \in {"create", "accept"} => LetIn(d, x.vault)' BY <1>2 DEF LetIn
  <2>4. task'[d] = x BY <1>1
  <2> QED BY <1>2, <2>1, <2>2, <2>3, <2>4 DEF PageInv
<1> QED BY <1>3, <1>4, <1>6, <1>7 DEF IInv

(* Its parts that most steps leave alone.                                  *)
LEMMA Kept ==
  ASSUME IInv
  PROVE  /\ UNCHANGED joined => /\ joined' \in [Users -> SUBSET Vaults]
                                /\ \A u \in Users : joined[u] \subseteq joined'[u]
         /\ UNCHANGED sealed => /\ sealed' \in [Vaults -> Keys \cup {None}]
                                /\ \A v \in Vaults : sealed'[v] \in {v, Blank, None}
         /\ \A d \in Tabs : UNCHANGED task /\ task[d] = NoTask
                                => task' = [task EXCEPT ![d] = NoTask]
BY DEF IInv, TypeOK, OnlyOwnKeys

LEMMA CreateVaultKeeps ==
  ASSUME IInv, NEW d \in Tabs, NEW u \in Users, NEW v \in Vaults, CreateVault(d, u, v)
  PROVE  IInv'
<1> DEFINE x == [op |-> "create", vault |-> v, user |-> None, target |-> None, key |-> v]
<1>1. task' = [task EXCEPT ![d] = x] /\ x \in Task
  <2>1. x = [NoTask EXCEPT !.op = "create", !.vault = v, !.key = v]
    BY TaskWith
  <2>2. x \in Task
    BY DEF Task, Keys
  <2> HIDE DEF x
  <2> QED BY <2>1, <2>2 DEF CreateVault, Begin
<1>2. UNCHANGED <<sealed, tabVars>> /\ u \in realm[d]
  BY UserAt DEF CreateVault
<1>3. /\ member' \in [Vaults -> [Users -> MB!Standing]] /\ OwnersBox'
      /\ wrapped' \in [Vaults -> [Users -> Keys \cup {None}]]
      /\ \A w \in Vaults, t \in Users : wrapped'[w][t] \in {w, Blank, None}
  BY BoxMoves DEF CreateVault, MB!Found, MB!Standing
<1>4. /\ joined' \in [Users -> SUBSET Vaults] /\ \A t \in Users : joined[t] \subseteq joined'[t]
      /\ v \in joined'[u]
  BY JoinMoves DEF CreateVault
<1>5. x.op = "create" /\ x.vault = v /\ x.key = v
  OBVIOUS
<1> HIDE DEF x
<1> QED BY <1>1, <1>2, <1>3, <1>4, <1>5, Kept, ServerMoves

LEMMA AcceptInviteKeeps ==
  ASSUME IInv, NEW d \in Tabs, NEW u \in Users, NEW v \in Vaults, AcceptInvite(d, u, v)
  PROVE  IInv'
<1> DEFINE x == [op |-> "accept", vault |-> v, user |-> None, target |-> None,
                 key |-> wrapped[v][u]]
<1>1. wrapped[v][u] \in {v, Blank, None} /\ wrapped[v][u] \in Keys \cup {None}
  BY DEF IInv, TypeOK, OnlyOwnKeys
<1>2. task' = [task EXCEPT ![d] = x] /\ x \in Task
  <2>1. x = [NoTask EXCEPT !.op = "accept", !.vault = v, !.key = wrapped[v][u]]
    BY TaskWith
  <2>2. x \in Task
    BY <1>1 DEF Task
  <2> HIDE DEF x
  <2> QED BY <2>1, <2>2 DEF AcceptInvite, Begin
<1>3. UNCHANGED <<wrapped, sealed, tabVars>> /\ u \in realm[d]
  BY UserAt DEF AcceptInvite
<1>4. /\ member' \in [Vaults -> [Users -> MB!Standing]] /\ OwnersBox'
      /\ wrapped' \in [Vaults -> [Users -> Keys \cup {None}]]
      /\ \A w \in Vaults, t \in Users : wrapped'[w][t] \in {w, Blank, None}
  BY <1>3, BoxMoves DEF AcceptInvite, MB!Accept, MB!Standing
<1>5. /\ joined' \in [Users -> SUBSET Vaults] /\ \A t \in Users : joined[t] \subseteq joined'[t]
      /\ v \in joined'[u]
  BY JoinMoves DEF AcceptInvite
<1>6. x.op = "accept" /\ x.vault = v /\ x.key = wrapped[v][u]
  OBVIOUS
<1> HIDE DEF x
<1> QED BY <1>1, <1>2, <1>3, <1>4, <1>5, <1>6, Kept, ServerMoves

(* A step after which the handler waits for nothing.                       *)
LEMMA ServerMovesAndEnds ==
  ASSUME IInv, UNCHANGED <<sealed, joined, tabVars>>,
         member' \in [Vaults -> [Users -> MB!Standing]], OwnersBox',
         wrapped' \in [Vaults -> [Users -> Keys \cup {None}]],
         \A v \in Vaults, u \in Users : wrapped'[v][u] \in {v, Blank, None},
         NEW d \in Tabs, task' = [task EXCEPT ![d] = NoTask]
  PROVE  IInv'
<1>1. NoTask.op \notin {"create", "accept", "invite"}
  BY NoTaskFields
<1> QED BY <1>1, NoTaskFields, Kept, ServerMoves

LEMMA DeclineInviteKeeps ==
  ASSUME IInv, NEW d \in Tabs, NEW u \in Users, NEW v \in Vaults, DeclineInvite(d, u, v)
  PROVE  IInv'
<1>1. /\ member' \in [Vaults -> [Users -> MB!Standing]] /\ OwnersBox'
      /\ wrapped' \in [Vaults -> [Users -> Keys \cup {None}]]
      /\ \A w \in Vaults, t \in Users : wrapped'[w][t] \in {w, Blank, None}
  BY BoxMoves DEF DeclineInvite, MB!Decline, MB!Standing
<1>2. task' = [task EXCEPT ![d] = NoTask]
  BY UserAt, Kept DEF DeclineInvite
<1> QED BY <1>1, <1>2, ServerMovesAndEnds DEF DeclineInvite

LEMMA SendInviteKeeps ==
  ASSUME IInv, NEW d \in Tabs, SendInvite(d)
  PROVE  IInv'
<1>1. PICK v \in Vaults, w \in Users, by \in Users :
          v = task[d].vault /\ w = task[d].target /\ by = task[d].user
  BY DEF SendInvite, IInv, PageInv
<1>2. task[d].key \in {v, Blank, None}
  BY <1>1 DEF IInv, OnlyOwnKeys
<1>3. /\ member' \in [Vaults -> [Users -> MB!Standing]] /\ OwnersBox'
      /\ wrapped' \in [Vaults -> [Users -> Keys \cup {None}]]
      /\ \A c \in Vaults, t \in Users : wrapped'[c][t] \in {c, Blank, None}
  <2>1. MB!Become(v, w, "invited") /\ Wrap(v, w, task[d].key) /\ "invited" \in MB!Standing
    BY <1>1 DEF SendInvite, MB!Invite, MB!Standing
  <2> QED BY <1>2, <2>1, BoxMoves
<1> QED BY <1>3, ServerMovesAndEnds DEF SendInvite, Begin

LEMMA LeaveVaultKeeps ==
  ASSUME IInv, NEW d \in Tabs, NEW u \in Users, NEW v \in Vaults, LeaveVault(d, u, v)
  PROVE  IInv'
<1> DEFINE x == [op |-> "leave", vault |-> v, user |-> None, target |-> None, key |-> None]
<1>1. task' = [task EXCEPT ![d] = x] /\ x \in Task
  <2>1. x = [NoTask EXCEPT !.op = "leave", !.vault = v]
    <3> DEFINE n == [op |-> "leave", vault |-> None, user |-> None, target |-> None, key |-> None]
    <3>1. [NoTask EXCEPT !.op = "leave"] = n BY DEF NoTask
    <3>2. [n EXCEPT !.vault = v] = x OBVIOUS
    <3> HIDE DEF n, x
    <3> QED BY <3>1, <3>2
  <2>2. x \in Task
    BY DEF Task
  <2> HIDE DEF x
  <2> QED BY <2>1, <2>2 DEF LeaveVault, Begin
<1>2. /\ member' \in [Vaults -> [Users -> MB!Standing]] /\ OwnersBox'
      /\ wrapped' \in [Vaults -> [Users -> Keys \cup {None}]]
      /\ \A w \in Vaults, t \in Users : wrapped'[w][t] \in {w, Blank, None}
  BY BoxMoves DEF LeaveVault, MB!Leave, MB!Standing
<1>3. x.op = "leave" /\ x.vault = v /\ x.key = None
  OBVIOUS
<1>4. UNCHANGED <<sealed, joined, tabVars>>
  BY DEF LeaveVault
<1> HIDE DEF x
<1> QED BY <1>1, <1>2, <1>3, <1>4, Kept, ServerMoves

LEMMA RemoveOtherKeeps ==
  ASSUME IInv, NEW d \in Tabs, NEW u \in Users, NEW v \in Vaults, NEW w \in Users,
         RemoveOther(d, u, v, w)
  PROVE  IInv'
<1>1. /\ member' \in [Vaults -> [Users -> MB!Standing]] /\ OwnersBox'
      /\ wrapped' \in [Vaults -> [Users -> Keys \cup {None}]]
      /\ \A c \in Vaults, t \in Users : wrapped'[c][t] \in {c, Blank, None}
  BY BoxMoves DEF RemoveOther, MB!Leave, MB!Standing
<1>2. task' = [task EXCEPT ![d] = NoTask]
  BY UserAt, Kept DEF RemoveOther
<1> QED BY <1>1, <1>2, ServerMovesAndEnds DEF RemoveOther

LEMMA SaveCredentialKeeps ==
  ASSUME IInv, NEW d \in Tabs, NEW u \in Users, NEW v \in Vaults, SaveCredential(d, u, v)
  PROVE  IInv'
<1>1. held[d][v] \in {v, Blank, None} /\ held[d][v] \in Keys \cup {None}
  BY DEF IInv, TypeOK, OnlyOwnKeys
<1>2. sealed' = [sealed EXCEPT ![v] = held[d][v]]
  BY DEF SaveCredential, ResolveVaultDek
<1>3. /\ sealed' \in [Vaults -> Keys \cup {None}]
      /\ \A w \in Vaults : sealed'[w] = IF w = v THEN held[d][v] ELSE sealed[w]
  BY <1>1, <1>2 DEF IInv, TypeOK
<1>4. \A w \in Vaults : sealed'[w] \in {w, Blank, None}
  BY <1>1, <1>3 DEF IInv, OnlyOwnKeys
<1>5. UNCHANGED <<member, wrapped, joined, tabVars, task>>
  BY DEF SaveCredential
<1>6. TypeOK' /\ OnlyOwnKeys' /\ OwnersBox'
  BY <1>3, <1>4, <1>5 DEF IInv, TypeOK, OnlyOwnKeys, OwnersBox, tabVars
<1>7. \A c \in Tabs : PageInv(c)'
  BY <1>5 DEF IInv, PageInv, LetIn, tabVars
<1> QED BY <1>6, <1>7 DEF IInv

-----------------------------------------------------------------------------
(* What a tab does by itself.                                              *)
TabMoves(d) ==
    /\ UNCHANGED serverVars
    /\ realm' \in [Tabs -> SUBSET Users] /\ signed' \in [Tabs -> Users \cup {None}]
    /\ unlocked' \in [Tabs -> Users \cup {None}]
    /\ held' \in [Tabs -> [Vaults -> Keys \cup {None}]]
    /\ task' \in [Tabs -> Task]
    /\ \A c \in Tabs \ {d} : /\ realm'[c] = realm[c] /\ signed'[c] = signed[c]
                             /\ held'[c] = held[c] /\ task'[c] = task[c]

LEMMA TabKeeps ==
  ASSUME IInv, NEW d \in Tabs, TabMoves(d), PageInv(d)',
         \A v \in Vaults : held'[d][v] \in {v, Blank, None},
         task'[d].key \in {task'[d].vault, Blank, None}
  PROVE  IInv'
<1>1. UNCHANGED <<member, wrapped, sealed, joined>>
  BY DEF TabMoves, serverVars
<1>2. TypeOK' /\ OwnersBox'
  BY <1>1 DEF IInv, TypeOK, OwnersBox, TabMoves
<1>3. OnlyOwnKeys'
  BY <1>1 DEF IInv, OnlyOwnKeys, TabMoves
<1>4. \A c \in Tabs \ {d} : PageInv(c)'
  BY <1>1, StillPage DEF Grows, IInv, TypeOK, TabMoves
<1> QED BY <1>2, <1>3, <1>4 DEF IInv

(* What the invariant says of one tab.                                     *)
LEMMA TabFacts ==
  ASSUME IInv, NEW d \in Tabs
  PROVE  /\ PageInv(d) /\ task[d] \in Task /\ task[d].key \in {task[d].vault, Blank, None}
         /\ held[d] \in [Vaults -> Keys \cup {None}]
         /\ \A v \in Vaults : held[d][v] \in {v, Blank, None}
         /\ realm[d] \subseteq Users
BY DEF IInv, TypeOK, OnlyOwnKeys

LEMMA TokenKeeps ==
  ASSUME IInv, NEW d \in Tabs, NEW u \in Users, SignIn(d, u) \/ Refresh(d, u)
  PROVE  IInv'
<1>1. /\ Token(d, u) /\ UNCHANGED <<serverVars, held, task>>
      /\ unlocked' \in [Tabs -> Users \cup {None}]
  BY DEF SignIn, Refresh, IInv, TypeOK
<1>2. realm[d] \cup {u} \in SUBSET Users
  BY TabFacts
<1>3. realm' = [realm EXCEPT ![d] = realm[d] \cup {u}] /\ signed' = [signed EXCEPT ![d] = u]
  BY <1>1 DEF Token
<1>4. TabMoves(d) /\ realm'[d] = realm[d] \cup {u} /\ signed'[d] = u
  BY <1>1, <1>2, <1>3 DEF TabMoves, IInv, TypeOK
<1>5. PageInv(d)'
  BY <1>1, <1>4, TabFacts DEF PageInv, LetIn, serverVars
<1> QED BY <1>1, <1>4, <1>5, TabFacts, TabKeeps

LEMMA WipeKeeps ==
  ASSUME IInv, NEW d \in Tabs, Wipe(d)
  PROVE  IInv'
<1> DEFINE key == IF task[d].op = "invite" THEN Blank ELSE task[d].key
           x == [task[d] EXCEPT !.key = key]
<1>1. task[d] \in Task /\ key \in {task[d].vault, Blank, None} /\ key \in Keys \cup {None}
  BY TabFacts DEF Task, Keys
<1>2. task' = [task EXCEPT ![d] = x]
  BY <1>1 DEF Wipe, IInv, TypeOK, Task
<1> HIDE DEF key
<1>3. /\ x \in Task /\ x.op = task[d].op /\ x.vault = task[d].vault
      /\ x.user = task[d].user /\ x.target = task[d].target /\ x.key = key
  BY <1>1 DEF Task
<1> HIDE DEF x
<1>4. task' \in [Tabs -> Task] /\ \A c \in Tabs : task'[c] = IF c = d THEN x ELSE task[c]
  BY <1>2, <1>3 DEF IInv, TypeOK
<1>5. /\ held' \in [Tabs -> [Vaults -> Keys \cup {None}]]
      /\ \A c \in Tabs : held'[c] = IF c = d THEN NoKeys ELSE held[c]
  BY NoTaskFields DEF Wipe, IInv, TypeOK
<1>6. TabMoves(d) /\ signed'[d] = None
  BY <1>4, <1>5 DEF Wipe, TabMoves, IInv, TypeOK
<1>7. PageInv(d)'
  <2>1. PageInv(d) /\ realm' = realm /\ UNCHANGED serverVars
    BY TabFacts DEF Wipe
  <2>2. task'[d] = x /\ held'[d] = NoKeys
    BY <1>4, <1>5
  <2>3. \A v : LetIn(d, v) => LetIn(d, v)'
    BY <2>1 DEF LetIn, serverVars
  <2> QED BY <1>3, <1>6, <2>1, <2>2, <2>3, NoTaskFields DEF PageInv
<1> QED BY <1>1, <1>3, <1>4, <1>5, <1>6, <1>7, NoTaskFields, TabKeeps

LEMMA NewPageKeeps ==
  ASSUME IInv, NEW d \in Tabs, NewPage(d)
  PROVE  IInv'
<1>1. TabMoves(d) /\ held'[d] = NoKeys /\ task'[d] = NoTask /\ signed'[d] = None
  BY NoTaskFields DEF NewPage, Begin, TabMoves, IInv, TypeOK
<1>2. PageInv(d)'
  BY <1>1, NoTaskFields DEF PageInv
<1> QED BY <1>1, <1>2, NoTaskFields, TabKeeps

(* Ends of a handler: the key it has is stored, dropped, or nothing.       *)
LEMMA HandlerEndsKeeps ==
  ASSUME IInv, NEW d \in Tabs, StoreKey(d) \/ DropKey(d) \/ Lost(d)
  PROVE  IInv'
<1>1. /\ task' \in [Tabs -> Task] /\ task'[d] = NoTask
      /\ \A c \in Tabs \ {d} : task'[c] = task[c]
      /\ UNCHANGED <<serverVars, realm, signed, unlocked>>
  BY NoTaskFields DEF StoreKey, DropKey, Lost, Begin, tabVars, IInv, TypeOK
<1>2. PICK keys \in [Vaults -> Keys \cup {None}] :
          /\ held' = [held EXCEPT ![d] = keys]
          /\ \A v \in Vaults : keys[v] \in {v, Blank, None}
          /\ \A v \in Vaults : keys[v] # None => LetIn(d, v)
  <2>1. ASSUME NEW key, NEW v \in Vaults, key \in {v, Blank, None}, key # None => LetIn(d, v),
               held' = [held EXCEPT ![d][v] = key]
        PROVE  \E keys \in [Vaults -> Keys \cup {None}] :
                  /\ held' = [held EXCEPT ![d] = keys]
                  /\ \A w \in Vaults : keys[w] \in {w, Blank, None}
                  /\ \A w \in Vaults : keys[w] # None => LetIn(d, w)
    <3> DEFINE keys == [held[d] EXCEPT ![v] = key]
    <3>1. key \in Keys \cup {None} BY <2>1 DEF Keys
    <3>2. /\ keys \in [Vaults -> Keys \cup {None}]
          /\ \A w \in Vaults : keys[w] = IF w = v THEN key ELSE held[d][w]
      BY <3>1, TabFacts
    <3>3. held' = [held EXCEPT ![d] = keys] BY <2>1
    <3>4. \A w \in Vaults : held[d][w] # None => LetIn(d, w) BY TabFacts DEF PageInv
    <3> HIDE DEF keys
    <3> QED BY <2>1, <3>2, <3>3, <3>4, TabFacts
  <2>2. CASE StoreKey(d)
    <3>1. task[d].vault \in Vaults /\ LetIn(d, task[d].vault)
      BY <2>2, TabFacts DEF StoreKey, PageInv
    <3>2. task[d].key \in {task[d].vault, Blank, None} BY TabFacts
    <3>3. held' = [held EXCEPT ![d][task[d].vault] = task[d].key] BY <2>2 DEF StoreKey
    <3> QED BY <2>1, <3>1, <3>2, <3>3
  <2>3. CASE DropKey(d)
    <3>1. task[d].vault \in Vaults
      BY <2>3, TabFacts DEF DropKey, PageInv
    <3> QED BY <2>1, <2>3, <3>1 DEF DropKey
  <2>4. CASE Lost(d)
    <3>1. held' = [held EXCEPT ![d] = held[d]]
      BY <2>4 DEF Lost, tabVars, IInv, TypeOK
    <3> QED BY <3>1, TabFacts DEF PageInv
  <2> QED BY <2>2, <2>3, <2>4
<1>3. TabMoves(d) /\ held'[d] = keys
  BY <1>1, <1>2 DEF TabMoves, IInv, TypeOK
<1>4. PageInv(d)'
  BY <1>1, <1>2, <1>3, TabFacts, NoTaskFields DEF PageInv, LetIn, serverVars
<1> QED BY <1>1, <1>2, <1>3, <1>4, NoTaskFields, TabKeeps

LEMMA LookupInviteeKeeps ==
  ASSUME IInv, NEW d \in Tabs, NEW u \in Users, NEW v \in Vaults, NEW w \in Users,
         LookupInvitee(d, u, v, w)
  PROVE  IInv'
<1> DEFINE x == [op |-> "invite", vault |-> v, user |-> u, target |-> w, key |-> held[d][v]]
<1>1. task' = [task EXCEPT ![d] = x] /\ UNCHANGED <<serverVars, tabVars>>
  BY DEF LookupInvitee, Begin
<1>2. /\ x \in Task /\ x.op = "invite" /\ x.vault = v /\ x.user = u /\ x.target = w
      /\ x.key \in {v, Blank, None}
  BY TabFacts DEF Task
<1> HIDE DEF x
<1>3. task' \in [Tabs -> Task] /\ \A c \in Tabs : task'[c] = IF c = d THEN x ELSE task[c]
  BY <1>1, <1>2 DEF IInv, TypeOK
<1>4. TabMoves(d) /\ task'[d] = x /\ held' = held
  BY <1>1, <1>3 DEF TabMoves, tabVars, IInv, TypeOK
<1>5. PageInv(d)'
  <2>1. \A c : LetIn(d, c) => LetIn(d, c)' BY <1>1 DEF LetIn, serverVars, tabVars
  <2>2. signed' = signed /\ realm' = realm BY <1>1 DEF tabVars
  <2> QED BY <1>2, <1>4, <2>1, <2>2, TabFacts DEF PageInv
<1> QED BY <1>2, <1>4, <1>5, TabFacts, TabKeeps

-----------------------------------------------------------------------------
LEMMA NextInv == IInv /\ [Next]_vars => IInv'
<1> SUFFICES ASSUME IInv, [Next]_vars  PROVE IInv'
  OBVIOUS
<1>1. CASE UNCHANGED vars
  BY <1>1
  DEF vars, serverVars, tabVars, IInv, TypeOK, OnlyOwnKeys, OwnersBox, PageInv, LetIn
<1>2. ASSUME NEW d \in Tabs,
             \/ Wipe(d) \/ NewPage(d)
             \/ StoreKey(d) \/ Lost(d) \/ SendInvite(d) \/ DropKey(d)
      PROVE  IInv'
  BY <1>2, WipeKeeps, NewPageKeeps, HandlerEndsKeeps, SendInviteKeeps
<1>3. ASSUME NEW d \in Tabs, NEW u \in Users, SignIn(d, u) \/ Refresh(d, u)  PROVE IInv'
  BY <1>3, TokenKeeps
<1>4. ASSUME NEW d \in Tabs, NEW u \in Users, NEW v \in Vaults,
             \/ CreateVault(d, u, v) \/ AcceptInvite(d, u, v) \/ DeclineInvite(d, u, v)
             \/ LeaveVault(d, u, v) \/ SaveCredential(d, u, v)
             \/ \E w \in Users : LookupInvitee(d, u, v, w) \/ RemoveOther(d, u, v, w)
      PROVE  IInv'
  BY <1>4, CreateVaultKeeps, AcceptInviteKeeps, DeclineInviteKeeps, LeaveVaultKeeps,
     SaveCredentialKeeps, LookupInviteeKeeps, RemoveOtherKeeps
<1> QED BY <1>1, <1>2, <1>3, <1>4 DEF Next

LEMMA Invariance == Spec => []IInv
<1> QED BY InitInv, NextInv, PTL DEF Spec

THEOREM TypeCorrect == Spec => []TypeOK
<1>1. IInv => TypeOK
  BY DEF IInv
<1> QED BY <1>1, Invariance, PTL

(* Under a vault's name there is never another vault's key nor a master    *)
(* key, in a credential, an invitation or a store, whoever's tokens and    *)
(* keys mix in a page; and its owner's box has the vault's own key.        *)
THEOREM KeysStayApart == Spec => []OwnKeyOrBlank
<1>1. IInv => OwnKeyOrBlank
  BY DEF IInv, OnlyOwnKeys, OwnersBox, OwnKeyOrBlank
<1> QED BY <1>1, Invariance, PTL

(* A page has a vault's key only if somebody whose token it had was let    *)
(* into the vault.                                                         *)
THEOREM KeysFollowMembership == Spec => []HeldAfterJoining
<1>1. IInv => HeldAfterJoining
  BY DEF IInv, PageInv, LetIn, HeldAfterJoining
<1> QED BY <1>1, Invariance, PTL

-----------------------------------------------------------------------------
(* Account, as Client instantiates it.                                     *)
ParamSets == 1..MaxParams
Kits      == [password : Passwords, secret : Secrets, phrase : Phrases]
KeysOf(sk) == [dek |-> AC!Dek(sk), signing |-> AC!SigningSk(sk), kx |-> AC!KxSk(sk)]
Keyrings  == {KeysOf(sk) : sk \in Secrets}

WizardShape ==
    [step : AC!Steps, address : Accounts \cup {None}, params : ParamSets \cup {None},
     password : Passwords \cup {None}, secret : Secrets \cup {None},
     phrase : Phrases \cup {None}]
TabShape ==
    [page : {"login", "2fa", "home"}, sending : AC!Request \cup {None},
     token : Accounts \cup {None}, keys : Keyrings \cup {None},
     stash : Accounts \cup {None}, handoff : AC!Typed \cup {None}, via : {"none", "2fa"}]

Shapes ==
    /\ params \in ParamSets
    /\ DOMAIN users = Accounts
    /\ factors \in [Accounts -> SUBSET {"totp", "webauthn"}]
    /\ DOMAIN totp = Accounts
    /\ wizard \in [Wizards -> WizardShape]
    /\ drawn \subseteq Secrets \cup Phrases
    /\ notes \in [Accounts -> SUBSET Kits]
    /\ signin \in [Browsers -> TabShape]
    /\ jar \in [Browsers -> SUBSET Accounts]

(* A row is the envelope of a kit its user has written down.               *)
Written(a) == \E kit \in notes[a], p \in ParamSets : users[a] = AC!Envelope(a, kit, p)
RowsInv == \A a \in Accounts : users[a] # None => Written(a)

TotpInv == \A a \in Accounts : totp[a] # None <=> "totp" \in factors[a]

(* What a wizard has by the time it shows a step.                          *)
Progress(q, known) ==
    /\ q.step # "invite" => q.address \in Accounts /\ q.params \in ParamSets
    /\ q.step \notin {"invite", "master-pw"} => q.password \in Passwords
    /\ q.step \in {"recovery-reveal", "recovery-confirm", "submitting"} => q.secret \in Secrets
    /\ q.step \in {"recovery-confirm", "submitting"} =>
          q.phrase \in Phrases /\ AC!Kit(q) \in known[q.address]

(* Keys are beside a token; the browser's cookie may name the account of   *)
(* the token; and whom a tab deals with has a row.                         *)
TabInv(q, A) ==
    /\ q.keys # None => q.token # None
    /\ q.token # None => q.token \in A /\ users[q.token] # None
    /\ q.stash # None => users[q.stash] # None
    /\ q.sending # None /\ q.sending.unlocking => users[q.sending.typed.address] # None

AccountInv ==
    /\ Shapes /\ RowsInv /\ TotpInv
    /\ \A w \in Wizards : Progress(wizard[w], notes)
    /\ \A b \in Browsers : TabInv(signin[b], jar[b])

-----------------------------------------------------------------------------
LEMMA AccountInit == AC!Init => AccountInv
<1> SUFFICES ASSUME AC!Init  PROVE AccountInv
  OBVIOUS
<1>1. AC!NewWizard \in WizardShape /\ AC!NewWizard.step = "invite"
  BY DEF AC!NewWizard, WizardShape, AC!Steps
<1>2. AC!NoTab \in TabShape /\ TabInv(AC!NoTab, {})
  BY DEF AC!NoTab, TabShape, TabInv
<1>3. 1 \in ParamSets
  BY BoundsAssumption DEF ParamSets
<1>4. Shapes
  BY <1>1, <1>2, <1>3 DEF AC!Init, Shapes
<1>5. RowsInv /\ TotpInv
  BY DEF AC!Init, RowsInv, TotpInv
<1>6. \A w \in Wizards : Progress(wizard[w], notes)
  BY <1>1 DEF AC!Init, Progress
<1> QED BY <1>2, <1>4, <1>5, <1>6 DEF AC!Init, AccountInv

(* What opens a row are its own keys.                                      *)
LEMMA UnlockedKeys ==
  ASSUME Shapes, RowsInv, NEW a \in Accounts, users[a] # None, NEW typed,
         AC!UnlockSecrets(users[a], typed) # None
  PROVE  /\ AC!UnlockSecrets(users[a], typed) \in Keyrings
         /\ AC!UnlockSecrets(users[a], typed).dek = users[a].dek.key
<1>1. PICK kit \in Kits, p \in ParamSets : users[a] = AC!Envelope(a, kit, p)
  BY DEF RowsInv, Written, Shapes
<1> DEFINE row == users[a]
           kek == AC!MasterKek(typed.address, typed.password, typed.secret, row.salt, row.params)
           dek == AC!Unwrap(row.dek, kek, AC!Aad("master", typed.address, row.params))
           sign == AC!Unwrap(row.signing, kek, AC!Aad("sign-sk", typed.address, row.params))
           kx == AC!Unwrap(row.kx, kek, AC!Aad("kx-sk", typed.address, row.params))
<1>2. /\ row.dek.key = AC!Dek(kit.secret) /\ row.signing.key = AC!SigningSk(kit.secret)
      /\ row.kx.key = AC!KxSk(kit.secret)
  BY <1>1 DEF AC!Envelope, AC!Wrap
<1>3. AC!UnlockSecrets(row, typed) = IF None \in {dek, sign, kx} THEN None
                                  ELSE [dek |-> dek, signing |-> sign, kx |-> kx]
  BY DEF AC!UnlockSecrets
<1>4. None \notin {dek, sign, kx}
  BY <1>3
<1>5. dek = row.dek.key /\ sign = row.signing.key /\ kx = row.kx.key
  BY <1>4 DEF AC!Unwrap
<1>6. AC!UnlockSecrets(row, typed) = KeysOf(kit.secret)
  BY <1>2, <1>3, <1>4, <1>5 DEF KeysOf
<1>7. kit.secret \in Secrets
  BY DEF Kits
<1> QED BY <1>2, <1>6, <1>7 DEF Keyrings, KeysOf

-----------------------------------------------------------------------------
(* A step of a wizard, and a step of a tab.                                *)
LEMMA WizardMoves ==
  ASSUME AccountInv, NEW w \in Wizards, NEW q \in WizardShape,
         wizard' = [wizard EXCEPT ![w] = q], Progress(q, notes'),
         drawn' \subseteq Secrets \cup Phrases, notes' \in [Accounts -> SUBSET Kits],
         \A a \in Accounts : notes[a] \subseteq notes'[a],
         UNCHANGED <<params, users, factors, totp, signin, jar>>
  PROVE  AccountInv'
<1>1. /\ wizard' \in [Wizards -> WizardShape]
      /\ \A x \in Wizards : wizard'[x] = IF x = w THEN q ELSE wizard[x]
  BY DEF AccountInv, Shapes
<1>2. Shapes'
  BY <1>1 DEF AccountInv, Shapes
<1>3. RowsInv'
  BY DEF AccountInv, RowsInv, Written
<1>4. TotpInv'
  BY DEF AccountInv, TotpInv
<1>5. \A x \in Wizards : Progress(wizard'[x], notes')
  <2>1. \A x \in Wizards : Progress(wizard[x], notes)
    BY DEF AccountInv
  <2> QED BY <1>1, <2>1 DEF Progress
<1>6. \A b \in Browsers : TabInv(signin[b], jar[b])'
  BY DEF AccountInv, TabInv
<1> QED BY <1>2, <1>3, <1>4, <1>5, <1>6 DEF AccountInv

LEMMA SigninMoves ==
  ASSUME AccountInv, NEW b \in Browsers, NEW q \in TabShape, AC!Show(b, q),
         NEW A \in SUBSET Accounts, AC!SetCookie(b, A), TabInv(q, A), AC!ServerAsIs
  PROVE  AccountInv'
<1>1. /\ signin' \in [Browsers -> TabShape]
      /\ \A x \in Browsers : signin'[x] = IF x = b THEN q ELSE signin[x]
      /\ jar' \in [Browsers -> SUBSET Accounts]
      /\ \A x \in Browsers : jar'[x] = IF x = b THEN A ELSE jar[x]
  BY DEF AccountInv, Shapes, AC!Show, AC!SetCookie
<1>2. UNCHANGED <<params, users, factors, totp, wizard, drawn, notes>>
  BY DEF AC!ServerAsIs, AC!wizardVars
<1>3. Shapes'
  BY <1>1, <1>2 DEF AccountInv, Shapes
<1>4. RowsInv'
  BY <1>2 DEF AccountInv, RowsInv, Written
<1>5. TotpInv'
  BY <1>2 DEF AccountInv, TotpInv
<1>6. \A w \in Wizards : Progress(wizard[w], notes)'
  BY <1>2 DEF AccountInv
<1>7. \A x \in Browsers : TabInv(signin'[x], jar'[x])
  BY <1>1 DEF AccountInv
<1>8. \A x \in Browsers : TabInv(signin[x], jar[x])'
  BY <1>2, <1>7 DEF TabInv
<1> QED BY <1>3, <1>4, <1>5, <1>6, <1>8 DEF AccountInv

(* What the wizard's user has noted stays.                                 *)
LEMMA WizardStep ==
  ASSUME AccountInv, NEW w \in Wizards,
         \/ \E a \in Accounts : AC!RedeemInvite(w, a)
         \/ \E pw \in Passwords : AC!SetPassword(w, pw)
         \/ \E sk \in Secrets : AC!ConfirmSecretKey(w, sk)
         \/ AC!ConfirmPhrase(w) \/ AC!BackToReveal(w) \/ AC!LeaveWizard(w)
  PROVE  AccountInv'
<1>1. PICK q : q = wizard[w]
  OBVIOUS
<1>2. /\ q \in WizardShape /\ Progress(q, notes) /\ params \in ParamSets
      /\ drawn \subseteq Secrets \cup Phrases /\ notes \in [Accounts -> SUBSET Kits]
  BY <1>1 DEF AccountInv, Shapes
<1>3. AC!NewWizard \in WizardShape /\ Progress(AC!NewWizard, notes)
  BY DEF AC!NewWizard, WizardShape, AC!Steps, Progress
<1>4. ASSUME NEW r \in WizardShape, Progress(r, notes),
             wizard' = [wizard EXCEPT ![w] = r],
             drawn' \subseteq Secrets \cup Phrases, UNCHANGED notes, AC!Unmoved
      PROVE  AccountInv'
  BY <1>2, <1>4, WizardMoves DEF AC!Unmoved, AC!tabVars
<1>5. ASSUME NEW a \in Accounts, AC!RedeemInvite(w, a)  PROVE AccountInv'
  <2> DEFINE r == [[AC!NewWizard EXCEPT !.address = a, !.params = params] EXCEPT !.step = "master-pw"]
  <2>1. r \in WizardShape /\ Progress(r, notes)
    BY <1>2 DEF AC!NewWizard, WizardShape, AC!Steps, Progress
  <2>2. wizard' = [wizard EXCEPT ![w] = r] /\ UNCHANGED <<drawn, notes>> /\ AC!Unmoved
    BY <1>5 DEF AC!RedeemInvite, AC!To
  <2> QED BY <1>2, <1>4, <2>1, <2>2
<1>6. ASSUME NEW pw \in Passwords, AC!SetPassword(w, pw)  PROVE AccountInv'
  <2> DEFINE r == [[q EXCEPT !.password = pw] EXCEPT !.step = "secret-key"]
  <2>1. r \in WizardShape /\ Progress(r, notes)
    BY <1>1, <1>2, <1>6 DEF WizardShape, AC!Steps, Progress, AC!SetPassword
  <2>2. wizard' = [wizard EXCEPT ![w] = r] /\ UNCHANGED <<drawn, notes>> /\ AC!Unmoved
    BY <1>1, <1>6 DEF AC!SetPassword, AC!To
  <2> QED BY <1>2, <1>4, <2>1, <2>2
<1>7. ASSUME NEW sk \in Secrets, AC!ConfirmSecretKey(w, sk)  PROVE AccountInv'
  <2> DEFINE r == [[q EXCEPT !.secret = sk] EXCEPT !.step = "recovery-reveal"]
  <2>1. r \in WizardShape /\ Progress(r, notes)
    BY <1>1, <1>2, <1>7 DEF WizardShape, AC!Steps, Progress, AC!ConfirmSecretKey
  <2>2. /\ wizard' = [wizard EXCEPT ![w] = r] /\ UNCHANGED notes /\ AC!Unmoved
        /\ drawn' \subseteq Secrets \cup Phrases
    BY <1>1, <1>2, <1>7 DEF AC!ConfirmSecretKey, AC!To
  <2> QED BY <1>4, <2>1, <2>2
<1>8. CASE AC!ConfirmPhrase(w)
  <2> DEFINE r == [q EXCEPT !.step = "submitting"]
  <2>1. r \in WizardShape
    BY <1>2 DEF WizardShape, AC!Steps
  <2>2. Progress(r, notes)
    BY <1>1, <1>2, <1>8 DEF WizardShape, Progress, AC!ConfirmPhrase, AC!Kit
  <2>3. wizard' = [wizard EXCEPT ![w] = r] /\ UNCHANGED <<drawn, notes>> /\ AC!Unmoved
    BY <1>1, <1>8 DEF AC!ConfirmPhrase, AC!To
  <2> QED BY <1>2, <1>4, <2>1, <2>2, <2>3
<1>9. CASE AC!BackToReveal(w)
  <2> DEFINE r == [q EXCEPT !.step = "recovery-reveal"]
  <2>1. r \in WizardShape /\ Progress(r, notes)
    BY <1>1, <1>2, <1>9 DEF WizardShape, AC!Steps, Progress, AC!BackToReveal
  <2>2. wizard' = [wizard EXCEPT ![w] = r] /\ UNCHANGED <<drawn, notes>> /\ AC!Unmoved
    BY <1>1, <1>9 DEF AC!BackToReveal, AC!To
  <2> QED BY <1>2, <1>4, <2>1, <2>2
<1>10. CASE AC!LeaveWizard(w)
  BY <1>2, <1>3, <1>4, <1>10 DEF AC!LeaveWizard
<1> QED BY <1>5, <1>6, <1>7, <1>8, <1>9, <1>10

LEMMA RevealStep ==
  ASSUME AccountInv, NEW w \in Wizards, NEW phrase \in Phrases, AC!RevealPhrase(w, phrase)
  PROVE  AccountInv'
<1>1. PICK q : q = wizard[w]
  OBVIOUS
<1>2. /\ q \in WizardShape /\ Progress(q, notes) /\ q.step = "recovery-reveal"
      /\ drawn \subseteq Secrets \cup Phrases /\ notes \in [Accounts -> SUBSET Kits]
  BY <1>1 DEF AccountInv, Shapes, AC!RevealPhrase
<1>3. q.address \in Accounts /\ q.password \in Passwords /\ q.secret \in Secrets
      /\ q.params \in ParamSets
  BY <1>2 DEF Progress
<1> DEFINE r == [[q EXCEPT !.phrase = phrase] EXCEPT !.step = "recovery-confirm"]
           kit == [AC!Kit(q) EXCEPT !.phrase = phrase]
<1>4. kit \in Kits /\ kit = AC!Kit(r)
  BY <1>2, <1>3 DEF AC!Kit, Kits, WizardShape
<1>5. /\ r \in WizardShape /\ r.address = q.address /\ r.params = q.params
      /\ r.password = q.password /\ r.secret = q.secret /\ r.phrase = phrase
  BY <1>2 DEF WizardShape, AC!Steps
<1>6. /\ wizard' = [wizard EXCEPT ![w] = r] /\ drawn' = drawn \cup {phrase}
      /\ notes' = [notes EXCEPT ![q.address] = notes[q.address] \cup {kit}] /\ AC!Unmoved
  BY <1>1 DEF AC!RevealPhrase, AC!To
<1> HIDE DEF r, kit
<1>7. /\ notes' \in [Accounts -> SUBSET Kits]
      /\ \A a \in Accounts : notes[a] \subseteq notes'[a]
      /\ kit \in notes'[q.address]
  <2>1. notes[q.address] \cup {kit} \in SUBSET Kits
    BY <1>2, <1>3, <1>4
  <2>2. \A a \in Accounts :
            notes'[a] = IF a = q.address THEN notes[q.address] \cup {kit} ELSE notes[a]
    BY <1>2, <1>6
  <2> QED BY <1>2, <1>3, <1>6, <2>1, <2>2
<1>8. Progress(r, notes')
  BY <1>3, <1>4, <1>5, <1>7 DEF Progress
<1>9. drawn' \subseteq Secrets \cup Phrases
  BY <1>2, <1>6
<1> QED BY <1>5, <1>6, <1>7, <1>8, <1>9, WizardMoves DEF AC!Unmoved, AC!tabVars

(* An account appears once, as the envelope of its user's kit.             *)
LEMMA SubmitSignupStep ==
  ASSUME AccountInv, NEW w \in Wizards, AC!SubmitSignup(w)
  PROVE  AccountInv'
<1>1. PICK q : q = wizard[w]
  OBVIOUS
<1>2. /\ q \in WizardShape /\ Progress(q, notes) /\ q.step = "submitting" /\ Shapes
  BY <1>1 DEF AccountInv, Shapes, AC!SubmitSignup
<1>3. q.address \in Accounts /\ q.params \in ParamSets /\ AC!Kit(q) \in notes[q.address]
  BY <1>2 DEF Progress
<1>4. PICK a : a = q.address
  OBVIOUS
<1>5. UNCHANGED <<params, factors, totp, drawn, notes, signin, jar>>
  BY DEF AC!SubmitSignup, AC!tabVars
<1>6. wizard' = [wizard EXCEPT ![w] = AC!NewWizard]
  BY DEF AC!SubmitSignup
<1>7. AC!NewWizard \in WizardShape /\ Progress(AC!NewWizard, notes)
  BY DEF AC!NewWizard, WizardShape, AC!Steps, Progress
<1>8. /\ DOMAIN users' = Accounts
      /\ \A x \in Accounts : users[x] # None => users'[x] = users[x]
      /\ \A x \in Accounts : users'[x] = users[x] \/ (x = a /\ users'[x] = AC!Envelope(a, AC!Kit(q), q.params))
  BY <1>1, <1>2, <1>3, <1>4 DEF AC!SubmitSignup, Shapes
<1>9. Shapes'
  BY <1>2, <1>5, <1>6, <1>7, <1>8 DEF Shapes
<1>10. RowsInv'
  BY <1>3, <1>4, <1>5, <1>8 DEF AccountInv, RowsInv, Written
<1>11. TotpInv'
  BY <1>5, <1>8 DEF AccountInv, TotpInv
<1>12. \A x \in Wizards : Progress(wizard'[x], notes')
  BY <1>2, <1>5, <1>6, <1>7 DEF AccountInv, Shapes
<1>13. \A b \in Browsers : TabInv(signin[b], jar[b])'
  <2>1. ASSUME NEW b \in Browsers  PROVE TabInv(signin[b], jar[b])'
    <3>1. signin[b] \in TabShape /\ TabInv(signin[b], jar[b])
      BY DEF AccountInv, Shapes
    <3>2. signin[b].sending # None => signin[b].sending.typed.address \in Accounts
      BY <3>1 DEF TabShape, AC!Request, AC!Typed
    <3>3. /\ signin[b].token # None => signin[b].token \in Accounts
          /\ signin[b].stash # None => signin[b].stash \in Accounts
      BY <3>1 DEF TabShape
    <3> QED BY <1>5, <1>8, <3>1, <3>2, <3>3 DEF TabInv
  <2> QED BY <2>1
<1> QED BY <1>9, <1>10, <1>11, <1>12, <1>13 DEF AccountInv

-----------------------------------------------------------------------------
(* The sign-in tab.                                                        *)
LEMMA SigninFacts ==
  ASSUME AccountInv, NEW b \in Browsers
  PROVE  /\ signin[b] \in TabShape /\ TabInv(signin[b], jar[b]) /\ jar[b] \in SUBSET Accounts
         /\ params \in ParamSets
BY DEF AccountInv, Shapes

(* The cookie that stays is set once more.                                 *)
LEMMA CookieStays ==
  ASSUME AccountInv, NEW b \in Browsers, UNCHANGED jar
  PROVE  AC!SetCookie(b, jar[b])
BY DEF AccountInv, Shapes, AC!SetCookie

(* What is left of a tab after an answer, a wipe, a page load, a way to    *)
(* another page.                                                           *)
LEMMA AnsweredShape ==
  ASSUME NEW q \in TabShape
  PROVE  /\ AC!Answered(q) \in TabShape /\ AC!Answered(q).sending = None
         /\ AC!Answered(q).keys = q.keys /\ AC!Answered(q).token = q.token
         /\ AC!Answered(q).stash = q.stash /\ AC!Answered(q).page = q.page
BY DEF AC!Answered, TabShape

LEMMA LoadedShape ==
  ASSUME NEW q \in TabShape, NEW page \in {"login", "2fa", "home"}
  PROVE  /\ AC!Loaded(q, page) \in TabShape /\ AC!Loaded(q, page).sending = None
         /\ AC!Loaded(q, page).keys = None /\ AC!Loaded(q, page).token = None
         /\ AC!Loaded(q, page).stash = q.stash
<1>1. /\ AC!NoTab \in TabShape /\ AC!NoTab.keys = None /\ AC!NoTab.token = None
      /\ AC!NoTab.sending = None
  BY DEF AC!NoTab, TabShape
<1>2. q.stash \in Accounts \cup {None}
  BY DEF TabShape
<1> QED BY <1>1, <1>2 DEF AC!Loaded, TabShape

LEMMA TurnedShape ==
  ASSUME NEW q \in TabShape, NEW page \in {"login", "2fa", "home"}
  PROVE  /\ AC!Turned(q, page) \in TabShape /\ AC!Turned(q, page).sending = q.sending
         /\ AC!Turned(q, page).keys = q.keys /\ AC!Turned(q, page).token = q.token
         /\ AC!Turned(q, page).stash = q.stash /\ AC!Turned(q, page).page = page
BY DEF AC!Turned, TabShape

LEMMA WipedShape ==
  ASSUME NEW q \in TabShape
  PROVE  /\ AC!Wiped(q) \in TabShape /\ AC!Wiped(q).keys = None /\ AC!Wiped(q).token = None
         /\ AC!Wiped(q).stash = q.stash
         /\ AC!Wiped(q).sending = q.sending \/ AC!Wiped(q).sending = None
<1>1. CASE q.page = "home"
  BY <1>1, LoadedShape DEF AC!Wiped
<1>2. CASE q.page # "home"
  BY <1>2 DEF AC!Wiped, TabShape
<1> QED BY <1>1, <1>2

(* The account of a request, and the account a cookie names.               *)
LEMMA RequestFacts ==
  ASSUME NEW q \in TabShape, q.sending # None
  PROVE  /\ q.sending \in AC!Request /\ q.sending.typed \in AC!Typed
         /\ q.sending.typed.address \in Accounts
BY DEF TabShape, AC!Request, AC!Typed

(* Requests of the login page and their answers, before a session.         *)
LEMMA LoginPageStep ==
  ASSUME AccountInv, NEW b \in Browsers,
         \/ AC!LoginFails(b) \/ AC!StepUpRequired(b)
         \/ \E typed \in AC!Typed, cached \in 1..MaxParams : AC!SubmitLogin(b, typed, cached)
  PROVE  AccountInv'
<1>1. PICK q : q = signin[b]
  OBVIOUS
<1>2. q \in TabShape /\ TabInv(q, jar[b]) /\ jar[b] \in SUBSET Accounts
  BY <1>1, SigninFacts
<1>3. ASSUME NEW typed \in AC!Typed, NEW cached \in 1..MaxParams, AC!SubmitLogin(b, typed, cached)
      PROVE  AccountInv'
  <2> DEFINE s == [typed |-> typed, unlocking |-> FALSE,
                   verifier |-> AC!Verifier(typed.secret, cached)]
             r == [q EXCEPT !.sending = s]
  <2>1. s \in AC!Request /\ s.unlocking = FALSE
    BY DEF AC!Request, AC!Verifier, AC!Typed, ParamSets
  <2>2. AC!Show(b, r) /\ AC!SetCookie(b, jar[b]) /\ AC!ServerAsIs
    BY <1>1, <1>3, CookieStays DEF AC!SubmitLogin
  <2> HIDE DEF s
  <2>3. /\ r \in TabShape /\ r.sending = s /\ r.keys = q.keys /\ r.token = q.token
        /\ r.stash = q.stash
    BY <1>2, <2>1 DEF TabShape
  <2>4. TabInv(r, jar[b])
    BY <1>2, <2>1, <2>3 DEF TabInv
  <2> QED BY <1>2, <2>2, <2>3, <2>4, SigninMoves
<1>4. CASE AC!LoginFails(b)
  <2> DEFINE r == AC!Wiped(AC!Answered(q))
             a == q.sending.typed.address
  <2>1. /\ r \in TabShape /\ r.keys = None /\ r.token = None /\ r.sending = None
        /\ r.stash = q.stash
    BY <1>2, AnsweredShape, WipedShape
  <2>2. a \in Accounts
    BY <1>1, <1>2, <1>4, RequestFacts DEF AC!LoginFails, AC!Waiting
  <2>3. PICK A \in SUBSET Accounts : AC!SetCookie(b, A)
    BY <1>1, <1>2, <1>4, <2>2 DEF AC!LoginFails
  <2>4. AC!Show(b, r) /\ AC!ServerAsIs
    BY <1>1, <1>4 DEF AC!LoginFails
  <2> HIDE DEF r
  <2>5. TabInv(r, A)
    BY <1>2, <2>1 DEF TabInv
  <2> QED BY <2>1, <2>3, <2>4, <2>5, SigninMoves
<1>5. CASE AC!StepUpRequired(b)
  <2> DEFINE a == q.sending.typed.address
             t == AC!Turned(AC!Answered(q), "2fa")
             r == [t EXCEPT !.stash = a, !.handoff = q.sending.typed]
  <2>1. a \in Accounts /\ q.sending.typed \in AC!Typed /\ users[a] # None
    BY <1>1, <1>2, <1>5, RequestFacts DEF AC!StepUpRequired, AC!Waiting, AC!Matches
  <2>2. t \in TabShape /\ t.sending = None /\ t.keys = q.keys /\ t.token = q.token
    BY <1>2, AnsweredShape, TurnedShape
  <2>3. AC!Show(b, r) /\ AC!SetCookie(b, jar[b]) /\ AC!ServerAsIs
    BY <1>1, <1>5, CookieStays DEF AC!StepUpRequired
  <2> HIDE DEF a, t
  <2>4. /\ r \in TabShape /\ r.sending = None /\ r.keys = q.keys /\ r.token = q.token
        /\ r.stash = a
    BY <2>1, <2>2 DEF TabShape
  <2>5. TabInv(r, jar[b])
    BY <1>2, <2>1, <2>4 DEF TabInv
  <2> QED BY <1>2, <2>3, <2>4, <2>5, SigninMoves
<1> QED BY <1>3, <1>4, <1>5

(* A session: its token is stored and the cookie names its account.        *)
LEMMA LoginStep ==
  ASSUME AccountInv, NEW b \in Browsers, AC!Login(b)
  PROVE  AccountInv'
<1>1. PICK q, a : q = signin[b] /\ a = q.sending.typed.address
  OBVIOUS
<1>2. q \in TabShape /\ TabInv(q, jar[b])
  BY <1>1, SigninFacts
<1>3. q.sending # None /\ users[a] # None /\ AC!SetCookie(b, {a}) /\ AC!ServerAsIs
  BY <1>1 DEF AC!Login, AC!Matches, AC!Waiting
<1>4. a \in Accounts /\ q.sending \in AC!Request
  BY <1>1, <1>2, <1>3, RequestFacts
<1> DEFINE s == [q.sending EXCEPT !.unlocking = TRUE]
           r == [q EXCEPT !.token = a, !.sending = s]
<1>5. s \in AC!Request /\ s.typed = q.sending.typed
  BY <1>4 DEF AC!Request
<1>6. AC!Show(b, r)
  <2>1. [q EXCEPT !.token = a, !.sending.unlocking = TRUE] = r
    BY <1>2, <1>4 DEF TabShape, AC!Request
  <2> QED BY <1>1, <2>1 DEF AC!Login
<1> HIDE DEF s
<1>7. r \in TabShape /\ r.token = a /\ r.sending = s /\ r.stash = q.stash
  BY <1>2, <1>4, <1>5 DEF TabShape
<1>8. TabInv(r, {a})
  <2> HIDE DEF r
  <2> QED BY <1>1, <1>2, <1>3, <1>4, <1>5, <1>7, NoneIsNoTerm DEF TabInv
<1> QED BY <1>3, <1>4, <1>6, <1>7, <1>8, SigninMoves

(* A page of the authed tree, of an account that has a row.                *)
LEMMA Entered ==
  ASSUME AccountInv, NEW b \in Browsers, NEW q \in TabShape, NEW a \in Accounts,
         a \in jar[b], users[a] # None, AC!Enter(b, q, a), AC!SetCookie(b, jar[b]),
         q.stash # None => users[q.stash] # None,
         q.sending # None /\ q.sending.unlocking => users[q.sending.typed.address] # None,
         AC!ServerAsIs
  PROVE  AccountInv'
<1> DEFINE t == AC!Turned(q, "home")
           r == [t EXCEPT !.token = a]
<1>1. t \in TabShape /\ t.sending = q.sending /\ t.stash = q.stash
  BY TurnedShape
<1>2. AC!Show(b, r)
  BY DEF AC!Enter
<1> HIDE DEF t
<1>3. r \in TabShape /\ r.token = a /\ r.stash = q.stash /\ r.sending = q.sending
  BY <1>1 DEF TabShape
<1> HIDE DEF r
<1>4. TabInv(r, jar[b])
  BY <1>3, NoneIsNoTerm DEF TabInv
<1> QED BY <1>2, <1>3, <1>4, SigninFacts, SigninMoves

(* The accounts a page of the authed tree may come up with.                *)
LEMMA NamedFacts ==
  ASSUME AccountInv, NEW b \in Browsers, NEW a,
         a \in AC!Named(b) \/ (a = signin[b].token /\ a # None)
  PROVE  a \in Accounts /\ a \in jar[b] /\ users[a] # None
BY SigninFacts DEF AC!Named, TabInv, TabShape

LEMMA UnlockStep ==
  ASSUME AccountInv, NEW b \in Browsers, AC!Unlock(b)
  PROVE  AccountInv'
<1>1. PICK q, a, keys :
          /\ q = signin[b] /\ a = q.sending.typed.address
          /\ keys = AC!UnlockSecrets(users[a], q.sending.typed)
  OBVIOUS
<1>2. q \in TabShape /\ TabInv(q, jar[b]) /\ jar[b] \in SUBSET Accounts
  BY <1>1, SigninFacts
<1>3. /\ q.sending # None /\ q.sending.unlocking
      /\ AC!SetCookie(b, jar[b]) /\ AC!ServerAsIs
  BY <1>1, CookieStays DEF AC!Unlock
<1>4. a \in Accounts /\ users[a] # None
  BY <1>1, <1>2, <1>3, RequestFacts DEF TabInv
<1>5. CASE keys = None
  <2> DEFINE r == AC!Wiped(AC!Answered(q))
  <2>1. /\ r \in TabShape /\ r.keys = None /\ r.token = None /\ r.sending = None
        /\ r.stash = q.stash
    BY <1>2, AnsweredShape, WipedShape
  <2>2. AC!Show(b, r)
    BY <1>1, <1>5 DEF AC!Unlock
  <2> HIDE DEF r
  <2>3. TabInv(r, jar[b])
    BY <1>2, <2>1 DEF TabInv
  <2> QED BY <1>2, <1>3, <2>1, <2>2, <2>3, SigninMoves
<1>6. CASE keys # None
  <2> DEFINE t == AC!Answered(q)
             r == [t EXCEPT !.keys = keys]
  <2>1. PICK c : /\ c \in AC!Named(b) \/ (c = signin[b].token /\ c # None)
                 /\ AC!Enter(b, r, c)
    BY <1>1, <1>6 DEF AC!Unlock
  <2>2. keys \in Keyrings
    BY <1>1, <1>4, <1>6, UnlockedKeys DEF AccountInv
  <2>3. t \in TabShape /\ t.sending = None /\ t.stash = q.stash
    BY <1>2, AnsweredShape
  <2> HIDE DEF t
  <2>4. r \in TabShape /\ r.sending = None /\ r.stash = q.stash
    BY <2>2, <2>3 DEF TabShape
  <2>5. c \in Accounts /\ c \in jar[b] /\ users[c] # None
    BY <2>1, NamedFacts
  <2>6. r.stash # None => users[r.stash] # None
    BY <1>2, <2>4 DEF TabInv
  <2> HIDE DEF r
  <2> QED BY <1>3, <2>1, <2>4, <2>5, <2>6, Entered
<1> QED BY <1>5, <1>6

(* The second-factor page, whichever method answers.                       *)
LEMMA FinalizeStep ==
  ASSUME AccountInv, NEW b \in Browsers, AC!StepUpPasskey(b) \/ AC!StepUpTotp(b)
  PROVE  AccountInv'
<1>1. PICK q, a : q = signin[b] /\ a = q.stash
  OBVIOUS
<1>2. q \in TabShape /\ TabInv(q, jar[b]) /\ jar[b] \in SUBSET Accounts
  BY <1>1, SigninFacts
<1>3. a # None /\ AC!Finalize(b)
  BY <1>1 DEF AC!StepUpPasskey, AC!StepUpTotp
<1>4. a \in Accounts /\ users[a] # None
  BY <1>1, <1>2, <1>3 DEF TabShape, TabInv
<1>5. CASE AC!Show(b, AC!Finalized(q, a)) /\ AC!SetCookie(b, {a})
  <2> DEFINE r == AC!Finalized(q, a)
  <2>1. r \in TabShape /\ TabInv(r, {a})
    <3>1. CASE q.handoff # None /\ AC!UnlockSecrets(users[a], q.handoff) = None
      <4>1. r = [q EXCEPT !.token = a, !.handoff = None]
        BY <3>1 DEF AC!Finalized
      <4>2. r \in TabShape /\ r.token = a /\ r.stash = q.stash /\ r.sending = q.sending
        BY <1>2, <1>4, <4>1 DEF TabShape
      <4> HIDE DEF r
      <4> QED BY <1>2, <1>3, <1>4, <4>2 DEF TabInv
    <3>2. CASE ~ (q.handoff # None /\ AC!UnlockSecrets(users[a], q.handoff) = None)
      <4> DEFINE l == AC!Loaded(q, "home")
                 via == IF q.handoff = None THEN "none" ELSE "2fa"
      <4>1. r = [l EXCEPT !.token = a, !.stash = None, !.via = via]
        BY <3>2 DEF AC!Finalized
      <4>2. l \in TabShape /\ l.keys = None /\ l.sending = None
        BY <1>2, LoadedShape
      <4>3. via \in {"none", "2fa"}
        OBVIOUS
      <4> HIDE DEF r, l, via
      <4>4. r \in TabShape /\ r.token = a /\ r.stash = None /\ r.sending = None /\ r.keys = None
        BY <1>4, <4>1, <4>2, <4>3 DEF TabShape
      <4> QED BY <1>3, <1>4, <4>4 DEF TabInv
    <3> QED BY <3>1, <3>2
  <2>2. AC!ServerAsIs
    BY <1>3 DEF AC!Finalize
  <2> HIDE DEF r
  <2> QED BY <1>4, <1>5, <2>1, <2>2, SigninMoves DEF r
<1>6. CASE AC!SetCookie(b, jar[b] \cup {a}) /\ UNCHANGED signin
  <2>1. AC!Show(b, q)
    BY <1>1, <1>6 DEF AC!Show, AccountInv, Shapes
  <2>2. TabInv(q, jar[b] \cup {a}) /\ jar[b] \cup {a} \in SUBSET Accounts
    BY <1>2, <1>4 DEF TabInv
  <2>3. AC!ServerAsIs
    BY <1>3 DEF AC!Finalize
  <2> QED BY <1>2, <1>6, <2>1, <2>2, <2>3, SigninMoves
<1> QED BY <1>1, <1>3, <1>5, <1>6 DEF AC!Finalize

(* Out of the second-factor page, out of the session, a page load, and     *)
(* what another tab does to the cookie.                                    *)
LEMMA MoveAboutStep ==
  ASSUME AccountInv, NEW b \in Browsers,
         AC!WipeAndBounce(b) \/ AC!Load(b) \/ AC!Logout(b) \/ AC!OtherTab(b)
  PROVE  AccountInv'
<1>1. PICK q : q = signin[b]
  OBVIOUS
<1>2. q \in TabShape /\ TabInv(q, jar[b]) /\ jar[b] \in SUBSET Accounts
  BY <1>1, SigninFacts
<1>3. ASSUME NEW r \in TabShape, r.token = None, r.keys = None, NEW A \in SUBSET Accounts,
             r.stash = q.stash \/ r.stash = None, r.sending = q.sending \/ r.sending = None,
             AC!Show(b, r), AC!SetCookie(b, A), AC!ServerAsIs
      PROVE  AccountInv'
  <2>1. TabInv(r, A)
    BY <1>2, <1>3 DEF TabInv
  <2> QED BY <1>3, <2>1, SigninMoves
<1>4. CASE AC!WipeAndBounce(b)
  <2> DEFINE t == AC!Turned(AC!Wiped(q), "login")
             r == [t EXCEPT !.stash = None]
  <2>1. /\ t \in TabShape /\ t.keys = None /\ t.token = None
        /\ t.sending = q.sending \/ t.sending = None
    BY <1>2, WipedShape, TurnedShape
  <2>2. AC!Show(b, r) /\ AC!SetCookie(b, jar[b]) /\ AC!ServerAsIs
    BY <1>1, <1>4, CookieStays DEF AC!WipeAndBounce
  <2> HIDE DEF t
  <2>3. /\ r \in TabShape /\ r.keys = None /\ r.token = None /\ r.stash = None
        /\ r.sending = q.sending \/ r.sending = None
    BY <2>1 DEF TabShape
  <2> HIDE DEF r
  <2> QED BY <1>2, <1>3, <2>2, <2>3
<1>5. CASE AC!Load(b)
  <2>1. ASSUME NEW page \in {"login", "2fa"}, AC!Show(b, AC!Loaded(q, page))
        PROVE  AccountInv'
    <3>1. AC!SetCookie(b, jar[b]) /\ AC!ServerAsIs
      BY <1>5, CookieStays DEF AC!Load
    <3> QED BY <1>2, <1>3, <2>1, <3>1, LoadedShape
  <2>2. ASSUME NEW a \in AC!Named(b), AC!Show(b, [AC!Loaded(q, "home") EXCEPT !.token = a])
        PROVE  AccountInv'
    <3> DEFINE l == AC!Loaded(q, "home")
               r == [l EXCEPT !.token = a]
    <3>1. l \in TabShape /\ l.keys = None /\ l.stash = q.stash /\ l.sending = None
      BY <1>2, LoadedShape
    <3>2. a \in Accounts /\ a \in jar[b] /\ users[a] # None
      BY NamedFacts
    <3>3. AC!SetCookie(b, jar[b]) /\ AC!ServerAsIs
      BY <1>5, CookieStays DEF AC!Load
    <3> HIDE DEF l
    <3>4. /\ r \in TabShape /\ r.keys = None /\ r.stash = q.stash /\ r.sending = None
          /\ r.token = a
      BY <3>1, <3>2 DEF TabShape
    <3>5. TabInv(r, jar[b])
      BY <1>2, <3>2, <3>4 DEF TabInv
    <3> QED BY <1>2, <2>2, <3>3, <3>4, <3>5, SigninMoves DEF l
  <2> QED BY <1>1, <1>5, <2>1, <2>2 DEF AC!Load
<1>6. CASE AC!Logout(b)
  <2>1. AC!Show(b, AC!Loaded(q, "login")) /\ AC!SetCookie(b, {}) /\ AC!ServerAsIs
    BY <1>1, <1>6 DEF AC!Logout
  <2>2. {} \in SUBSET Accounts
    OBVIOUS
  <2> QED BY <1>2, <1>3, <2>1, <2>2, LoadedShape
<1>7. CASE AC!OtherTab(b)
  <2>1. AC!Show(b, q) /\ AC!SetCookie(b, Accounts) /\ AC!ServerAsIs
    BY <1>1, <1>7 DEF AC!OtherTab, AC!Show, AccountInv, Shapes
  <2>2. TabInv(q, Accounts) /\ Accounts \in SUBSET Accounts
    BY <1>2 DEF TabInv, TabShape
  <2> QED BY <1>2, <2>1, <2>2, SigninMoves
<1> QED BY <1>4, <1>5, <1>6, <1>7

LEMMA EnterStep ==
  ASSUME AccountInv, NEW b \in Browsers, AC!Go(b) \/ AC!Renew(b)
  PROVE  AccountInv'
<1>1. PICK q : q = signin[b]
  OBVIOUS
<1>2. q \in TabShape /\ TabInv(q, jar[b]) /\ jar[b] \in SUBSET Accounts
  BY <1>1, SigninFacts
<1>3. AC!SetCookie(b, jar[b]) /\ AC!ServerAsIs
  BY CookieStays DEF AC!Go, AC!Renew
<1>4. /\ q.stash # None => users[q.stash] # None
      /\ q.sending # None /\ q.sending.unlocking => users[q.sending.typed.address] # None
  BY <1>2 DEF TabInv
<1>5. ASSUME NEW page \in {"login", "2fa"}, AC!Show(b, AC!Turned(q, page))
      PROVE  AccountInv'
  <2> DEFINE r == AC!Turned(q, page)
  <2>1. /\ r \in TabShape /\ r.sending = q.sending /\ r.keys = q.keys /\ r.token = q.token
        /\ r.stash = q.stash
    BY <1>2, TurnedShape
  <2> HIDE DEF r
  <2>2. TabInv(r, jar[b])
    BY <1>2, <2>1 DEF TabInv
  <2> QED BY <1>2, <1>3, <1>5, <2>1, <2>2, SigninMoves DEF r
<1>6. ASSUME NEW a, a \in AC!Named(b) \/ (a = signin[b].token /\ a # None), AC!Enter(b, q, a)
      PROVE  AccountInv'
  BY <1>2, <1>3, <1>4, <1>6, NamedFacts, Entered
<1>7. ASSUME NEW a \in AC!Named(b), AC!Show(b, [q EXCEPT !.token = a])
      PROVE  AccountInv'
  <2> DEFINE r == [q EXCEPT !.token = a]
  <2>1. a \in Accounts /\ a \in jar[b] /\ users[a] # None
    BY NamedFacts
  <2>2. /\ r \in TabShape /\ r.sending = q.sending /\ r.keys = q.keys /\ r.token = a
        /\ r.stash = q.stash
    BY <1>2, <2>1 DEF TabShape
  <2>3. TabInv(r, jar[b])
    <3> HIDE DEF r
    <3> QED BY <1>2, <2>1, <2>2, NoneIsNoTerm DEF TabInv
  <2> QED BY <1>2, <1>3, <1>7, <2>2, <2>3, SigninMoves
<1>8. CASE AC!Go(b)
  BY <1>1, <1>5, <1>6, <1>8 DEF AC!Go
<1>9. CASE AC!Renew(b)
  BY <1>1, <1>7, <1>9 DEF AC!Renew
<1> QED BY <1>8, <1>9

-----------------------------------------------------------------------------
(* The methods of an account, as its tabs enrol and remove them.           *)
LEMMA MethodStep ==
  ASSUME AccountInv, NEW b \in Browsers,
         \/ AC!EnrollTotp(b) \/ AC!EnrollPasskey(b)
         \/ \E kind \in {"totp", "webauthn"} : AC!RemoveMethod(b, kind)
  PROVE  AccountInv'
<1>1. PICK q, a : q = signin[b] /\ a = q.token
  OBVIOUS
<1>2. q \in TabShape /\ TabInv(q, jar[b])
  BY <1>1, SigninFacts
<1>3. a \in Accounts /\ users[a] # None
  BY <1>1, <1>2 DEF AC!EnrollTotp, AC!EnrollPasskey, AC!RemoveMethod, TabShape, TabInv
<1>4. ASSUME NEW kinds \in SUBSET {"totp", "webauthn"}, NEW box,
             box # None <=> "totp" \in kinds,
             factors' = [factors EXCEPT ![a] = kinds],
             totp' = [totp EXCEPT ![a] = box] \/ (totp' = totp /\ box = totp[a]),
             UNCHANGED <<params, users, AC!wizardVars, AC!tabVars>>
      PROVE  AccountInv'
  <2>1. /\ factors' \in [Accounts -> SUBSET {"totp", "webauthn"}] /\ DOMAIN totp' = Accounts
        /\ \A c \in Accounts : /\ totp'[c] = IF c = a THEN box ELSE totp[c]
                               /\ factors'[c] = IF c = a THEN kinds ELSE factors[c]
    BY <1>3, <1>4 DEF AccountInv, Shapes
  <2>2. TotpInv'
    BY <1>4, <2>1 DEF AccountInv, TotpInv
  <2>3. UNCHANGED <<params, users, wizard, drawn, notes, signin, jar>>
    BY <1>4 DEF AC!wizardVars, AC!tabVars
  <2> QED BY <2>1, <2>2, <2>3 DEF AccountInv, Shapes, RowsInv, Written, TabInv
<1>5. /\ factors[a] \in SUBSET {"totp", "webauthn"}
      /\ totp[a] # None <=> "totp" \in factors[a]
  BY <1>3 DEF AccountInv, Shapes, TotpInv
<1>6. CASE AC!EnrollTotp(b)
  <2> DEFINE box == AC!Wrap(<<"totp", a>>, q.keys.dek, AC!Aad("totp", a, users[a].params))
  <2>1. PICK sk \in Secrets : q.keys.dek = AC!Dek(sk)
    BY <1>1, <1>2, <1>6 DEF AC!EnrollTotp, TabShape, Keyrings, KeysOf
  <2>2. users[a].params \in ParamSets
    <3>1. PICK kit \in notes[a], p \in ParamSets : users[a] = AC!Envelope(a, kit, p)
      BY <1>3 DEF AccountInv, RowsInv, Written
    <3> QED BY <3>1 DEF AC!Envelope
  <2>3. box # None
    BY <1>3, <2>1, <2>2, NoneIsNoTerm DEF ParamSets
  <2>4. /\ totp' = [totp EXCEPT ![a] = box] /\ factors' = [factors EXCEPT ![a] = factors[a] \cup {"totp"}]
        /\ UNCHANGED <<params, users, AC!wizardVars, AC!tabVars>>
    BY <1>1 , <1>6 DEF AC!EnrollTotp
  <2> HIDE DEF box
  <2>5. factors[a] \cup {"totp"} \in SUBSET {"totp", "webauthn"}
    BY <1>5
  <2> QED BY <1>4, <2>3, <2>4, <2>5
<1>7. CASE AC!EnrollPasskey(b)
  <2>1. /\ factors' = [factors EXCEPT ![a] = factors[a] \cup {"webauthn"}] /\ totp' = totp
        /\ UNCHANGED <<params, users, AC!wizardVars, AC!tabVars>>
    BY <1>1, <1>7 DEF AC!EnrollPasskey
  <2>2. /\ factors[a] \cup {"webauthn"} \in SUBSET {"totp", "webauthn"}
        /\ totp[a] # None <=> "totp" \in factors[a] \cup {"webauthn"}
    BY <1>5
  <2> QED BY <1>4, <1>5, <2>1, <2>2
<1>8. ASSUME NEW kind \in {"totp", "webauthn"}, AC!RemoveMethod(b, kind)  PROVE AccountInv'
  <2> DEFINE box == IF kind = "totp" THEN None ELSE totp[a]
  <2>1. /\ factors' = [factors EXCEPT ![a] = factors[a] \ {kind}]
        /\ totp' = [totp EXCEPT ![a] = box] \/ (totp' = totp /\ box = totp[a])
        /\ UNCHANGED <<params, users, AC!wizardVars, AC!tabVars>>
    BY <1>1, <1>8 DEF AC!RemoveMethod
  <2>2. factors[a] \ {kind} \in SUBSET {"totp", "webauthn"}
    BY <1>5
  <2>3. box # None <=> "totp" \in factors[a] \ {kind}
    BY <1>5
  <2> HIDE DEF box
  <2> QED BY <1>4, <2>1, <2>2, <2>3
<1> QED BY <1>6, <1>7, <1>8

LEMMA RecalibrateStep == ASSUME AccountInv, AC!Recalibrate PROVE AccountInv'
<1>1. params + 1 \in ParamSets
  BY BoundsAssumption DEF AccountInv, Shapes, AC!Recalibrate, ParamSets
<1> QED BY <1>1
DEF AC!Recalibrate, AC!wizardVars, AC!tabVars, AccountInv, Shapes, RowsInv, Written,
    TotpInv, TabInv

LEMMA AccountStep == AccountInv /\ [AC!Next]_(AC!vars) => AccountInv'
<1> SUFFICES ASSUME AccountInv, [AC!Next]_(AC!vars)  PROVE AccountInv'
  OBVIOUS
<1>1. CASE UNCHANGED AC!vars
  BY <1>1
  DEF AC!vars, AC!wizardVars, AC!tabVars, AccountInv, Shapes, RowsInv, Written,
      TotpInv, TabInv
<1>2. CASE \E w \in Wizards :
              \/ \E a \in Accounts : AC!RedeemInvite(w, a)
              \/ \E pw \in Passwords : AC!SetPassword(w, pw)
              \/ \E sk \in Secrets : AC!ConfirmSecretKey(w, sk)
              \/ \E phrase \in Phrases : AC!RevealPhrase(w, phrase)
              \/ AC!ConfirmPhrase(w) \/ AC!BackToReveal(w) \/ AC!SubmitSignup(w) \/ AC!LeaveWizard(w)
  BY <1>2, WizardStep, RevealStep, SubmitSignupStep
<1>3. CASE \E b \in Browsers :
              \/ \E typed \in AC!Typed, cached \in 1..MaxParams : AC!SubmitLogin(b, typed, cached)
              \/ AC!LoginFails(b) \/ AC!StepUpRequired(b) \/ AC!Login(b) \/ AC!Unlock(b)
              \/ AC!StepUpPasskey(b) \/ AC!StepUpTotp(b) \/ AC!WipeAndBounce(b)
              \/ AC!Go(b) \/ AC!Renew(b) \/ AC!Load(b) \/ AC!Logout(b) \/ AC!OtherTab(b)
              \/ AC!EnrollTotp(b) \/ AC!EnrollPasskey(b)
              \/ \E kind \in {"totp", "webauthn"} : AC!RemoveMethod(b, kind)
  BY <1>3, LoginPageStep, LoginStep, UnlockStep, FinalizeStep, MoveAboutStep, EnterStep,
     MethodStep
<1> QED BY <1>1, <1>2, <1>3, RecalibrateStep DEF AC!Next

THEOREM AccountInvariance == AC!Spec => []AccountInv
BY AccountInit, AccountStep, PTL DEF AC!Spec

-----------------------------------------------------------------------------
LEMMA AccountTypes == AccountInv => AC!TypeOK
<1> SUFFICES ASSUME AccountInv  PROVE AC!TypeOK
  OBVIOUS
<1>1. \A b \in Browsers : signin[b] \in TabShape
  BY DEF AccountInv, Shapes
<1>2. \A w \in Wizards : wizard[w] \in WizardShape
  BY DEF AccountInv, Shapes
<1> QED BY <1>1, <1>2
DEF AccountInv, Shapes, TotpInv, AC!TypeOK, TabShape, WizardShape, ParamSets

(* What was written down opens the row.                                    *)
LEMMA WrittenOpens ==
  ASSUME AccountInv, NEW a \in Accounts, NEW kit \in Kits, NEW p \in ParamSets,
         users[a] = AC!Envelope(a, kit, p)
  PROVE  AC!Opens(a, kit)
<1> DEFINE row == users[a]
           kek == AC!MasterKek(a, kit.password, kit.secret, kit.secret, p)
           typed == [address |-> a, password |-> kit.password, secret |-> kit.secret]
<1>1. /\ row.verifier = AC!Verifier(kit.secret, p) /\ row.params = p /\ row.salt = kit.secret
      /\ row.dek = AC!Wrap(AC!Dek(kit.secret), kek, AC!Aad("master", a, p))
      /\ row.recovery = AC!Wrap(AC!Dek(kit.secret), AC!RecoveryKek(a, kit.phrase), AC!Aad("recovery", a, p))
      /\ row.signing = AC!Wrap(AC!SigningSk(kit.secret), kek, AC!Aad("sign-sk", a, p))
      /\ row.kx = AC!Wrap(AC!KxSk(kit.secret), kek, AC!Aad("kx-sk", a, p))
  BY DEF AC!Envelope
<1>2. \A key, k, aad : AC!Unwrap(AC!Wrap(key, k, aad), k, aad) = key
  BY DEF AC!Wrap, AC!Unwrap
<1>3. kit.secret \in Secrets
  BY DEF Kits
<1>4. AC!UnlockSecrets(row, typed) = KeysOf(kit.secret)
  <2>1. /\ AC!Unwrap(row.dek, kek, AC!Aad("master", a, p)) = AC!Dek(kit.secret)
        /\ AC!Unwrap(row.signing, kek, AC!Aad("sign-sk", a, p)) = AC!SigningSk(kit.secret)
        /\ AC!Unwrap(row.kx, kek, AC!Aad("kx-sk", a, p)) = AC!KxSk(kit.secret)
    BY <1>1, <1>2
  <2>2. /\ typed.address = a /\ typed.password = kit.password /\ typed.secret = kit.secret
        /\ AC!MasterKek(typed.address, typed.password, typed.secret, row.salt, row.params) = kek
    BY <1>1
  <2>3. None \notin {AC!Dek(kit.secret), AC!SigningSk(kit.secret), AC!KxSk(kit.secret)}
    BY <1>3, NoneIsNoTerm
  <2> HIDE DEF row, kek, typed
  <2> QED BY <1>1, <2>1, <2>2, <2>3 DEF AC!UnlockSecrets, KeysOf
<1>5. KeysOf(kit.secret) # None /\ KeysOf(kit.secret).dek = AC!Dek(kit.secret)
  BY <1>3, NoneIsNoTerm DEF KeysOf
<1>6. AC!Unwrap(row.recovery, AC!RecoveryKek(a, kit.phrase), AC!Aad("recovery", a, row.params))
        = AC!Dek(kit.secret)
  BY <1>1, <1>2
<1> QED BY <1>1, <1>4, <1>5, <1>6 DEF AC!Opens

LEMMA KitsOpen == AccountInv => AC!AccountOpens
<1> SUFFICES ASSUME AccountInv, NEW a \in Accounts, users[a] # None
             PROVE  \E kit \in notes[a] : AC!Opens(a, kit)
  BY DEF AC!AccountOpens
<1>1. PICK kit \in notes[a], p \in ParamSets : users[a] = AC!Envelope(a, kit, p)
  BY DEF AccountInv, RowsInv, Written
<1>2. kit \in Kits
  BY <1>1 DEF AccountInv, Shapes
<1> QED BY <1>1, <1>2, WrittenOpens

-----------------------------------------------------------------------------
(* Token and keys: a row, once there, stays as it is.                      *)
LEMMA RowsStay ==
  ASSUME AccountInv, [AC!Next]_(AC!vars), NEW a \in Accounts, users[a] # None
  PROVE  users'[a] = users[a]
<1>1. CASE UNCHANGED users
  BY <1>1
<1>2. ASSUME NEW w \in Wizards, AC!SubmitSignup(w)  PROVE users'[a] = users[a]
  BY <1>2 DEF AC!SubmitSignup, AccountInv, Shapes
<1> QED BY <1>1, <1>2
DEF AC!Next, AC!vars, AC!wizardVars, AC!tabVars, AC!ServerAsIs, AC!Unmoved, AC!Recalibrate,
    AC!RedeemInvite, AC!SetPassword, AC!ConfirmSecretKey, AC!RevealPhrase, AC!ConfirmPhrase,
    AC!BackToReveal, AC!LeaveWizard, AC!SubmitLogin, AC!LoginFails, AC!StepUpRequired,
    AC!Login, AC!Unlock, AC!StepUpPasskey, AC!StepUpTotp, AC!Finalize, AC!WipeAndBounce,
    AC!Go, AC!Renew, AC!Load, AC!Logout, AC!OtherTab, AC!EnrollTotp, AC!EnrollPasskey,
    AC!RemoveMethod

(* A tab with the token and the keys it had, or with one of them missing.  *)
LEMMA FitsStill ==
  ASSUME AccountInv, [AC!Next]_(AC!vars), NEW b \in Browsers, AC!Fits(signin[b], users),
         \/ signin'[b].token = signin[b].token /\ signin'[b].keys = signin[b].keys
         \/ signin'[b].token = None \/ signin'[b].keys = None
  PROVE  AC!StayTogether(b)
<1>1. signin[b].token # None => signin[b].token \in Accounts /\ users[signin[b].token] # None
  BY SigninFacts DEF TabInv, TabShape
<1> QED BY <1>1, RowsStay DEF AC!Fits, AC!StayTogether

(* A token that the cookie gave beside keys that were there.               *)
LEMMA GivenToken ==
  ASSUME AccountInv, [AC!Next]_(AC!vars), NEW b \in Browsers, AC!Fits(signin[b], users),
         NEW a \in jar[b], signin'[b].token = a, signin'[b].keys = signin[b].keys
  PROVE  AC!StayTogether(b)
<1>1. CASE jar[b] # {a}
  BY <1>1 DEF AC!StayTogether
<1>2. CASE jar[b] = {a}
  <2>1. \/ signin[b].keys = None
        \/ signin[b].token = a
    BY <1>2, SigninFacts DEF TabInv
  <2> QED BY <2>1, FitsStill
<1> QED BY <1>1, <1>2

(* Every step of the tab.                                                  *)
LEMMA StepTogether ==
  ASSUME AccountInv, [AC!Next]_(AC!vars), NEW b \in Browsers, AC!Fits(signin[b], users)
  PROVE  AC!StayTogether(b)
<1>1. PICK q : q = signin[b]
  OBVIOUS
<1>2. q \in TabShape /\ TabInv(q, jar[b])
  BY <1>1, SigninFacts
<1>3. ASSUME NEW r, AC!Show(b, r)  PROVE signin'[b] = r
  BY <1>3 DEF AC!Show, AccountInv, Shapes
<1>4. CASE signin'[b] = signin[b]
  BY <1>4, FitsStill
<1>5. ASSUME NEW typed \in AC!Typed, NEW cached \in 1..MaxParams, AC!SubmitLogin(b, typed, cached)
      PROVE  AC!StayTogether(b)
  <2> DEFINE s == [typed |-> typed, unlocking |-> FALSE,
                   verifier |-> AC!Verifier(typed.secret, cached)]
  <2>1. signin'[b] = [q EXCEPT !.sending = s]
    BY <1>1, <1>3, <1>5 DEF AC!SubmitLogin
  <2> HIDE DEF s
  <2>2. signin'[b].token = q.token /\ signin'[b].keys = q.keys
    BY <1>2, <2>1 DEF TabShape
  <2> QED BY <1>1, <2>2, FitsStill
<1>6. CASE AC!LoginFails(b)
  <2>1. signin'[b] = AC!Wiped(AC!Answered(q))
    BY <1>1, <1>3, <1>6 DEF AC!LoginFails
  <2> QED BY <1>2, <2>1, AnsweredShape, WipedShape, FitsStill
<1>7. CASE AC!StepUpRequired(b)
  <2> DEFINE t == AC!Turned(AC!Answered(q), "2fa")
  <2>1. signin'[b] = [t EXCEPT !.stash = q.sending.typed.address, !.handoff = q.sending.typed]
    BY <1>1, <1>3, <1>7 DEF AC!StepUpRequired
  <2>2. t \in TabShape /\ t.token = q.token /\ t.keys = q.keys
    BY <1>2, AnsweredShape, TurnedShape
  <2> HIDE DEF t
  <2>3. signin'[b].token = q.token /\ signin'[b].keys = q.keys
    BY <2>1, <2>2 DEF TabShape
  <2> QED BY <1>1, <2>3, FitsStill
<1>8. CASE AC!Login(b)
  <2>1. signin'[b] = [q EXCEPT !.token = q.sending.typed.address, !.sending.unlocking = TRUE]
    BY <1>1, <1>3, <1>8 DEF AC!Login
  <2>2. q.sending # None /\ q.sending \in AC!Request
    BY <1>1, <1>2, <1>8, RequestFacts DEF AC!Login, AC!Waiting
  <2> DEFINE s == [q.sending EXCEPT !.unlocking = TRUE]
  <2>3. signin'[b].sending = s /\ signin'[b].token = q.sending.typed.address
    BY <1>2, <2>1, <2>2 DEF TabShape
  <2>4. s \in AC!Request /\ s.unlocking /\ s.typed = q.sending.typed
    BY <2>2 DEF AC!Request
  <2> HIDE DEF s
  <2> QED BY <2>3, <2>4, NoneIsNoTerm DEF AC!StayTogether, AC!Trying
<1>9. CASE AC!Unlock(b)
  <2> DEFINE a == q.sending.typed.address
             keys == AC!UnlockSecrets(users[a], q.sending.typed)
             t == AC!Answered(q)
             k == [t EXCEPT !.keys = keys]
  <2>1. q.sending # None /\ q.sending.unlocking
    BY <1>1, <1>9 DEF AC!Unlock
  <2>2. a \in Accounts /\ users[a] # None
    BY <1>2, <2>1, RequestFacts DEF TabInv
  <2>3. CASE q.token # a
    BY <1>1, <2>1, <2>3 DEF AC!StayTogether, AC!Trying
  <2>4. CASE q.token = a /\ keys = None
    <3>1. signin'[b] = AC!Wiped(t)
      BY <1>1, <1>3, <1>9, <2>4 DEF AC!Unlock
    <3> QED BY <1>2, <3>1, AnsweredShape, WipedShape, FitsStill
  <2>5. CASE q.token = a /\ keys # None
    <3>1. q.token # None
      BY <2>2, <2>5, NoneIsNoTerm
    <3>2. AC!Enter(b, k, a)
      BY <1>1, <1>9, <2>5, <3>1 DEF AC!Unlock
    <3>3. keys \in Keyrings /\ keys.dek = users[a].dek.key
      BY <2>2, <2>5, UnlockedKeys DEF AccountInv
    <3>4. t \in TabShape
      BY <1>2, AnsweredShape
    <3> HIDE DEF keys, t
    <3>5. k \in TabShape /\ k.keys = keys
      BY <3>3, <3>4 DEF TabShape
    <3> HIDE DEF k
    <3>6. AC!Turned(k, "home") \in TabShape /\ AC!Turned(k, "home").keys = keys
      BY <3>5, TurnedShape
    <3>7. signin'[b] = [AC!Turned(k, "home") EXCEPT !.token = a]
      BY <1>3, <3>2 DEF AC!Enter
    <3>8. signin'[b].token = a /\ signin'[b].keys = keys
      BY <3>6, <3>7 DEF TabShape
    <3>9. users'[a] = users[a]
      BY <2>2, RowsStay
    <3> QED BY <3>3, <3>8, <3>9 DEF AC!Fits, AC!StayTogether
  <2> QED BY <2>3, <2>4, <2>5
<1>10. CASE AC!StepUpPasskey(b) \/ AC!StepUpTotp(b)
  <2>1. q.page = "2fa" /\ AC!Finalize(b)
    BY <1>1, <1>10 DEF AC!StepUpPasskey, AC!StepUpTotp
  <2>2. CASE UNCHANGED signin
    BY <1>4, <2>2
  <2>3. CASE AC!Show(b, AC!Finalized(q, q.stash))
    <3>1. signin'[b] = AC!Finalized(q, q.stash)
      BY <1>3, <2>3
    <3>2. CASE q.handoff # None /\ AC!UnlockSecrets(users[q.stash], q.handoff) = None
      <4>1. signin'[b] = [q EXCEPT !.token = q.stash, !.handoff = None]
        BY <3>1, <3>2 DEF AC!Finalized
      <4>2. signin'[b].page = "2fa"
        BY <1>2, <2>1, <4>1 DEF TabShape
      <4> QED BY <1>1, <2>1, <4>2 DEF AC!StayTogether
    <3>3. CASE ~ (q.handoff # None /\ AC!UnlockSecrets(users[q.stash], q.handoff) = None)
      <4> DEFINE l == AC!Loaded(q, "home")
                 via == IF q.handoff = None THEN "none" ELSE "2fa"
      <4>1. signin'[b] = [l EXCEPT !.token = q.stash, !.stash = None, !.via = via]
        BY <3>1, <3>3 DEF AC!Finalized
      <4>2. l \in TabShape /\ l.keys = None
        BY <1>2, LoadedShape
      <4> HIDE DEF l, via
      <4>3. signin'[b].keys = None
        BY <4>1, <4>2 DEF TabShape
      <4> QED BY <4>3, FitsStill
    <3> QED BY <3>2, <3>3
  <2> QED BY <1>1, <2>1, <2>2, <2>3 DEF AC!Finalize
<1>11. CASE AC!WipeAndBounce(b)
  <2> DEFINE t == AC!Turned(AC!Wiped(q), "login")
  <2>1. signin'[b] = [t EXCEPT !.stash = None]
    BY <1>1, <1>3, <1>11 DEF AC!WipeAndBounce
  <2>2. t \in TabShape /\ t.keys = None
    BY <1>2, WipedShape, TurnedShape
  <2> HIDE DEF t
  <2>3. signin'[b].keys = None
    BY <2>1, <2>2 DEF TabShape
  <2> QED BY <2>3, FitsStill
<1>12. CASE AC!Go(b)
  <2>1. ASSUME NEW page \in {"login", "2fa"}, AC!Show(b, AC!Turned(q, page))
        PROVE  AC!StayTogether(b)
    BY <1>1, <1>2, <1>3, <2>1, TurnedShape, FitsStill
  <2>2. ASSUME NEW a, a \in AC!Named(b) \/ (a = signin[b].token /\ a # None), AC!Enter(b, q, a)
        PROVE  AC!StayTogether(b)
    <3> DEFINE t == AC!Turned(q, "home")
    <3>1. signin'[b] = [t EXCEPT !.token = a]
      BY <1>3, <2>2 DEF AC!Enter
    <3>2. t \in TabShape /\ t.keys = q.keys
      BY <1>2, TurnedShape
    <3> HIDE DEF t
    <3>3. signin'[b].token = a /\ signin'[b].keys = q.keys
      BY <3>1, <3>2 DEF TabShape
    <3>4. a \in jar[b]
      BY <2>2, NamedFacts
    <3> QED BY <1>1, <3>3, <3>4, GivenToken
  <2> QED BY <1>1, <1>12, <2>1, <2>2 DEF AC!Go
<1>13. CASE AC!Renew(b)
  <2>1. PICK a \in AC!Named(b) : AC!Show(b, [q EXCEPT !.token = a])
    BY <1>1, <1>13 DEF AC!Renew
  <2>2. signin'[b] = [q EXCEPT !.token = a]
    BY <1>3, <2>1
  <2>3. signin'[b].token = a /\ signin'[b].keys = q.keys
    BY <1>2, <2>2 DEF TabShape
  <2>4. a \in jar[b]
    BY <2>1, NamedFacts
  <2> QED BY <1>1, <2>3, <2>4, GivenToken
<1>14. CASE AC!Load(b) \/ AC!Logout(b)
  <2>1. ASSUME NEW page \in {"login", "2fa"}, AC!Show(b, AC!Loaded(q, page))
        PROVE  AC!StayTogether(b)
    BY <1>2, <1>3, <2>1, LoadedShape, FitsStill
  <2>2. ASSUME NEW a, AC!Show(b, [AC!Loaded(q, "home") EXCEPT !.token = a])
        PROVE  AC!StayTogether(b)
    <3> DEFINE l == AC!Loaded(q, "home")
    <3>1. signin'[b] = [l EXCEPT !.token = a]
      BY <1>3, <2>2
    <3>2. l \in TabShape /\ l.keys = None
      BY <1>2, LoadedShape
    <3> HIDE DEF l
    <3>3. signin'[b].keys = None
      BY <3>1, <3>2 DEF TabShape
    <3> QED BY <3>3, FitsStill
  <2> QED BY <1>1, <1>14, <2>1, <2>2 DEF AC!Load, AC!Logout
<1>15. CASE \E c \in Browsers \ {b} :
                \/ \E typed \in AC!Typed, cached \in 1..MaxParams : AC!SubmitLogin(c, typed, cached)
                \/ AC!LoginFails(c) \/ AC!StepUpRequired(c) \/ AC!Login(c) \/ AC!Unlock(c)
                \/ AC!StepUpPasskey(c) \/ AC!StepUpTotp(c) \/ AC!WipeAndBounce(c)
                \/ AC!Go(c) \/ AC!Renew(c) \/ AC!Load(c) \/ AC!Logout(c)
  <2>1. PICK c \in Browsers \ {b} : (\E r : AC!Show(c, r)) \/ UNCHANGED signin
    BY <1>15
    DEF AC!SubmitLogin, AC!LoginFails, AC!StepUpRequired, AC!Login, AC!Unlock, AC!Enter,
        AC!StepUpPasskey, AC!StepUpTotp, AC!Finalize, AC!WipeAndBounce, AC!Go, AC!Renew,
        AC!Load, AC!Logout
  <2>2. signin'[b] = signin[b]
    BY <2>1 DEF AC!Show, AccountInv, Shapes
  <2> QED BY <1>4, <2>2
<1>16. CASE UNCHANGED signin
  BY <1>4, <1>16
<1>17. \/ UNCHANGED signin
       \/ \E c \in Browsers :
                \/ \E typed \in AC!Typed, cached \in 1..MaxParams : AC!SubmitLogin(c, typed, cached)
                \/ AC!LoginFails(c) \/ AC!StepUpRequired(c) \/ AC!Login(c) \/ AC!Unlock(c)
                \/ AC!StepUpPasskey(c) \/ AC!StepUpTotp(c) \/ AC!WipeAndBounce(c)
                \/ AC!Go(c) \/ AC!Renew(c) \/ AC!Load(c) \/ AC!Logout(c)
  BY DEF AC!Next, AC!vars, AC!wizardVars, AC!tabVars, AC!Unmoved, AC!Recalibrate,
     AC!RedeemInvite, AC!SetPassword, AC!ConfirmSecretKey, AC!RevealPhrase, AC!ConfirmPhrase,
     AC!BackToReveal, AC!SubmitSignup, AC!LeaveWizard, AC!OtherTab, AC!EnrollTotp,
     AC!EnrollPasskey, AC!RemoveMethod
<1> QED BY <1>5, <1>6, <1>7, <1>8, <1>9, <1>10, <1>11, <1>12, <1>13, <1>14, <1>15, <1>16, <1>17

LEMMA StepParts ==
  AccountInv /\ [AC!Next]_(AC!vars) => [\A b \in Browsers : AC!StayTogether(b)]_(AC!vars)
<1> SUFFICES ASSUME AccountInv, [AC!Next]_(AC!vars), NEW b \in Browsers  PROVE AC!StayTogether(b)
  OBVIOUS
<1> QED BY StepTogether DEF AC!StayTogether

-----------------------------------------------------------------------------
(* ClientSession_proofs, with the variables of Client.                     *)
CP == INSTANCE ClientSession_proofs

LEMMA SameSession ==
    /\ CS!Init <=> CP!Init
    /\ [CS!Next]_(CS!vars) <=> [CP!Next]_(CP!vars)
    /\ CS!TypeOK <=> CP!TypeOK
    /\ CS!ChainUnbroken <=> CP!ChainUnbroken
BY
DEF CS!RevokedElsewhere, CP!RevokedElsewhere, CS!LeftBehind, CP!LeftBehind, CS!SignIn,
    CP!SignIn, CS!SignInFails, CP!SignInFails, CS!Mount, CP!Mount, CS!Unmount, CP!Unmount,
    CS!TimerFires, CP!TimerFires, CS!BecomeVisible, CP!BecomeVisible,
    CS!Serve, CP!Serve, CS!NetworkFails, CP!NetworkFails, CS!Refreshed,
    CP!Refreshed, CS!AuthLost, CP!AuthLost, CS!RetryLater, CP!RetryLater, CS!Booted,
    CP!Booted, CS!AutoLock, CP!AutoLock, CS!Logout, CP!Logout, CS!RevokeAllHere,
    CP!RevokeAllHere, CS!NewPage, CP!NewPage, CS!Next, CP!Next, CS!Init, CP!Init,
    CS!vars, CP!vars, CS!TypeOK, CP!TypeOK, CS!ChainUnbroken, CP!ChainUnbroken,
    CS!Kinds, CP!Kinds, CS!Flights, CP!Flights, CS!Tab, CP!Tab, CS!LoginPage, CP!LoginPage,
    CS!Put, CP!Put, CS!Flying, CP!Flying, CS!Mounted, CP!Mounted, CS!Sent, CP!Sent,
    CS!Ended, CP!Ended, CS!Cleared, CP!Cleared, CS!Scheduled, CP!Scheduled,
    CS!SetToken, CP!SetToken, CS!Refreshing, CP!Refreshing, CS!Awaiting, CP!Awaiting

LEMMA SessionInit == CS!Init => CP!IInv
  BY SameSession, CP!InitInv, BoundsAssumption

LEMMA SessionStep == CP!IInv /\ [CS!Next]_(CS!vars) => CP!IInv'
  BY SameSession, CP!NextInv, BoundsAssumption

LEMMA SessionHolds == CP!IInv => CS!TypeOK /\ CS!ChainUnbroken
  BY SameSession, CP!InvTypes, CP!InvChain, BoundsAssumption

THEOREM SessionInvariance == CS!Spec => [](CS!TypeOK /\ CS!ChainUnbroken)
BY SessionInit, SessionStep, SessionHolds, PTL DEF CS!Spec

-----------------------------------------------------------------------------
(* The composition: whichever part is in focus, the others rest, so a      *)
(* behaviour of Client is a behaviour of all three.                        *)
LEMMA PartsMove ==
  [ClientNext]_clientVars => [Next]_vars /\ [CS!Next]_(CS!vars) /\ [AC!Next]_(AC!vars)
<1>1. /\ CS!vars = sessionVars
      /\ UNCHANGED accountVars => UNCHANGED AC!vars
  BY DEF CS!vars, AC!vars, AC!wizardVars, AC!tabVars, sessionVars, accountVars
<1> QED BY <1>1 DEF ClientNext, clientVars, sessionVars, CS!vars

THEOREM PartsRun == ClientSpec => Spec /\ CS!Spec /\ AC!Spec
<1>1. ClientInit => Init /\ CS!Init /\ AC!Init
  BY DEF ClientInit
<1> QED BY <1>1, PartsMove, PTL DEF ClientSpec, Spec, CS!Spec, AC!Spec

(* Every variable of the three parts keeps its type; of ClientSession,     *)
(* that includes the bound on a tab's pending timeouts.                    *)
THEOREM ClientTypes == ClientSpec => []TypesOK
<1>1. Spec /\ CS!Spec /\ AC!Spec => [](TypeOK /\ CS!TypeOK /\ AC!TypeOK)
  BY TypeCorrect, SessionInvariance, AccountInvariance, AccountTypes, PTL
<1> QED BY <1>1, PartsRun, PTL DEF TypesOK

(* In every behaviour of Client a page of the authed tree with a token has *)
(* a pending timeout or a refresh in flight, ways out and back included.   *)
THEOREM ChainHolds == ClientSpec => []ChainUnbroken
<1>1. CS!Spec => []CS!ChainUnbroken
  BY SessionInvariance, PTL
<1> QED BY <1>1, PartsRun, PTL DEF ChainUnbroken

(* An account that exists opens with a password, secret key and recovery   *)
(* phrase its user wrote down in one run of the wizard, whichever wizard   *)
(* came first, whatever answer was lost and whichever parameters the       *)
(* server was given in between.                                            *)
THEOREM AccountsOpen == ClientSpec => []AccountOpens
<1>1. AC!Spec => []AC!AccountOpens
  BY AccountInvariance, KitsOpen, PTL
<1> QED BY <1>1, PartsRun, PTL DEF AccountOpens

(* Token and keys of one account part in a step only if the cookie may be  *)
(* another tab's, while a sign-in tries what was typed, or when the        *)
(* second-factor page finds that it does not open the account.             *)
THEOREM KeysAreTheTokens == ClientSpec => RightKeysOnly
<1>1. AC!Spec => AC!RightKeysOnly
  BY AccountInvariance, StepParts, PTL DEF AC!Spec, AC!RightKeysOnly
<1> QED BY <1>1, PartsRun DEF RightKeysOnly
=============================================================================
