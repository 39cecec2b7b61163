----------------------------- MODULE SharedKeys -----------------------------
(***************************************************************************)
(* The keys of shared vaults in the browser.  A vault's key is made by its *)
(* creator's browser, travels to each invitee in a box only they can open, *)
(* and lives in the keyStore of the tab that made or accepted it: nothing  *)
(* else ever puts a vault's key there.  It stays until a wipe or a page    *)
(* load, whoever else signs in there meanwhile: the login page writes its  *)
(* five keys over the old ones and clears none.                            *)
(*                                                                         *)
(* The server is the abstract Membership, which module Sharing implements. *)
(* The refresh cookie may name anybody at any time, since another tab of   *)
(* the browser may sign in, so it is no variable.  A tab runs one handler  *)
(* at a time here.  The key of vault v is v itself,                        *)
(* a user's master key is the user, and Blank is the all-zero array that   *)
(* keyStore.wipe leaves in every reference taken before it.                *)
(***************************************************************************)
EXTENDS FiniteSets

CONSTANTS Users, Vaults, Tabs, Blank, None

ASSUME KeysAssumption == Blank \notin Vaults /\ None \notin Users \cup {Blank}

VARIABLES
    member,     \* the server's memberships
    wrapped,    \* vault_memberships.wrapped_vault_key, as an invitee opens it
    sealed,     \* the key under which a vault's latest credential was encrypted
    joined,     \* auxiliary: the vaults a user ever was an active member of
    realm,      \* auxiliary: the users whose token the page had since it was loaded
    signed,     \* the user of the tab's access token
    unlocked,   \* the user whose master_dek and kx_sk are in keyStore
    held,       \* keyStore "vault_dek:<id>"
    task        \* the handler that is waiting for the server

serverVars == <<member, wrapped, sealed, joined>>
tabVars    == <<realm, signed, unlocked, held>>
vars == <<serverVars, tabVars, task>>

Keys == Vaults \cup Users \cup {Blank}
Task == [op : {"none", "create", "accept", "invite", "leave"}, vault : Vaults \cup {None},
         user : Users \cup {None}, target : Users \cup {None}, key : Keys \cup {None}]
NoTask  == [op |-> "none", vault |-> None, user |-> None, target |-> None, key |-> None]
NoKeys  == [v \in Vaults |-> None]

MB == INSTANCE Membership

Init ==
    /\ MB!Init
    /\ wrapped = [v \in Vaults |-> [u \in Users |-> None]]
    /\ sealed = [v \in Vaults |-> None]
    /\ joined = [u \in Users |-> {}]
    /\ realm = [d \in Tabs |-> {}] /\ signed = [d \in Tabs |-> None]
    /\ unlocked = [d \in Tabs |-> None]
    /\ held = [d \in Tabs |-> NoKeys]
    /\ task = [d \in Tabs |-> NoTask]

At(d, u)    == signed[d] = u /\ task[d] = NoTask
Begin(d, t) == task' = [task EXCEPT ![d] = t]
Wrap(v, u, key) == wrapped' = [wrapped EXCEPT ![v][u] = key]
Join(v, u)  == joined' = [joined EXCEPT ![u] = @ \cup {v}]

-----------------------------------------------------------------------------
Token(d, u) ==
    /\ signed' = [signed EXCEPT ![d] = u] /\ realm' = [realm EXCEPT ![d] = @ \cup {u}]

(* The login page, which Back or a link leads to without a page load: the  *)
(* caller's own keys replace those of whoever was signed in before.        *)
SignIn(d, u) ==
    /\ Token(d, u)
    /\ unlocked' = [unlocked EXCEPT ![d] = u]
    /\ UNCHANGED <<serverVars, held, task>>

(* AuthProvider's bootstrap and doRefresh: the token of whichever account  *)
(* the cookie names, beside the keys that are there.                       *)
Refresh(d, u) ==
    /\ Token(d, u)
    /\ UNCHANGED <<serverVars, unlocked, held, task>>

(* Both stores are wiped: the tab was idle, signs out or is refused a new  *)
(* token, and a page load follows; or a sign-in failed, and none does.     *)
(* keyStore.wipe overwrites the arrays in place: the key that the invite   *)
(* page took from the store before is an array of zeros from now on.       *)
Wipe(d) ==
    /\ signed' = [signed EXCEPT ![d] = None]
    /\ unlocked' = [unlocked EXCEPT ![d] = None]
    /\ held' = [held EXCEPT ![d] = NoKeys]
    /\ task' = [task EXCEPT ![d].key = IF task[d].op = "invite" THEN Blank ELSE @]
    /\ UNCHANGED <<serverVars, realm>>

(* The page is replaced (after a wipe, or by a reload): whatever its       *)
(* handlers were waiting for is lost with it.                              *)
NewPage(d) ==
    /\ signed' = [signed EXCEPT ![d] = None] /\ realm' = [realm EXCEPT ![d] = {}]
    /\ unlocked' = [unlocked EXCEPT ![d] = None]
    /\ held' = [held EXCEPT ![d] = NoKeys]
    /\ Begin(d, NoTask)
    /\ UNCHANGED serverVars

-----------------------------------------------------------------------------
(* vaults/new: a fresh key, wrapped for whoever is unlocked; stored when   *)
(* the server has answered.                                                *)
CreateVault(d, u, v) ==
    /\ At(d, u) /\ unlocked[d] # None
    /\ MB!Found(v, u) /\ Wrap(v, u, v) /\ Join(v, u)
    /\ Begin(d, [NoTask EXCEPT !.op = "create", !.vault = v, !.key = v])
    /\ UNCHANGED <<sealed, tabVars>>

(* Mutant: the key is stored before the server has accepted.               *)
AcceptInvite_StoreFirst(d, u, v) ==
    /\ At(d, u) /\ unlocked[d] = u /\ member[v][u] = "invited"
    /\ held' = [held EXCEPT ![d][v] = wrapped[v][u]]
    /\ UNCHANGED <<serverVars, realm, signed, unlocked, task>>

(* invites: unwrap (the box opens for the invitee alone), accept on the    *)
(* server, then store.                                                     *)
AcceptInvite(d, u, v) ==
    /\ At(d, u) /\ unlocked[d] = u
    /\ MB!Accept(v, u) /\ Join(v, u)
    /\ Begin(d, [NoTask EXCEPT !.op = "accept", !.vault = v, !.key = wrapped[v][u]])
    /\ UNCHANGED <<wrapped, sealed, tabVars>>

StoreKey(d) ==
    /\ task[d].op \in {"create", "accept"}
    /\ held' = [held EXCEPT ![d][task[d].vault] = task[d].key]
    /\ Begin(d, NoTask)
    /\ UNCHANGED <<serverVars, realm, signed, unlocked>>

(* The answer is lost: the page shows an error.                            *)
Lost(d) ==
    /\ task[d] # NoTask
    /\ Begin(d, NoTask)
    /\ UNCHANGED <<serverVars, tabVars>>

DeclineInvite(d, u, v) ==
    /\ At(d, u)
    /\ MB!Decline(v, u)
    /\ UNCHANGED <<wrapped, sealed, joined, tabVars, task>>

(* vaults/[id]/invite: the page takes the key from the store and the token *)
(* from the provider, looks the invitee up (to invite oneself is no use,   *)
(* and left out), ...                                                      *)
LookupInvitee(d, u, v, w) ==
    /\ At(d, u) /\ held[d][v] # None /\ w # u
    /\ Begin(d, [op |-> "invite", vault |-> v, user |-> u, target |-> w, key |-> held[d][v]])
    /\ UNCHANGED <<serverVars, tabVars>>

(* ... then wraps the key and posts the invitation.                        *)
SendInvite(d) ==
    LET t == task[d] IN
    /\ t.op = "invite"
    /\ MB!Invite(t.vault, t.user, t.target) /\ Wrap(t.vault, t.target, t.key)
    /\ Begin(d, NoTask)
    /\ UNCHANGED <<sealed, joined, tabVars>>

(* vaults/[id]/members: removing oneself, and the key once it is done;     *)
(* or another member, as an owner.                                         *)
LeaveVault(d, u, v) ==
    /\ At(d, u)
    /\ MB!Leave(v, u) /\ Wrap(v, u, None)
    /\ Begin(d, [NoTask EXCEPT !.op = "leave", !.vault = v])
    /\ UNCHANGED <<sealed, joined, tabVars>>

DropKey(d) ==
    /\ task[d].op = "leave"
    /\ held' = [held EXCEPT ![d][task[d].vault] = None]
    /\ Begin(d, NoTask)
    /\ UNCHANGED <<serverVars, realm, signed, unlocked>>

RemoveOther(d, u, v, w) ==
    /\ At(d, u) /\ member[v][u] = "owner"
    /\ MB!Leave(v, w) /\ Wrap(v, w, None)
    /\ UNCHANGED <<sealed, joined, tabVars, task>>

(* Mutant: fall back to master_dek.                                        *)
ResolveVaultDek_Fallback(d, v) ==
    IF held[d][v] = None THEN unlocked[d] ELSE held[d][v]

(* resolveVaultDek(vaultId): the vault's own key or none.                  *)
ResolveVaultDek(d, v) == held[d][v]

(* credential/new and credential/[id] for a shared vault.                  *)
SaveCredential(d, u, v) ==
    /\ At(d, u) /\ member[v][u] \in {"owner", "member"}
    /\ ResolveVaultDek(d, v) # None
    /\ sealed' = [sealed EXCEPT ![v] = ResolveVaultDek(d, v)]
    /\ UNCHANGED <<member, wrapped, joined, tabVars, task>>

Next ==
    \/ \E d \in Tabs :
          \/ Wipe(d) \/ NewPage(d)
          \/ StoreKey(d) \/ Lost(d) \/ SendInvite(d) \/ DropKey(d)
    \/ \E d \in Tabs, u \in Users :
          \/ SignIn(d, u) \/ Refresh(d, u)
          \/ \E v \in Vaults :
                \/ CreateVault(d, u, v) \/ AcceptInvite(d, u, v) \/ DeclineInvite(d, u, v)
                \/ LeaveVault(d, u, v) \/ SaveCredential(d, u, v)
                \/ \E w \in Users : LookupInvitee(d, u, v, w) \/ RemoveOther(d, u, v, w)

Spec == Init /\ [][Next]_vars

-----------------------------------------------------------------------------
TypeOK ==
    /\ member \in [Vaults -> [Users -> MB!Standing]]
    /\ wrapped \in [Vaults -> [Users -> Keys \cup {None}]]
    /\ sealed \in [Vaults -> Keys \cup {None}]
    /\ joined \in [Users -> SUBSET Vaults]
    /\ realm \in [Tabs -> SUBSET Users] /\ signed \in [Tabs -> Users \cup {None}]
    /\ unlocked \in [Tabs -> Users \cup {None}]
    /\ held \in [Tabs -> [Vaults -> Keys \cup {None}]]
    /\ task \in [Tabs -> Task]

(* FINDING-0079 and its kin: under a vault's name there is never the key   *)
(* of another vault, nor a master key; not in a credential, not in an      *)
(* invitation, not in a store; although tokens and keys of several users   *)
(* mix in a tab.  A blank key there may be, when the lock or a failed      *)
(* sign-in overtakes an invitation; but never in the box of the owner.     *)
OwnKeyOrBlank ==
    \A v \in Vaults :
        /\ sealed[v] \in {v, Blank, None}
        /\ \A d \in Tabs : held[d][v] \in {v, Blank, None}
        /\ \A u \in Users : /\ wrapped[v][u] \in {v, Blank, None}
                             /\ member[v][u] = "owner" => wrapped[v][u] = v

(* "Confirm server-side first": a tab has a vault's key only if somebody   *)
(* whose token the page had was let into the vault, however its handlers,  *)
(* locks, reloads, renewals and other users' sign-ins overlap.             *)
HeldAfterJoining ==
    \A d \in Tabs, v \in Vaults :
        held[d][v] # None => \E u \in realm[d] : v \in joined[u]

=============================================================================
