------------------------------ MODULE Account ------------------------------
(***************************************************************************)
(* An account's keys, from the signup wizard to the sign-in page.  The     *)
(* wizard makes a secret key and a recovery phrase, shows them once, and   *)
(* sends the server a row of ciphertexts only their holder can open; the   *)
(* login page and the second-factor page open it again, in a tab where the *)
(* user goes back and forth, and whose browser has one refresh cookie for  *)
(* all its tabs.                                                           *)
(*                                                                         *)
(* Derivations and ciphers are terms: two are equal when everything that   *)
(* went into them is.  An account is its lower-case address.  What a       *)
(* wizard draws at random besides the secret key and the phrase (the salt, *)
(* the keys it wraps) is as fresh as its secret key and named by it.       *)
(***************************************************************************)
EXTENDS Integers, FiniteSets

CONSTANTS
    Accounts,
    Passwords,
    Secrets,    \* secret keys, and the keys drawn with them
    Phrases,    \* recovery phrases
    MaxParams,  \* bound: how often an operator sets the Argon2 parameters
    MaxFactors, \* bound: second factors enrolled at a time
    Wizards,    \* tabs that show /signup
    Browsers,   \* browsers, of each one tab; the others' effect is OtherTab
    None

VARIABLES
    params,     \* the server's ARGON2_MEMORY_COST and ARGON2_TIME_COST, numbered
    users,      \* the users rows, None before signup
    factors,    \* the account's second factors
    totp,       \* its wrapped TOTP secret
    wizard,
    drawn,      \* secrets and phrases that were ever drawn
    notes,      \* auxiliary: the kits an account's user has written down
    tab,
    cookie      \* the accounts the browser's refresh cookie may name

wizardVars == <<wizard, drawn, notes>>
tabVars    == <<tab, cookie>>
vars       == <<params, users, factors, totp, wizardVars, tabVars>>

-----------------------------------------------------------------------------
(* packages/crypto, as terms.                                              *)
Aad(label, a, p)                == <<label, a, p>>
MasterKek(a, pw, sk, salt, p)   == <<pw, sk, a, salt, p>>
RecoveryKek(a, phrase)          == <<phrase, a>>
Verifier(sk, p)                 == <<sk, p>>
Wrap(key, kek, aad)             == [key |-> key, kek |-> kek, aad |-> aad]
Unwrap(box, kek, aad)           == IF box.kek = kek /\ box.aad = aad THEN box.key ELSE None

(* master_dek, signing_sk and kx_sk that belong to a secret key.           *)
Dek(sk)       == <<"master_dek", sk>>
SigningSk(sk) == <<"signing_sk", sk>>
KxSk(sk)      == <<"kx_sk", sk>>

(* buildSignupEnvelope, with the account the server adds to it.            *)
Envelope(a, kit, p) ==
    LET kek == MasterKek(a, kit.password, kit.secret, kit.secret, p) IN
    [verifier |-> Verifier(kit.secret, p), params |-> p, salt |-> kit.secret,
     dek      |-> Wrap(Dek(kit.secret), kek, Aad("master", a, p)),
     recovery |-> Wrap(Dek(kit.secret), RecoveryKek(a, kit.phrase), Aad("recovery", a, p)),
     signing  |-> Wrap(SigningSk(kit.secret), kek, Aad("sign-sk", a, p)),
     kx       |-> Wrap(KxSk(kit.secret), kek, Aad("kx-sk", a, p))]

(* unlockSecrets: the keys, or None when any tag does not match.           *)
UnlockSecrets(row, typed) ==
    LET a == typed.address  p == row.params
        kek  == MasterKek(a, typed.password, typed.secret, row.salt, p)
        keys == [dek     |-> Unwrap(row.dek, kek, Aad("master", a, p)),
                 signing |-> Unwrap(row.signing, kek, Aad("sign-sk", a, p)),
                 kx      |-> Unwrap(row.kx, kek, Aad("kx-sk", a, p))]
    IN IF None \in {keys.dek, keys.signing, keys.kx} THEN None ELSE keys

-----------------------------------------------------------------------------
Steps == {"invite", "master-pw", "secret-key", "recovery-reveal", "recovery-confirm",
          "submitting"}
NewWizard ==
    [step |-> "invite", address |-> None, params |-> None,
     password |-> None, secret |-> None, phrase |-> None]
NoTab  == [page |-> "login", sending |-> None, token |-> None, keys |-> None,
           stash |-> None, handoff |-> None,
           via |-> "none"]      \* "2fa": the second-factor page has just led here

Init ==
    /\ params = 1
    /\ users = [a \in Accounts |-> None] /\ factors = [a \in Accounts |-> {}]
    /\ totp = [a \in Accounts |-> None]
    /\ wizard = [w \in Wizards |-> NewWizard] /\ drawn = {}
    /\ notes = [a \in Accounts |-> {}]
    /\ tab = [b \in Browsers |-> NoTab] /\ cookie = [b \in Browsers |-> {}]

(* The operator sets other parameters and restarts the API.                *)
Recalibrate ==
    /\ params < MaxParams
    /\ params' = params + 1
    /\ UNCHANGED <<users, factors, totp, wizardVars, tabVars>>

-----------------------------------------------------------------------------
(* The wizard.  Kit is what its user has in hand after the last step.      *)
Kit(q) == [password |-> q.password, secret |-> q.secret, phrase |-> q.phrase]
To(w, step, q) == wizard' = [wizard EXCEPT ![w] = [q EXCEPT !.step = step]]
Unmoved == UNCHANGED <<params, users, factors, totp, tabVars>>

(* POST /invite/redeem answers with the invited address and the parameters *)
(* of the moment; it redeems nothing.                                      *)
RedeemInvite(w, a) ==
    /\ wizard[w].step = "invite" /\ users[a] = None
    /\ To(w, "master-pw", [NewWizard EXCEPT !.address = a, !.params = params])
    /\ UNCHANGED <<drawn, notes>> /\ Unmoved

SetPassword(w, pw) ==
    /\ wizard[w].step = "master-pw"
    /\ To(w, "secret-key", [wizard[w] EXCEPT !.password = pw])
    /\ UNCHANGED <<drawn, notes>> /\ Unmoved

(* Shown once, and typed back in.                                          *)
ConfirmSecretKey(w, sk) ==
    /\ wizard[w].step = "secret-key" /\ sk \notin drawn
    /\ To(w, "recovery-reveal", [wizard[w] EXCEPT !.secret = sk])
    /\ drawn' = drawn \cup {sk}
    /\ UNCHANGED notes /\ Unmoved

(* Coming back from a failed check, the step shows the phrase it drew.     *)
RevealPhrase(w, phrase) ==
    LET q == wizard[w] IN
    /\ q.step = "recovery-reveal"
    /\ IF q.phrase = None THEN phrase \notin drawn ELSE phrase = q.phrase
    /\ To(w, "recovery-confirm", [q EXCEPT !.phrase = phrase])
    /\ drawn' = drawn \cup {phrase}
    /\ notes' = [notes EXCEPT ![q.address] = @ \cup {[Kit(q) EXCEPT !.phrase = phrase]}]
    /\ Unmoved

(* Four words are right, or one is not.                                    *)
ConfirmPhrase(w) ==
    /\ wizard[w].step = "recovery-confirm"
    /\ To(w, "submitting", wizard[w])
    /\ UNCHANGED <<drawn, notes>> /\ Unmoved

BackToReveal(w) ==
    /\ wizard[w].step = "recovery-confirm"
    /\ To(w, "recovery-reveal", wizard[w])
    /\ UNCHANGED <<drawn, notes>> /\ Unmoved

(* Mutant: the row gets the parameters of the server, not of the envelope. *)
SubmitSignup_ServerParams(w) ==
    LET q == wizard[w] IN
    /\ q.step = "submitting"
    /\ \/ /\ users[q.address] = None
          /\ users' = [users EXCEPT ![q.address] =
                          [Envelope(q.address, Kit(q), q.params) EXCEPT !.params = params]]
       \/ UNCHANGED users
    /\ wizard' = [wizard EXCEPT ![w] = NewWizard]
    /\ UNCHANGED <<params, factors, totp, drawn, notes, tabVars>>

(* POST /auth/signup: whoever comes first has the invitation (Signup).     *)
(* Accepted, refused or its answer lost, a page load follows: the redirect *)
(* or "Start over".                                                        *)
SubmitSignup(w) ==
    LET q == wizard[w] IN
    /\ q.step = "submitting"
    /\ \/ /\ users[q.address] = None
          /\ users' = [users EXCEPT ![q.address] = Envelope(q.address, Kit(q), q.params)]
       \/ UNCHANGED users
    /\ wizard' = [wizard EXCEPT ![w] = NewWizard]
    /\ UNCHANGED <<params, factors, totp, drawn, notes, tabVars>>

LeaveWizard(w) ==
    /\ wizard[w].step # "invite"
    /\ wizard' = [wizard EXCEPT ![w] = NewWizard]
    /\ UNCHANGED <<drawn, notes>> /\ Unmoved

-----------------------------------------------------------------------------
(* The sign-in tab.                                                        *)
Show(b, q)      == tab' = [tab EXCEPT ![b] = q]
SetCookie(b, A) == cookie' = [cookie EXCEPT ![b] = A]
ServerAsIs      == UNCHANGED <<params, users, factors, totp, wizardVars>>
Named(b)        == {a \in cookie[b] : users[a] # None}

(* Another page of the same realm: the stores live on, and so does a       *)
(* request of the login page.                                              *)
Turned(q, page) == [q EXCEPT !.page = page, !.via = "none"]

(* A page load ends the realm: only sessionStorage and the cookie survive. *)
Loaded(q, page) == [NoTab EXCEPT !.page = page, !.stash = q.stash]

(* Mutant: the keys are forgotten.                                         *)
Wiped_TokenOnly(q) ==
    IF q.page = "home" THEN Loaded(q, "login") ELSE [q EXCEPT !.token = None]

(* accessTokenStore.wipe and keyStore.wipe.  On a page of the authed tree  *)
(* AuthGate then loads the login page.                                     *)
Wiped(q) ==
    IF q.page = "home" THEN Loaded(q, "login")
    ELSE [q EXCEPT !.token = None, !.keys = None, !.handoff = None]

Typed   == [address : Accounts, password : Passwords, secret : Secrets]
Request == [typed : Typed, verifier : Secrets \X (1..MaxParams), unlocking : BOOLEAN]

(* buildLoginEnvelope and POST /auth/login; `busy` allows one.  The page   *)
(* fetched the parameters when it was mounted, whenever that was.  Bound:  *)
(* the secret key is one shown for the address, right or wrong; any other  *)
(* fails like one of those.                                                *)
SubmitLogin(b, typed, cached) ==
    LET q == tab[b] IN
    /\ q.page = "login" /\ q.sending = None
    /\ \E kit \in notes[typed.address] : kit.secret = typed.secret
    /\ cached <= params
    /\ Show(b, [q EXCEPT !.sending = [typed |-> typed, unlocking |-> FALSE,
                                      verifier |-> Verifier(typed.secret, cached)]])
    /\ UNCHANGED cookie /\ ServerAsIs

Answered(q) == [q EXCEPT !.sending = None]
Waiting(q)  == q.sending # None /\ ~ q.sending.unlocking
Matches(s)  == /\ users[s.typed.address] # None
               /\ users[s.typed.address].verifier = s.verifier

(* Invalid credentials, or any other failure: everything is wiped.  If the *)
(* answer to a good verifier was lost, its cookie may have come.           *)
LoginFails(b) ==
    LET q == tab[b]  a == q.sending.typed.address IN
    /\ Waiting(q)
    /\ Show(b, Wiped(Answered(q)))
    /\ SetCookie(b, IF Matches(q.sending) /\ factors[a] = {}
                    THEN cookie[b] \cup {a} ELSE cookie[b])
    /\ ServerAsIs

(* The answer asks for a second factor: the token goes to sessionStorage,  *)
(* what was typed to keyStore, and the tab moves on without a page load.   *)
StepUpRequired(b) ==
    LET q == tab[b]  a == q.sending.typed.address IN
    /\ Waiting(q) /\ Matches(q.sending) /\ factors[a] # {}
    /\ Show(b, [Turned(Answered(q), "2fa") EXCEPT !.stash = a, !.handoff = q.sending.typed])
    /\ UNCHANGED cookie /\ ServerAsIs

(* The answer is a session: its token is stored, beside the keys of an     *)
(* earlier sign-in, before the password is put to the test.                *)
Login(b) ==
    LET q == tab[b]  a == q.sending.typed.address IN
    /\ Waiting(q) /\ Matches(q.sending) /\ factors[a] = {}
    /\ SetCookie(b, {a})
    /\ Show(b, [q EXCEPT !.token = a, !.sending.unlocking = TRUE])
    /\ ServerAsIs

(* A page of the authed tree is shown: AuthProvider takes the token that   *)
(* is there, or renews it, for whichever account the cookie names.  With   *)
(* neither, AuthGate loads the login page: see Load.                       *)
Enter(b, q, a) == Show(b, [Turned(q, "home") EXCEPT !.token = a])

(* unlockSecrets has an answer: the keys, or both stores are wiped.        *)
Unlock(b) ==
    LET q == tab[b]  keys == UnlockSecrets(users[q.sending.typed.address], q.sending.typed) IN
    /\ q.sending # None /\ q.sending.unlocking
    /\ \/ keys = None /\ Show(b, Wiped(Answered(q)))
       \/ /\ keys # None
          /\ \E a \in IF q.token = None THEN Named(b) ELSE {q.token} :
                Enter(b, [Answered(q) EXCEPT !.keys = keys], a)
    /\ UNCHANGED cookie /\ ServerAsIs

-----------------------------------------------------------------------------
(* login/2fa.  finalize: the token; then the keys, unless what was typed   *)
(* is lost; then a page load of /me.  If the unwrapping throws, the page   *)
(* stays, without the password, and nothing is wiped.                      *)
Finalized(q, a) ==
    IF q.handoff # None /\ UnlockSecrets(users[a], q.handoff) = None
    THEN [q EXCEPT !.token = a, !.handoff = None]
    ELSE [Loaded(q, "home") EXCEPT !.token = a, !.stash = None,
                                   !.via = IF q.handoff = None THEN "none" ELSE "2fa"]

(* The server has verified the factor; or its answer is lost.              *)
Finalize(b) ==
    LET q == tab[b] IN
    /\ \/ Show(b, Finalized(q, q.stash)) /\ SetCookie(b, {q.stash})
       \/ SetCookie(b, cookie[b] \cup {q.stash}) /\ UNCHANGED tab
    /\ ServerAsIs

StepUpPasskey(b) ==
    /\ tab[b].page = "2fa" /\ tab[b].stash # None /\ "webauthn" \in factors[tab[b].stash]
    /\ Finalize(b)

(* findTotpMatch opens the wrapped secret, so it needs what was typed.     *)
StepUpTotp(b) ==
    LET q == tab[b]  row == users[q.stash]
        dek == Unwrap(row.dek,
                      MasterKek(q.handoff.address, q.handoff.password, q.handoff.secret,
                                row.salt, row.params),
                      Aad("master", q.handoff.address, row.params)) IN
    /\ q.page = "2fa" /\ q.stash # None /\ q.handoff # None
    /\ "totp" \in factors[q.stash] /\ dek # None
    /\ Unwrap(totp[q.stash], dek, totp[q.stash].aad) # None
    /\ Finalize(b)

(* Nothing to go on with, an expired step-up token, or "Cancel".  A timer  *)
(* may do it, when the page has long been left.                            *)
WipeAndBounce(b) ==
    /\ tab[b].stash # None
    /\ Show(b, [Turned(Wiped(tab[b]), "login") EXCEPT !.stash = None])
    /\ UNCHANGED cookie /\ ServerAsIs

-----------------------------------------------------------------------------
(* Back, Forward and the link of /invites to the login page, without a     *)
(* page load.  The history may hold any of the three pages, but that of    *)
(* the second factor bounces when there is no stash.  A token that has     *)
(* expired meanwhile is renewed.                                           *)
Go(b) ==
    LET q == tab[b] IN
    /\ \/ q.page # "login" /\ Show(b, Turned(q, "login"))
       \/ q.page # "2fa" /\ q.stash # None /\ Show(b, Turned(q, "2fa"))
       \/ /\ q.page # "home"
          /\ \E a \in Named(b) \cup ({q.token} \ {None}) : Enter(b, q, a)
    /\ UNCHANGED cookie /\ ServerAsIs

(* doRefresh of a page of the authed tree.                                 *)
Renew(b) ==
    /\ tab[b].page = "home"
    /\ \E a \in Named(b) : Show(b, [tab[b] EXCEPT !.token = a])
    /\ UNCHANGED cookie /\ ServerAsIs

(* A page load: of a login page (AuthProvider's when it was refused, too), *)
(* or of a page of the authed tree, whose bootstrap refreshes.             *)
Load(b) ==
    /\ \/ Show(b, Loaded(tab[b], "login"))
       \/ tab[b].stash # None /\ Show(b, Loaded(tab[b], "2fa"))
       \/ \E a \in Named(b) : Show(b, [Loaded(tab[b], "home") EXCEPT !.token = a])
    /\ UNCHANGED cookie /\ ServerAsIs

Logout(b) ==
    /\ tab[b].page = "home"
    /\ Show(b, Loaded(tab[b], "login")) /\ SetCookie(b, {})
    /\ ServerAsIs

(* Another tab of the browser signs in or out, as whoever has an account.  *)
OtherTab(b) ==
    /\ SetCookie(b, Accounts)
    /\ UNCHANGED tab /\ ServerAsIs

-----------------------------------------------------------------------------
(* settings/security: the TOTP secret is wrapped under the tab's           *)
(* master_dek; a passkey needs no key; any method may go.                  *)
Enrolled == Cardinality({x \in Accounts \X {"totp", "webauthn"} : x[2] \in factors[x[1]]})

EnrollTotp(b) ==
    LET a == tab[b].token  p == users[a].params IN
    /\ tab[b].page = "home" /\ tab[b].keys # None /\ totp[a] = None
    /\ Enrolled < MaxFactors
    /\ totp' = [totp EXCEPT ![a] = Wrap(<<"totp", a>>, tab[b].keys.dek, Aad("totp", a, p))]
    /\ factors' = [factors EXCEPT ![a] = @ \cup {"totp"}]
    /\ UNCHANGED <<params, users, wizardVars, tabVars>>

EnrollPasskey(b) ==
    LET a == tab[b].token IN
    /\ tab[b].page = "home" /\ a # None /\ "webauthn" \notin factors[a]
    /\ Enrolled < MaxFactors
    /\ factors' = [factors EXCEPT ![a] = @ \cup {"webauthn"}]
    /\ UNCHANGED <<params, users, totp, wizardVars, tabVars>>

(* Mutant: the wrapped secret stays behind.                                *)
RemoveMethod_SecretStays(b, kind) ==
    LET a == tab[b].token IN
    /\ tab[b].page = "home" /\ a # None /\ kind \in factors[a]
    /\ factors' = [factors EXCEPT ![a] = @ \ {kind}]
    /\ UNCHANGED <<params, users, totp, wizardVars, tabVars>>

RemoveMethod(b, kind) ==
    LET a == tab[b].token IN
    /\ tab[b].page = "home" /\ a # None /\ kind \in factors[a]
    /\ factors' = [factors EXCEPT ![a] = @ \ {kind}]
    /\ totp' = IF kind = "totp" THEN [totp EXCEPT ![a] = None] ELSE totp
    /\ UNCHANGED <<params, users, wizardVars, tabVars>>

Next ==
    \/ Recalibrate
    \/ \E w \in Wizards :
          \/ \E a \in Accounts : RedeemInvite(w, a)
          \/ \E pw \in Passwords : SetPassword(w, pw)
          \/ \E sk \in Secrets : ConfirmSecretKey(w, sk)
          \/ \E phrase \in Phrases : RevealPhrase(w, phrase)
          \/ ConfirmPhrase(w) \/ BackToReveal(w) \/ SubmitSignup(w)
          \/ LeaveWizard(w)
    \/ \E b \in Browsers :
          \/ \E typed \in Typed, cached \in 1..MaxParams : SubmitLogin(b, typed, cached)
          \/ LoginFails(b) \/ StepUpRequired(b) \/ Login(b) \/ Unlock(b)
          \/ StepUpPasskey(b) \/ StepUpTotp(b) \/ WipeAndBounce(b)
          \/ Go(b) \/ Renew(b) \/ Load(b) \/ Logout(b) \/ OtherTab(b)
          \/ EnrollTotp(b) \/ EnrollPasskey(b)
          \/ \E kind \in {"totp", "webauthn"} : RemoveMethod(b, kind)

Spec == Init /\ [][Next]_vars

-----------------------------------------------------------------------------
TypeOK ==
    /\ params \in 1..MaxParams
    /\ \A a \in Accounts :
          /\ factors[a] \subseteq {"totp", "webauthn"}
          /\ totp[a] # None <=> "totp" \in factors[a]
    /\ \A w \in Wizards :
          /\ wizard[w].step \in Steps
          /\ wizard[w].secret \in Secrets \cup {None}
          /\ wizard[w].phrase \in Phrases \cup {None}
    /\ drawn \subseteq Secrets \cup Phrases
    /\ cookie \in [Browsers -> SUBSET Accounts]
    /\ \A b \in Browsers :
          /\ tab[b].page \in {"login", "2fa", "home"} /\ tab[b].sending \in Request \cup {None}
          /\ tab[b].token \in Accounts \cup {None} /\ tab[b].stash \in Accounts \cup {None}

(* A kit opens a row: the verifier, the keys, the DEK by the phrase too.   *)
Opens(a, kit) ==
    LET row  == users[a]
        keys == UnlockSecrets(row, [address |-> a, password |-> kit.password,
                                    secret |-> kit.secret])
    IN /\ row.verifier = Verifier(kit.secret, row.params)
       /\ keys # None
       /\ Unwrap(row.recovery, RecoveryKek(a, kit.phrase), Aad("recovery", a, row.params)) = keys.dek

(* Whatever the server has stored for an account, its user can open: with  *)
(* the password, secret key and recovery phrase they wrote down in one run *)
(* of the wizard; whichever of two wizards came first, whatever answer was *)
(* lost, whichever parameters were set in between.                         *)
AccountOpens ==
    \A a \in Accounts : users[a] # None => \E kit \in notes[a] : Opens(a, kit)

(* The keys in the tab are those of the account whose token it uses.       *)
Fits(q, rows) == q.token # None /\ q.keys # None => q.keys.dek = rows[q.token].dek.key

(* Token and keys that belong together stay together, although sign-ins of *)
(* several accounts fail or succeed in one tab, its history leads back to  *)
(* what they left and renewals follow the cookie.  Three things may part   *)
(* them: the cookie may be another tab's; a sign-in has stored its token   *)
(* and still tries what was typed (it ends with the right keys, unless     *)
(* another token came in between); the second-factor page found that what  *)
(* was typed does not open the account.                                    *)
Trying(q) == q.sending # None /\ q.sending.unlocking

StayTogether(b) ==
    LET q == tab[b]  p == tab'[b] IN
    Fits(q, users) =>
       \/ Fits(p, users')
       \/ p.keys = q.keys /\ p.token \in cookie[b] /\ cookie[b] # {p.token}
       \/ Trying(p) /\ p.token = p.sending.typed.address
       \/ Trying(q) /\ q.token # q.sending.typed.address
       \/ q.page = "2fa" /\ p.page = "2fa"
RightKeysOnly == [][\A b \in Browsers : StayTogether(b)]_vars

(* login/2fa: "On success we run the same unlockSecrets path as 1FA-only   *)
(* login, stash the access token + key material": the page a second factor *)
(* leads to has the keys.                                                  *)
SecondFactorUnlocks ==
    \A b \in Browsers :
        tab[b].page = "home" /\ tab[b].via = "2fa" => tab[b].keys # None
=============================================================================
