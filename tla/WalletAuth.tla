----------------------------- MODULE WalletAuth -----------------------------
(***************************************************************************)
(* Signing in with a wallet: connect of frontend/js/views/xlayer.js with    *)
(* connectNetwork and signLogin of protocol/wallet.mjs, and the challenges  *)
(* and sessions of the backend (marketplace/xlayer_auth.py, mvp_store.py).  *)
(* The tabs of one browser share the session cookie; in each tab a refresh  *)
(* that began earlier may end in the middle of a connect.                   *)
(***************************************************************************)
EXTENDS Naturals, Sequences, FiniteSets

CONSTANTS
  Tabs, Addresses, Nobody,
  Limit, Window, NonceTTL, SessionTTL,   \* of the backend (5, 60, 300, 604800)
  MaxNonces, MaxTime, MaxChanges         \* bounds

\* A number and three lengths of time; nobody is no account.
BackendConstants == {Limit, Window, NonceTTL, SessionTTL} \subseteq Nat /\ Nobody \notin Addresses
BoundsAreNumbers == {MaxNonces, MaxTime, MaxChanges} \subseteq Nat

VARIABLES
  now,
  wallet,      \* the account the wallet would connect
  changes,
  tabs,        \* where each tab is in connect; as: connected.account, account: the page's variable
  refreshing,  \* loadData of each tab: not running, or what /auth/session answered it
  cookie,      \* the session token of the browser, 0: none
  nonces,      \* table wallet_nonces
  posted,      \* requests to /auth/verify, which the network may deliver more than once
  recovering,  \* those that wait for the recovery of their signer
  sessions,    \* table sessions, with the nonce each came from (history)
  overtaken    \* history: tabs whose account or cookie something else has changed since they connect
vars == <<now, wallet, changes, tabs, refreshing, cookie, nonces, posted, recovering, sessions, overtaken>>
backend == <<nonces, sessions, recovering>>

Idle == [at |-> "idle", as |-> Nobody, account |-> Nobody, nonce |-> 0]
Init == /\ now = 0 /\ wallet \in Addresses /\ changes = 0
        /\ tabs = [t \in Tabs |-> Idle] /\ refreshing = [t \in Tabs |-> "no"] /\ cookie = 0
        /\ nonces = <<>> /\ posted = {} /\ recovering = {} /\ sessions = <<>> /\ overtaken = {}

Tick == /\ now < MaxTime /\ now' = now + 1
        /\ UNCHANGED <<wallet, changes, tabs, refreshing, cookie, backend, posted, overtaken>>
WalletChanges == /\ changes < MaxChanges /\ changes' = changes + 1
                 /\ wallet' \in Addresses \ {wallet}
                 /\ UNCHANGED <<now, tabs, refreshing, cookie, backend, posted, overtaken>>

At(t, step) == tabs[t].at = step
Goes(t, step) == tabs' = [tabs EXCEPT ![t].at = step]
Ends(t) == tabs' = [tabs EXCEPT ![t] = Idle] /\ overtaken' = overtaken \ {t}
Others(t) == {u \in Tabs \ {t} : tabs[u].at # "idle"}

\* session_address
SessionAddress ==
  IF cookie # 0 /\ ~sessions[cookie].revoked /\ sessions[cookie].expires >= now
  THEN sessions[cookie].address ELSE Nobody

-----------------------------------------------------------------------------
(* connect, one step for each await.                                        *)

\* The wallet gives its account, on the right network or not at all.
ConnectNetwork(t) ==
  /\ At(t, "idle")
  /\ tabs' = [tabs EXCEPT ![t] = [at |-> "session", as |-> wallet, account |-> wallet, nonce |-> 0]]
  /\ UNCHANGED <<now, wallet, changes, refreshing, cookie, backend, posted, overtaken>>

\* /auth/session: no signature is asked of an account that is signed in.
ReadSession(t) ==
  /\ At(t, "session")
  /\ Goes(t, IF SessionAddress = tabs[t].account THEN "connected" ELSE "challenge")
  /\ UNCHANGED <<now, wallet, changes, refreshing, cookie, backend, posted, overtaken>>

\* issue_nonce: so many challenges of one requester in a window of time.
Recent(address) == {i \in DOMAIN nonces : nonces[i].address = address /\ nonces[i].at + Window >= now}
Challenge(t) ==
  LET address == tabs[t].account IN
  /\ At(t, "challenge") /\ Len(nonces) < MaxNonces
  /\ IF Cardinality(Recent(address)) < Limit
     THEN /\ nonces' = Append(nonces, [address |-> address, at |-> now, consumed |-> FALSE])
          /\ tabs' = [tabs EXCEPT ![t].at = "signing", ![t].nonce = Len(nonces) + 1]
          /\ UNCHANGED overtaken
     ELSE Ends(t) /\ UNCHANGED nonces
  /\ UNCHANGED <<now, wallet, changes, refreshing, cookie, posted, recovering, sessions>>

\* signLogin: of the page's account by now, or of the one the wallet has.
SignLogin(t) ==
  /\ At(t, "signing") /\ Goes(t, "verifying")
  /\ \E signer \in {tabs[t].account, wallet} :
       posted' = posted \cup {[tab |-> t, nonce |-> tabs[t].nonce, signer |-> signer]}
  /\ UNCHANGED <<now, wallet, changes, refreshing, cookie, backend, overtaken>>

\* The tab is done, fails, is refused by the wallet or closed.
Leaves(t) ==
  /\ ~At(t, "idle") /\ Ends(t)
  /\ UNCHANGED <<now, wallet, changes, refreshing, cookie, backend, posted>>

-----------------------------------------------------------------------------
(* verify: the nonce is consumed, the signer recovered by the Node service, *)
(* the session made.                                                        *)

\* A mutant: the row is not asked whether it was consumed.
Consumable_Again(i) == nonces[i].at + NonceTTL >= now

Consumable(i) == ~nonces[i].consumed /\ nonces[i].at + NonceTTL >= now

ConsumeNonce(r) ==
  /\ r \in posted /\ Consumable(r.nonce)
  /\ nonces' = [nonces EXCEPT ![r.nonce].consumed = TRUE]
  /\ recovering' = recovering \cup {r}
  /\ UNCHANGED <<now, wallet, changes, tabs, refreshing, cookie, posted, sessions, overtaken>>

\* The answer of a delivery that is refused; another delivery may go through.
Refused(r) ==
  /\ r \in posted /\ ~Consumable(r.nonce)
  /\ At(r.tab, "verifying") /\ tabs[r.tab].nonce = r.nonce /\ Ends(r.tab)
  /\ UNCHANGED <<now, wallet, changes, refreshing, cookie, backend, posted>>

\* The session is made for the address of the challenge; its cookie arrives if
\* the tab still waits.  The Node service may fail to answer.
Recovered(r, answered) ==
  /\ r \in recovering /\ recovering' = recovering \ {r}
  /\ LET waits == At(r.tab, "verifying") /\ tabs[r.tab].nonce = r.nonce
         valid == answered /\ r.signer = nonces[r.nonce].address
     IN /\ sessions' = IF valid
                       THEN Append(sessions, [address |-> r.signer, nonce |-> r.nonce, revoked |-> FALSE,
                                              expires |-> now + SessionTTL])
                       ELSE sessions
        /\ IF waits /\ valid
           THEN /\ Goes(r.tab, "connected") /\ cookie' = Len(sessions) + 1
                /\ overtaken' = overtaken \cup Others(r.tab)
           ELSE /\ UNCHANGED cookie
                /\ IF waits THEN Ends(r.tab) ELSE UNCHANGED <<tabs, overtaken>>
  /\ UNCHANGED <<now, wallet, changes, refreshing, nonces, posted>>

\* The session of the cookie is revoked and the cookie deleted.
Logout ==
  /\ cookie # 0 /\ cookie' = 0 /\ sessions' = [sessions EXCEPT ![cookie].revoked = TRUE]
  /\ overtaken' = overtaken \cup {t \in Tabs : tabs[t].at # "idle"}
  /\ UNCHANGED <<now, wallet, changes, tabs, refreshing, nonces, posted, recovering>>

-----------------------------------------------------------------------------
(* loadData of a refresh, which begins only while no button works, but may  *)
(* end during one: the session it read becomes the account of the page.     *)

RefreshStarts(t) ==
  /\ At(t, "idle") /\ refreshing[t] = "no" /\ refreshing' = [refreshing EXCEPT ![t] = SessionAddress]
  /\ UNCHANGED <<now, wallet, changes, tabs, cookie, backend, posted, overtaken>>
RefreshEnds(t) ==
  /\ refreshing[t] \in Addresses \cup {Nobody} /\ refreshing' = [refreshing EXCEPT ![t] = "no"]
  /\ IF ~At(t, "idle") /\ refreshing[t] \notin {Nobody, tabs[t].account}
     THEN tabs' = [tabs EXCEPT ![t].account = refreshing[t]] /\ overtaken' = overtaken \cup {t}
     ELSE UNCHANGED <<tabs, overtaken>>
  /\ UNCHANGED <<now, wallet, changes, cookie, backend, posted>>

Next == \/ Tick \/ WalletChanges \/ Logout
        \/ \E t \in Tabs : \/ ConnectNetwork(t) \/ ReadSession(t) \/ Challenge(t) \/ SignLogin(t)
                           \/ Leaves(t) \/ RefreshStarts(t) \/ RefreshEnds(t)
        \/ \E r \in posted : ConsumeNonce(r) \/ Refused(r)
        \/ \E r \in recovering, answered \in BOOLEAN : Recovered(r, answered)
Spec == Init /\ [][Next]_vars

-----------------------------------------------------------------------------
TypeOK ==
  /\ now \in 0..MaxTime /\ wallet \in Addresses /\ changes \in 0..MaxChanges /\ cookie \in 0..Len(sessions)
  /\ \A t \in Tabs : /\ tabs[t].at \in {"idle", "session", "challenge", "signing", "verifying", "connected"}
                     /\ {tabs[t].as, tabs[t].account} \subseteq Addresses \cup {Nobody}
                     /\ tabs[t].nonce \in 0..Len(nonces)
                     /\ refreshing[t] \in Addresses \cup {Nobody, "no"}
  /\ \A i \in DOMAIN nonces : nonces[i].address \in Addresses /\ nonces[i].at \in 0..now
  /\ recovering \subseteq posted /\ overtaken \subseteq Tabs

\* A session comes of one challenge, which its own address has signed, and a
\* challenge makes one session at most, however often its answer is delivered and
\* whatever else is recovered meanwhile (xlayer_auth.py:75-83).
OneSessionPerChallenge ==
  /\ \A i, j \in DOMAIN sessions : sessions[i].nonce = sessions[j].nonce => i = j
  /\ \A i \in DOMAIN sessions :
       /\ sessions[i].address = nonces[sessions[i].nonce].address
       /\ \E r \in posted : r.nonce = sessions[i].nonce /\ r.signer = sessions[i].address

\* In no stretch of time as long as the window does an address get more than its
\* share of challenges (mvp_store.py:240-246).
WithinRate ==
  \A a \in Addresses : \A from \in 0..MaxTime :
    Cardinality({i \in DOMAIN nonces : nonces[i].address = a /\ nonces[i].at \in from..(from + Window)}) <= Limit

\* What a tab does after connect, it does as the account that its wallet will
\* send from, unless another tab has signed in or out or an earlier refresh has
\* changed the page's account in the meantime (xlayer.js:77-88, 109-110).
ConnectedAs ==
  \A t \in Tabs : At(t, "connected") /\ t \notin overtaken =>
    cookie # 0 /\ sessions[cookie].address = tabs[t].as

SignInSound == OneSessionPerChallenge /\ WithinRate /\ ConnectedAs
=============================================================================
