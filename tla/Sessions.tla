------------------------------- MODULE Sessions --------------------------------
(***************************************************************************)
(* The sessions of one user in one browser: refresh tokens and their       *)
(* rotation (AuthService), the tabs that share the browser's cookies       *)
(* (api.ts), and the ban, which rotation looks at.                         *)
(*                                                                         *)
(* A tab has at most one refresh in progress, whatever the number of its   *)
(* requests that were refused; but two tabs know nothing of each other,    *)
(* and send the same cookie.  Tokens are numbered as they are issued, and  *)
(* all tokens that descend from one login are one session.                 *)
(***************************************************************************)
EXTENDS Naturals, FiniteSets

CONSTANTS
  Tabs,          \* tabs of the browser
  MaxTokens,     \* bound of the model: tokens ever issued
  MaxSessions,   \* bound of the model: logins
  MaxBans,       \* bound of the model: bans and unbans
  MaxLosses      \* bound of the model: lost answers, dead processes, ended lifetimes

ASSUME SessionsAssumption ==
  /\ IsFiniteSet(Tabs)
  /\ {MaxTokens, MaxSessions, MaxBans, MaxLosses} \subseteq Nat

VARIABLES
  issued,     \* number of refresh tokens issued so far
  session,    \* session[t]: the login token t descends from
  logins,     \* number of sessions so far
  stored,     \* tokens whose key rt:<jti> exists
  jar,        \* the refresh token in the browser's cookies, 0 if there is none
  tab,        \* tab[i]: the request tab i is waiting for
  out,        \* sessions the user has logged out of
  refused,    \* sessions a refresh of which was refused for its token
  why,        \* why[s]: what has happened to session s
  banned,     \* the row's isBanned
  bans,       \* bans and unbans so far
  losses      \* lost answers, dead processes and ended lifetimes so far

tokenVars == <<issued, session, logins, stored>>
banVars   == <<banned, bans>>
notes     == <<out, refused, why>>
sessionsVars == <<tokenVars, jar, tab, notes, banVars, losses>>

Tokens   == 1 .. MaxTokens
Known    == 1 .. MaxSessions
Reasons  == {"overlap", "lost", "ended", "banned"}
Steps    == {"get", "del", "check", "issue", "answer", "revoke", "clear"}
Quiet    == [at |-> "idle", token |-> 0, new |-> 0]

SessionsTypeOK ==
  /\ issued \in 0 .. MaxTokens
  /\ session \in [Tokens -> 0 .. logins]
  /\ logins \in 0 .. MaxSessions
  /\ stored \in SUBSET (1 .. issued)
  /\ jar \in 0 .. issued
  /\ tab \in [Tabs -> [at : Steps, token : 0 .. issued, new : 0 .. issued] \union {Quiet}]
  /\ out \in SUBSET (1 .. logins)
  /\ refused \in SUBSET (1 .. logins)
  /\ why \in [Known -> SUBSET Reasons]
  /\ banned \in BOOLEAN
  /\ bans \in 0 .. MaxBans
  /\ losses \in Nat

SessionsInit ==
  /\ issued = 0
  /\ session = [t \in Tokens |-> 0]
  /\ logins = 0
  /\ stored = {}
  /\ jar = 0
  /\ tab = [i \in Tabs |-> Quiet]
  /\ out = {}
  /\ refused = {}
  /\ why = [s \in Known |-> {}]
  /\ banned = FALSE
  /\ bans = 0
  /\ losses = 0

TokensOf(s) == {t \in 1 .. issued : session[t] = s}
Involves(i, s) ==
  tab[i].at # "idle" /\ {tab[i].token, tab[i].new} \intersect TokensOf(s) # {}
Busy(s) == {i \in Tabs : Involves(i, s)}

At(i, step)      == tab[i].at = step
MovesTo(i, step) == tab' = [tab EXCEPT ![i].at = step]
Ends(i)          == tab' = [tab EXCEPT ![i] = Quiet]
Notes(t, reason) == why' = [why EXCEPT ![session[t]] = @ \union {reason}]

(***************************************************************************)
(* The browser sends a request with the cookie it has at that moment.  Two *)
(* requests of one session in progress at once overlap.                    *)
(***************************************************************************)
Sends(i, step) ==
  /\ At(i, "idle")
  /\ jar # 0
  /\ tab' = [tab EXCEPT ![i] = [at |-> step, token |-> jar, new |-> 0]]
  /\ IF Busy(session[jar]) = {} THEN UNCHANGED why ELSE Notes(jar, "overlap")
  /\ UNCHANGED <<tokenVars, jar, out, refused, banVars, losses>>

\* tryRefresh, after a request of the tab was refused
Refresh(i) == Sends(i, "get")

Logout(i) == Sends(i, "revoke")

\* verifyOtp has accepted a code; its ban check comes next.
Login(i) ==
  /\ At(i, "idle")
  /\ tab' = [tab EXCEPT ![i] = [at |-> "check", token |-> 0, new |-> 0]]
  /\ UNCHANGED <<tokenVars, jar, notes, banVars, losses>>

(***************************************************************************)
(* refreshTokens, call by call.                                            *)
(***************************************************************************)
RefreshGet(i) ==
  LET t == tab[i].token
  IN /\ At(i, "get")
     /\ IF t \in stored
        THEN MovesTo(i, "del") /\ UNCHANGED refused
        ELSE Ends(i) /\ refused' = refused \union {session[t]}
     /\ UNCHANGED <<tokenVars, jar, out, why, banVars, losses>>

\* Mutant: the old token is left to end by itself.
RefreshDel_Keeps(i) ==
  /\ At(i, "del")
  /\ MovesTo(i, "check")
  /\ UNCHANGED <<tokenVars, jar, notes, banVars, losses>>

RefreshDel(i) ==
  /\ At(i, "del")
  /\ stored' = stored \ {tab[i].token}
  /\ MovesTo(i, "check")
  /\ UNCHANGED <<issued, session, logins, jar, notes, banVars, losses>>

\* A banned user's token is gone by now.
Check(i) ==
  LET t == tab[i].token
  IN /\ At(i, "check")
     /\ IF ~banned THEN MovesTo(i, "issue") /\ UNCHANGED why
        ELSE /\ Ends(i)
             /\ IF t = 0 THEN UNCHANGED why ELSE Notes(t, "banned")
     /\ UNCHANGED <<tokenVars, jar, out, refused, banVars, losses>>

\* Mutant: the key of the new token is not written.
Issue_NoKey(i) ==
  LET new == issued + 1
      s   == IF tab[i].token = 0 THEN logins + 1 ELSE session[tab[i].token]
  IN /\ At(i, "issue")
     /\ new \in Tokens /\ s \in Known
     /\ issued' = new
     /\ logins' = IF s > logins THEN s ELSE logins
     /\ session' = [session EXCEPT ![new] = s]
     /\ tab' = [tab EXCEPT ![i].at = "answer", ![i].new = new]
     /\ UNCHANGED <<stored, jar, notes, banVars, losses>>

\* generateTokens; a login begins a session.
Issue(i) ==
  LET new == issued + 1
      s   == IF tab[i].token = 0 THEN logins + 1 ELSE session[tab[i].token]
  IN /\ At(i, "issue")
     /\ new \in Tokens /\ s \in Known      \* bounds of the model
     /\ issued' = new
     /\ logins' = IF s > logins THEN s ELSE logins
     /\ session' = [session EXCEPT ![new] = s]
     /\ stored' = stored \union {new}
     /\ tab' = [tab EXCEPT ![i].at = "answer", ![i].new = new]
     /\ UNCHANGED <<jar, notes, banVars, losses>>

Answer(i) ==
  /\ At(i, "answer")
  /\ jar' = tab[i].new
  /\ Ends(i)
  /\ UNCHANGED <<tokenVars, notes, banVars, losses>>

(***************************************************************************)
(* logout: revokeRefreshToken, then the cookies are cleared.               *)
(***************************************************************************)
\* Mutant: only the cookies are cleared.
Revoke_CookiesOnly(i) ==
  /\ At(i, "revoke")
  /\ MovesTo(i, "clear")
  /\ UNCHANGED <<tokenVars, jar, notes, banVars, losses>>

Revoke(i) ==
  /\ At(i, "revoke")
  /\ stored' = stored \ {tab[i].token}
  /\ MovesTo(i, "clear")
  /\ UNCHANGED <<issued, session, logins, jar, notes, banVars, losses>>

Clear(i) ==
  /\ At(i, "clear")
  /\ jar' = 0
  /\ out' = out \union {session[tab[i].token]}
  /\ Ends(i)
  /\ UNCHANGED <<tokenVars, refused, why, banVars, losses>>

Fails ==
  /\ losses < MaxLosses               \* bound of the model
  /\ losses' = losses + 1

\* The process dies, or its answer never arrives.
RequestLost(i) ==
  LET gone == {tab[i].token, tab[i].new} \ {0}
  IN /\ ~At(i, "idle")
     /\ Fails
     /\ why' = [s \in Known |-> IF \E t \in gone : session[t] = s THEN why[s] \union {"lost"} ELSE why[s]]
     /\ Ends(i)
     /\ UNCHANGED <<tokenVars, jar, out, refused, banVars>>

\* The key of a token lives for thirty days.
TokenEnds(t) ==
  /\ t \in stored
  /\ Fails
  /\ stored' = stored \ {t}
  /\ Notes(t, "ended")
  /\ UNCHANGED <<issued, session, logins, jar, tab, out, refused, banVars>>

\* banUser and unbanUser change the row and leave the tokens alone.
SetBanned ==
  /\ bans < MaxBans                       \* bound of the model
  /\ bans' = bans + 1
  /\ banned' = ~banned
  /\ UNCHANGED <<tokenVars, jar, tab, notes, losses>>

-------------------------------------------------------------------------------

TabStep(i) ==
  \/ Refresh(i) \/ Logout(i) \/ Login(i)
  \/ RefreshGet(i) \/ RefreshDel(i) \/ Check(i) \/ Issue(i) \/ Answer(i)
  \/ Revoke(i) \/ Clear(i)
  \/ RequestLost(i)

SessionsNext ==
  \/ \E i \in Tabs : TabStep(i)
  \/ \E t \in Tokens : TokenEnds(t)
  \/ SetBanned

SessionsSpec == SessionsInit /\ [][SessionsNext]_sessionsVars

(***************************************************************************)
(* As long as the tabs do not overlap, a session has one token: the one in *)
(* the store, or the one a rotation in progress is about to store.         *)
(***************************************************************************)
Rotating(s) == {i \in Busy(s) : tab[i].at \in {"check", "issue"}}

OneLiveToken ==
  \A s \in 1 .. logins : "overlap" \notin why[s] =>
    Cardinality(stored \intersect TokensOf(s)) + Cardinality(Rotating(s)) <= 1

\* A user who has logged out is logged out: no token of the session is good or
\* will be, and the browser has none.  A refresh that was in progress meanwhile
\* breaks this, and so does a token whose cookie never reached the browser.
LogoutSticks ==
  \A s \in out : why[s] \intersect {"overlap", "lost"} = {} =>
    stored \intersect TokensOf(s) = {} /\ Busy(s) = {} /\ jar \notin TokensOf(s)

\* A session that was not logged out of is refused only after a ban, at the end
\* of its token's life, after a lost answer, or when tabs overlapped.
RefusalIsExplained == \A s \in refused : s \in out \/ why[s] # {}
================================================================================
