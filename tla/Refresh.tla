------------------------------ MODULE Refresh ------------------------------
(***************************************************************************)
(* The tabs of one browser keep one session alive.  They share the cookies:  *)
(* an access token that lives for a while, and a refresh token that every     *)
(* refresh replaces.  A tab whose request is refused asks for a refresh with   *)
(* the token in the jar at that moment; requests and answers of several tabs  *)
(* overtake each other.                                                      *)
(*                                                                          *)
(* Tokens are named by their place in the rotation: "current" is the one of   *)
(* refresh_token_hash, "previous" that of previous_token_hash, "older" is      *)
(* known to no row.  Time is counted in ticks.                               *)
(***************************************************************************)
EXTENDS Naturals

CONSTANTS
  Tabs,
  Life,      \* AUTH_ACCESS_TOKEN_TTL_SECONDS
  Grace,     \* REFRESH_RACE_GRACE_MS
  Patience,  \* how long an answer takes at most, when the network is well
  Nothing    \* an empty cookie jar

ASSUME RefreshAssumption ==
  /\ Life \in Nat \ {0} /\ Grace \in Nat /\ Patience \in Nat /\ 2 * Patience <= Grace
  /\ Nothing \notin {"current", "previous", "older"}

VARIABLES
  session,  \* the row of auth_sessions: open, revoked for reuse, or ended otherwise
  age,      \* ticks since last_used_at, up to Grace + 2
  jar,      \* the refresh token in the cookie jar
  life,     \* what is left of the access token in the jar
  tab,      \* tab[t]: its refresh
  lost,     \* an answer with a new token was lost (history)
  late,     \* a refresh took longer than Patience (history)
  overtaken \* a refresh came when its token had been replaced twice (history)

refreshVars == <<session, age, jar, life, tab, lost, late, overtaken>>

Token == {"current", "previous", "older", Nothing}
Under == {"sent", "found", "missed", "rotated", "raced", "refused"}

\* since: ticks since the handler read the clock; wait: since the tab asked.
Tab == [pc : {"idle", "denied"} \cup Under, token : Token, wait : 0..Patience, since : 0..1]
Quiet == [pc |-> "idle", token |-> Nothing, wait |-> 0, since |-> 0]

RefreshTypeOK ==
  /\ session \in {"open", "reuse", "ended"}
  /\ age \in 0..Grace + 2
  /\ jar \in Token /\ life \in 0..Life
  /\ tab \in [Tabs -> Tab]
  /\ {lost, late, overtaken} \subseteq BOOLEAN

\* Signed in just now.
RefreshInit ==
  /\ session = "open" /\ age = 0 /\ jar = "current" /\ life = Life
  /\ tab = [t \in Tabs |-> Quiet]
  /\ lost = FALSE /\ late = FALSE /\ overtaken = FALSE

Turns(t, pc) == tab' = [tab EXCEPT ![t].pc = pc]
Rests(t) == tab' = [tab EXCEPT ![t] = Quiet]

----------------------------------------------------------------------------
(* A tab                                                                    *)

\* A request of the tab was sent with no access token, or into a session that is over.
Denied(t) ==
  /\ tab[t] = Quiet /\ (life = 0 \/ session # "open")
  /\ Turns(t, "denied")
  /\ UNCHANGED <<session, age, jar, life, lost, late, overtaken>>

\* refreshSession, or the page /refresh, when the 401 or the redirect arrives: other
\* tabs may have refreshed meanwhile.
Ask(t) ==
  /\ tab[t].pc = "denied"
  /\ tab' = [tab EXCEPT ![t] = [Quiet EXCEPT !.pc = "sent", !.token = jar]]
  /\ UNCHANGED <<session, age, jar, life, lost, late, overtaken>>

\* The answer sets or clears the cookies, whatever others have put there.
Answer(t) ==
  /\ \/ tab[t].pc = "rotated" /\ jar' = tab[t].token /\ life' = Life
     \/ tab[t].pc = "raced" /\ life' = Life /\ UNCHANGED jar
     \/ tab[t].pc = "refused" /\ jar' = Nothing /\ life' = 0
  /\ Rests(t)
  /\ UNCHANGED <<session, age, lost, late, overtaken>>

\* The request or its answer is lost, or the server fails before it commits.
Lose(t) ==
  /\ tab[t].pc \in Under
  /\ lost' = (lost \/ tab[t].pc = "rotated")
  /\ Rests(t)
  /\ UNCHANGED <<session, age, jar, life, late, overtaken>>

\* logout, through the refresh token in the jar, clears the cookies.
SignOut ==
  /\ session = "open" /\ session' = "ended"
  /\ \/ jar' = Nothing /\ life' = 0
     \/ UNCHANGED <<jar, life>>    \* the password was changed, the user disabled
  /\ UNCHANGED <<age, tab, lost, late, overtaken>>

----------------------------------------------------------------------------
(* The server: refresh, statement by statement                              *)

\* The clock is read; findSessionByRefreshHash.
Find(t) ==
  /\ tab[t].pc = "sent"
  /\ \/ tab[t].token = "current" /\ session = "open" /\ Turns(t, "found")
     \/ tab[t].token = "current" /\ session # "open" /\ Turns(t, "refused")
     \/ tab[t].token = Nothing /\ Turns(t, "refused")
     \/ tab[t].token \in {"previous", "older"} /\ Turns(t, "missed")
  /\ UNCHANGED <<session, age, jar, life, lost, late, overtaken>>

Aged(k) == CASE k = "current" -> "previous" [] k = "previous" -> "older" [] OTHER -> k

\* rotateRefreshToken succeeds: every copy of a token is one rotation older.
Rotated(t) ==
  /\ tab' = [u \in Tabs |-> IF u = t THEN [tab[t] EXCEPT !.pc = "rotated"]
                            ELSE [tab[u] EXCEPT !.token = Aged(@)]]
  /\ jar' = Aged(jar) /\ age' = tab[t].since

MutRotates(t) == tab[t].pc = "found" /\ session = "open"    \* not compared and set

\* Its WHERE clause: still the current token of a session that is not revoked.
Rotates(t) == tab[t].pc = "found" /\ tab[t].token = "current" /\ session = "open"

Rotate(t) ==
  /\ Rotates(t) /\ Rotated(t)
  /\ UNCHANGED <<session, life, lost, late, overtaken>>

RotateFails(t) ==
  /\ tab[t].pc = "found" /\ ~Rotates(t)
  /\ Turns(t, "missed")
  /\ UNCHANGED <<session, age, jar, life, lost, late, overtaken>>

MutInRace(t) == age < Grace /\ tab[t].since = 0

\* The difference of two readings of the clock, by the loser and by the winner.
InRace(t) == age <= Grace + tab[t].since

\* findSessionByPreviousHash: a race, or a token used again.
Check(t) ==
  /\ tab[t].pc = "missed"
  /\ LET known == tab[t].token = "previous" /\ session = "open" IN
     /\ Turns(t, IF known /\ InRace(t) THEN "raced" ELSE "refused")
     /\ session' = IF known /\ ~InRace(t) THEN "reuse" ELSE session
     /\ overtaken' = (overtaken \/ (tab[t].token = "older" /\ session = "open"))
  /\ UNCHANGED <<age, jar, life, lost, late>>

----------------------------------------------------------------------------
(* Time                                                                     *)

Up(n, top) == IF n = top THEN top ELSE n + 1

\* A transaction ends within two ticks (its timeout).
Tick ==
  /\ \A t \in Tabs : tab[t].pc \in {"found", "missed"} => tab[t].since = 0
  /\ life' = IF life = 0 THEN 0 ELSE life - 1
  /\ age' = Up(age, Grace + 2)
  /\ tab' = [t \in Tabs |->
       IF tab[t].pc \notin Under THEN tab[t]
       ELSE [tab[t] EXCEPT !.wait = Up(@, Patience),
                           !.since = IF tab[t].pc \in {"found", "missed"} THEN 1 ELSE @]]
  /\ late' = (late \/ \E t \in Tabs : tab[t].pc \in Under /\ tab[t].wait = Patience)
  /\ UNCHANGED <<session, jar, lost, overtaken>>

RefreshNext ==
  \/ \E t \in Tabs :
       \/ Denied(t) \/ Ask(t) \/ Find(t) \/ Rotate(t) \/ RotateFails(t) \/ Check(t)
       \/ Answer(t) \/ Lose(t)
  \/ SignOut \/ Tick

RefreshSpec == RefreshInit /\ [][RefreshNext]_refreshVars

----------------------------------------------------------------------------
(* Properties                                                               *)

\* The tabs of a session keep it alive together: unless a new token was lost on its
\* way, a refresh took too long, or was overtaken by two others, the session is not
\* taken for copied, and its token is in the jar or on its way there.
StaysSignedIn ==
  lost \/ late \/ overtaken \/
    /\ session # "reuse"
    /\ session = "open" =>
         jar = "current" \/ \E t \in Tabs : tab[t].pc = "rotated" /\ tab[t].token = "current"

\* "Two tabs refreshing with the same token within this window is a race, not theft"
\* (REFRESH_RACE_GRACE_MS): a tab that asks with the token the others have, in time, is
\* not refused, which would sign all of them out.
RaceTolerated ==
  \A t \in Tabs : tab[t].pc = "refused" /\ session = "open" => lost \/ late
=============================================================================
