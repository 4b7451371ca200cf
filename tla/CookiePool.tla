----------------------------- MODULE CookiePool -----------------------------
(***************************************************************************)
(* CookiePool (src/src/cookie_pool.py) and submit_cookies, which renews    *)
(* its default entry (src/src/token_bridge.py).                            *)
(*                                                                         *)
(* last_used is modelled by the order it puts the entries in: those never  *)
(* used, in the order of the list, then the others by their last use.      *)
(* fail_count is capped at FailThreshold, beyond which nothing tells its   *)
(* values apart.                                                           *)
(***************************************************************************)
EXTENDS Naturals, SequencesExt

CONSTANTS Cookies,
          Default,          \* the entry with the label "default"
          FailThreshold,    \* COOKIE_FAIL_THRESHOLD
          Configured        \* the lists _build may leave in _entries

ASSUME PoolAssumption == /\ Default \in Cookies
                         /\ FailThreshold \in Nat \ {0}
                         /\ Configured \subseteq Seq(Cookies)
                         /\ \A list \in Configured : IsInjective(list)

VARIABLES unused, used,     \* entries by last_used, oldest first
          healthy,          \* per entry
          fails,            \* fail_count per entry
          since             \* history: the entries taken since each healthy one was

poolVars == <<unused, used, healthy, fails, since>>

Rank    == unused \o used
Entries == {Rank[i] : i \in 1 .. Len(Rank)}
Healthy == {c \in Entries : healthy[c]}

\* _build: the configuration's entries, none of them twice.
PoolInit == /\ unused \in Configured
            /\ used = <<>>
            /\ healthy = [c \in Cookies |-> TRUE]
            /\ fails = [c \in Cookies |-> 0]
            /\ since = [c \in Cookies |-> {}]

\* Slip: any healthy entry will do.
AnyOf(c, S) == c \in S

\* min(..., key=last_used) over the entries in S.
Oldest(c, S) == \E i \in 1 .. Len(Rank) : /\ Rank[i] = c /\ c \in S
                                          /\ \A j \in 1 .. i - 1 : Rank[j] \notin S

\* Slip: the counts survive.
HealthyAgainKeepsCount(S) == /\ healthy' = [c \in Cookies |-> c \in S \/ healthy[c]]
                             /\ UNCHANGED fails

\* healthy = True and fail_count = 0 for the entries in S.
HealthyAgain(S) == /\ healthy' = [c \in Cookies |-> c \in S \/ healthy[c]]
                   /\ fails' = [c \in Cookies |-> IF c \in S THEN 0 ELSE fails[c]]

\* last_used = time.time().
Touch(c) == /\ unused' = RemoveFirst(unused, c)
            /\ used' = Append(RemoveFirst(used, c), c)
            /\ since' = [d \in Cookies |-> IF d # c /\ d \in Entries /\ healthy'[d]
                                          THEN since[d] \cup {c} ELSE {}]

\* The least recently used healthy entry; when none is healthy all are tried
\* again.
Acquire(c) == /\ \/ /\ Healthy # {}
                    /\ Oldest(c, Healthy)
                    /\ UNCHANGED <<healthy, fails>>
                 \/ /\ Healthy = {}
                    /\ Oldest(c, Entries)
                    /\ HealthyAgain(Entries)
              /\ Touch(c)

MarkOk(c) == /\ HealthyAgain({c})
             /\ UNCHANGED <<unused, used, since>>

MarkFailed(c, authFail) ==
  /\ fails' = [fails EXCEPT ![c] = IF @ < FailThreshold THEN @ + 1 ELSE @]
  /\ healthy' = [healthy EXCEPT ![c] = @ /\ ~authFail /\ fails'[c] < FailThreshold]
  /\ since' = [since EXCEPT ![c] = IF healthy'[c] THEN @ ELSE {}]
  /\ UNCHANGED <<unused, used>>

\* _validate, from the refresh loop or an administrator: nothing is kept of the
\* entry while its request is under way, so that only the verdict is a step.
\* An exception is not held against the entry.
Validate(c) == /\ c \in Entries
               /\ \/ MarkOk(c)
                  \/ \E authFail \in BOOLEAN : MarkFailed(c, authFail)

\* The extension submits fresh cookies.
Renew == \/ /\ Default \in Entries
            /\ HealthyAgain({Default})
            /\ UNCHANGED <<unused, used, since>>
         \/ /\ Default \notin Entries
            /\ unused' = Append(unused, Default)
            /\ healthy' = [healthy EXCEPT ![Default] = TRUE]
            /\ fails' = [fails EXCEPT ![Default] = 0]
            /\ UNCHANGED <<used, since>>

-----------------------------------------------------------------------------
(* Properties.                                                             *)

\* The entries are ranked without repetition and their counts are in range.
PoolTypeOK == /\ unused \in Seq(Cookies) /\ used \in Seq(Cookies)
              /\ \A i, j \in 1 .. Len(Rank) : Rank[i] = Rank[j] => i = j
              /\ healthy \in [Cookies -> BOOLEAN]
              /\ fails \in [Cookies -> 0 .. FailThreshold]
              /\ since \in [Cookies -> SUBSET Cookies]

\* Health and count agree through late outcomes, renewals and revivals: an
\* entry that is rested has a failure on its books, and one with the full count
\* is rested.
HealthMatchesFails == \A c \in Cookies : /\ fails[c] = FailThreshold => ~healthy[c]
                                         /\ ~healthy[c] => fails[c] > 0
=============================================================================
