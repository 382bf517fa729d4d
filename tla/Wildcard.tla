----------------------------- MODULE Wildcard ------------------------------
(***************************************************************************)
(* The wildcard matcher of GetFileSystemEntries (vfs.match, as it is       *)
(* called: case sensitive), one action per way through its loop.  Indices  *)
(* count from 1 here; the names of files hold no star.                     *)
(***************************************************************************)
EXTENDS Integers, Sequences, SequencesExt

CONSTANTS Letters, MaxTame, MaxWild   \* bounds on the two strings

VARIABLES ts, ws, idx_t, idx_w, idx_after_last_star, result

vars == <<ts, ws, idx_t, idx_w, idx_after_last_star, result>>

Goto(t, w) == idx_t' = t /\ idx_w' = w /\ UNCHANGED <<ts, ws, result>>
Stop(r) == result' = r /\ UNCHANGED <<ts, ws, idx_t, idx_w, idx_after_last_star>>

Running == result = "none"
Reading == Running /\ idx_t <= Len(ts)
WildIs(c) == idx_w <= Len(ws) /\ ws[idx_w] = c

(* The end of the tame string: only stars may follow in the wild one.       *)
AtEnd ==
  /\ Running /\ idx_t > Len(ts)
  /\ IF idx_w > Len(ws) THEN Stop("match")
     ELSE IF ws[idx_w] = "*" THEN Goto(idx_t, idx_w + 1) /\ UNCHANGED idx_after_last_star
     ELSE Stop("fail")

SameCharacter ==
  /\ Reading /\ WildIs(ts[idx_t])
  /\ Goto(idx_t + 1, idx_w + 1) /\ UNCHANGED idx_after_last_star

Star ==
  /\ Reading /\ WildIs("*")
  /\ Goto(idx_t, idx_w + 1)
  /\ idx_after_last_star' = idx_w + 1

Differ == Reading /\ ~WildIs(ts[idx_t]) /\ ~WildIs("*")

(* Back to the star: the character that differed, and all before it, are    *)
(* taken to be matched by the star, or this one to be the first after it.   *)
BackToStar ==
  /\ Differ /\ idx_after_last_star # 0
  /\ LET w == idx_after_last_star IN
     IF w > Len(ws) THEN Stop("match")
     ELSE /\ Goto(idx_t + 1, IF ws[w] = ts[idx_t] THEN w + 1 ELSE w)
          /\ UNCHANGED idx_after_last_star

NoStar == Differ /\ idx_after_last_star = 0 /\ Stop("fail")

Init ==
  /\ ts \in SeqOf(Letters, MaxTame) /\ ws \in SeqOf(Letters \cup {"*"}, MaxWild)
  /\ idx_t = 1 /\ idx_w = 1 /\ idx_after_last_star = 0 /\ result = "none"

Next == AtEnd \/ SameCharacter \/ Star \/ BackToStar \/ NoStar

Spec == Init /\ [][Next]_vars

-----------------------------------------------------------------------------
(* What a wild string means: a star stands for any characters, or none.     *)
Means(t, w) ==
  LET m[i \in 1..(Len(t) + 1), j \in 1..(Len(w) + 1)] ==
        IF j > Len(w) THEN i > Len(t)
        ELSE IF w[j] = "*" THEN \E k \in i..(Len(t) + 1) : m[k, j + 1]
        ELSE i <= Len(t) /\ t[i] = w[j] /\ m[i + 1, j + 1]
  IN m[1, 1]

(* "A * in the wild string is matched against 0 or more characters": match  *)
(* returns true for every name the wild string stands for.                  *)
StarMatchesAny == result = "fail" => ~Means(ts, ws)
=============================================================================
