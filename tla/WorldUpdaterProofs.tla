------------------------- MODULE WorldUpdaterProofs -------------------------
(***************************************************************************)
(* The copy of the world, for any number of positions, blocks placed,      *)
(* updates, ticks and changes of the backend: a pending update is never    *)
(* forgotten, a click is refused for cause, what the server has accepted   *)
(* stays accepted, and when all is answered the copy shows what the client *)
(* shows.                                                                  *)
(*                                                                         *)
(* Loops of the code (over the placements whose time is over, over the     *)
(* server's answers, over the packets of a bundle) are functions of the    *)
(* number of turns: that the function exists, and that what every turn     *)
(* keeps holds at the end, is shown from the least turn for which it would *)
(* fail.                                                                   *)
(***************************************************************************)
EXTENDS WorldUpdater, FiniteSetTheorems, WellFoundedInduction, TLAPS

-----------------------------------------------------------------------------
(* loops *)

\* What proofs by induction over the naturals come down to: a set of them has a least one.
LEMMA LeastNatural ==
  ASSUME NEW T \in SUBSET Nat, T # {}
  PROVE  \E n \in T : \A m \in T : n <= m
<1> DEFINE R == OpToRel(<, Nat)
<1>1. IsWellFoundedOn(R, Nat)
  BY NatLessThanWellFounded
<1>2. \A x, y \in Nat : <<x, y>> \in R <=> x < y
  BY DEF OpToRel
<1> HIDE DEF R
<1>3. PICK n \in T : \A m \in T : ~(<<m, n>> \in R)
  BY <1>1, WFMin
<1>4. \A m \in T : n <= m
  <2> TAKE m \in T
  <2>1. m \in Nat /\ n \in Nat /\ ~(m < n)
    BY <1>2, <1>3
  <2> QED BY <2>1
<1> QED BY <1>4

\* A loop over n turns has a value after each, if a turn leads from S to S.
LEMMA Turns ==
  ASSUME NEW S, NEW s0 \in S, NEW n \in Nat, NEW turn \in [1..n -> [S -> S]]
  PROVE  \E g \in [0..n -> S] : g[0] = s0 /\ \A k \in 1..n : g[k] = turn[k][g[k - 1]]
<1> DEFINE Upto(m) == \E g \in [0..m -> S] : g[0] = s0 /\ \A k \in 1..m : g[k] = turn[k][g[k - 1]]
           T == {m \in 0..n : ~Upto(m)}
<1> SUFFICES ASSUME ~Upto(n) PROVE FALSE
  OBVIOUS
<1>1. T \in SUBSET Nat /\ n \in T
  OBVIOUS
<1>2. PICK m \in T : \A k \in T : m <= k
  BY <1>1, LeastNatural
<1>3. m # 0
  <2>1. Upto(0)
    <3> DEFINE g == [k \in 0..0 |-> s0]
    <3>1. g \in [0..0 -> S] /\ g[0] = s0 /\ \A k \in 1..0 : g[k] = turn[k][g[k - 1]]
      OBVIOUS
    <3> QED BY <3>1
  <2> QED BY <2>1, <1>2
<1>4. m - 1 \in 0..n /\ m \in 1..n /\ ~(m <= m - 1)
  BY <1>2, <1>3
<1>5. Upto(m - 1)
  <2>1. m - 1 \notin T
    BY <1>2, <1>4
  <2> QED BY <2>1, <1>4
<1>6. PICK g \in [0..(m - 1) -> S] : g[0] = s0 /\ \A k \in 1..(m - 1) : g[k] = turn[k][g[k - 1]]
  BY <1>5
<1> HIDE DEF Upto, T
<1>7. turn[m] \in [S -> S] /\ g[m - 1] \in S
  BY <1>4
<1> DEFINE h == [k \in 0..m |-> IF k = m THEN turn[m][g[m - 1]] ELSE g[k]]
<1>8. h \in [0..m -> S]
  <2> SUFFICES ASSUME NEW k \in 0..m PROVE h[k] \in S
    OBVIOUS
  <2>1. CASE k = m
    BY <1>7, <2>1
  <2>2. CASE k # m
    BY <1>4, <2>2
  <2> QED BY <2>1, <2>2
<1>9. h[0] = s0
  BY <1>4, <1>6
<1>10. \A k \in 1..m : h[k] = turn[k][h[k - 1]]
  <2> TAKE k \in 1..m
  <2>0. k - 1 \in 0..m /\ k - 1 # m /\ k \in 0..m
    BY <1>4
  <2>1. h[k - 1] = g[k - 1]
    BY <2>0
  <2>2. CASE k = m
    BY <2>1, <2>2, <2>0
  <2>3. CASE k # m
    <3>1. k \in 1..(m - 1)
      BY <1>4, <2>3
    <3> QED BY <1>6, <2>0, <2>1, <2>3, <3>1
  <2> QED BY <2>2, <2>3
<1>11. Upto(m)
  BY <1>8, <1>9, <1>10 DEF Upto
<1> QED BY <1>2, <1>11 DEF T

\* What holds before a loop and is kept by every turn holds after it.
LEMMA KeptByTurns ==
  ASSUME NEW S, NEW n \in Nat, NEW g, g[0] \in S, \A k \in 1..n : g[k - 1] \in S => g[k] \in S
  PROVE  \A k \in 0..n : g[k] \in S
<1> DEFINE T == {k \in 0..n : g[k] \notin S}
<1> SUFFICES ASSUME T # {} PROVE FALSE
  OBVIOUS
<1>1. T \in SUBSET Nat
  OBVIOUS
<1>2. PICK m \in T : \A k \in T : m <= k
  BY <1>1, LeastNatural
<1>3. m # 0 /\ m \in 0..n
  BY <1>2
<1>4. m - 1 \in 0..n /\ m \in 1..n /\ ~(m <= m - 1)
  BY <1>3
<1>5. m - 1 \notin T
  BY <1>2, <1>4
<1>6. g[m - 1] \in S
  BY <1>4, <1>5
<1> QED BY <1>2, <1>4, <1>6

-----------------------------------------------------------------------------
(* maps *)

\* Blocks by position.
Maps(V) == UNION {[D -> V] : D \in SUBSET Positions}

\* A map by its domain and its entries.
LEMMA MapIs ==
  ASSUME NEW V, NEW m
  PROVE  m \in Maps(V) <=> /\ DOMAIN m \in SUBSET Positions /\ m = [p \in DOMAIN m |-> m[p]]
                           /\ \A p \in DOMAIN m : m[p] \in V
<1>1. ASSUME m \in Maps(V)
      PROVE  DOMAIN m \in SUBSET Positions /\ m = [p \in DOMAIN m |-> m[p]] /\ \A p \in DOMAIN m : m[p] \in V
  <2>1. PICK D \in SUBSET Positions : m \in [D -> V]
    BY <1>1 DEF Maps
  <2> QED BY <2>1
<1>2. ASSUME DOMAIN m \in SUBSET Positions, m = [p \in DOMAIN m |-> m[p]], \A p \in DOMAIN m : m[p] \in V
      PROVE  m \in Maps(V)
  <2>1. m \in [DOMAIN m -> V]
    BY <1>2
  <2> QED BY <1>2, <2>1 DEF Maps
<1> QED BY <1>1, <1>2

\* One map over another, a part of a map, and the empty map are maps.
LEMMA MergedMaps ==
  ASSUME NEW V, NEW f \in Maps(V), NEW g \in Maps(V)
  PROVE  Over(f, g) \in Maps(V)
<1>1. /\ DOMAIN f \in SUBSET Positions /\ DOMAIN g \in SUBSET Positions
      /\ (\A p \in DOMAIN f : f[p] \in V) /\ (\A p \in DOMAIN g : g[p] \in V)
  BY MapIs
<1>2. Over(f, g) \in [DOMAIN f \cup DOMAIN g -> V]
  BY <1>1 DEF Over
<1> QED BY <1>1, <1>2 DEF Maps

\* A part of a map.
LEMMA CutMap ==
  ASSUME NEW V, NEW f \in Maps(V), NEW D \in SUBSET DOMAIN f
  PROVE  [p \in D |-> f[p]] \in Maps(V)
<1>1. DOMAIN f \in SUBSET Positions /\ \A p \in DOMAIN f : f[p] \in V
  BY MapIs
<1>2. [p \in D |-> f[p]] \in [D -> V]
  BY <1>1
<1> QED BY <1>1, <1>2 DEF Maps

\* The empty map.
LEMMA EmptyMap == ASSUME NEW V PROVE Empty \in Maps(V) /\ DOMAIN Empty = {}
<1>1. Empty \in [{} -> V] /\ DOMAIN Empty = {}
  BY DEF Empty
<1> QED BY <1>1 DEF Maps

-----------------------------------------------------------------------------
(* placements *)

Placements == [against : Nat, rejected : BOOLEAN, allowed : BOOLEAN, confirmed : BOOLEAN, remaining : 0..Lifetime,
               pre : {"air"}, parentFace : Faces \cup {None}, connections : [Faces -> Nat]]

\* Links lead to placements, and those that do not lead to the parent to what was placed against this one.
Links(ps) ==
    /\ \A k \in DOMAIN ps : ps[k].against \in {None} \cup DOMAIN ps
    /\ \A k \in DOMAIN ps : \A f \in Faces :
         LET c == ps[k].connections[f]
         IN  c # None => c \in DOMAIN ps /\ (f # ps[k].parentFace => ps[c].against = k)

\* A placement is a ghost only if the server has refused one it rests on.
Ghosts(ps) == \A k \in DOMAIN ps : ~ps[k].allowed => \E m \in Foundation(ps, k) : ps[m].rejected

\* What the placements qs have in common with the earlier ps.
Later(ps, qs) ==
    /\ DOMAIN ps \subseteq DOMAIN qs
    /\ \A k \in DOMAIN ps : /\ qs[k].against = ps[k].against
                            /\ ps[k].rejected => qs[k].rejected
                            /\ Settled(ps[k]) => Settled(qs[k])

\* The fields of a placement.
LEMMA PlacementsTyped ==
    ASSUME NEW ps \in Seq(Placements), NEW k \in DOMAIN ps
    PROVE  /\ ps[k] \in Placements /\ ps[k].against \in Nat /\ ps[k].rejected \in BOOLEAN /\ ps[k].allowed \in BOOLEAN
           /\ ps[k].confirmed \in BOOLEAN /\ ps[k].remaining \in 0..Lifetime /\ ps[k].pre = "air"
           /\ ps[k].parentFace \in Faces \cup {None} /\ ps[k].connections \in [Faces -> Nat]
<1>1. ps[k] \in Placements
  OBVIOUS
<1> QED BY <1>1 DEF Placements

\* An axis has two faces, each opposite to the other.
LEMMA FacesTwo ==
    /\ \A f \in Faces : f \in Int /\ -f \in Faces /\ -f # f /\ f # None
    /\ \A f, g \in Faces : g = f \/ g = -f
<1>1. \A f \in Faces : f = -1 \/ f = 1
  BY DEF Faces
<1>2. -1 \in Faces /\ 1 \in Faces /\ -1 \in Int /\ 1 \in Int
  BY DEF Faces
<1>3. \A f \in Int : -f = 0 - f
  OBVIOUS
<1>4. \A f \in Faces : f \in Int /\ (f + 1 = 0 \/ f = 1)
  BY <1>1, <1>2
<1>5. \A f \in Faces : -f \in Int /\ -f # f /\ f # 0
  BY <1>3, <1>4
<1>6. \A f, g \in Faces : g = f \/ g = -f
  BY <1>3, <1>4
<1>7. \A f \in Faces : -f \in Faces
  <2> TAKE f \in Faces
  <2>1. CASE f = 1
    BY <1>2, <2>1
  <2>2. CASE f # 1
    <3>1. -f = 1
      BY <1>3, <1>4, <2>2
    <3> QED BY <1>2, <3>1
  <2> QED BY <2>1, <2>2
<1> QED BY <1>4, <1>5, <1>6, <1>7 DEF None

\* It is one that it rests on.
LEMMA FoundationSelf ==
    ASSUME NEW ps, NEW n \in DOMAIN ps
    PROVE  n \in Foundation(ps, n)
BY DEF Foundation

\* What it rests on is the same, or more, later.
LEMMA FoundationLater ==
    ASSUME NEW ps, NEW qs, Links(ps), Later(ps, qs), NEW n \in DOMAIN ps
    PROVE  Foundation(ps, n) \subseteq Foundation(qs, n)
<1> SUFFICES ASSUME NEW k \in Foundation(ps, n), NEW S \in SUBSET DOMAIN qs, n \in S,
                    \A j \in S : qs[j].against \in S \cup {None}
             PROVE  k \in S /\ k \in DOMAIN qs
  BY DEF Foundation, Later
<1> DEFINE R == S \cap DOMAIN ps
<1>1. \A j \in R : ps[j].against \in R \cup {None}
  <2> TAKE j \in R
  <2>1. qs[j].against = ps[j].against /\ ps[j].against \in {None} \cup DOMAIN ps
    BY DEF Later, Links
  <2> QED BY <2>1
<1>2. R \in SUBSET DOMAIN ps /\ n \in R
  OBVIOUS
<1>3. k \in R
  BY <1>1, <1>2 DEF Foundation
<1> QED BY <1>3 DEF Later

\* Who is placed against k rests on what k rests on.
LEMMA FoundationUp ==
    ASSUME NEW ps, NEW k \in DOMAIN ps, k # None, NEW c \in DOMAIN ps, ps[c].against = k, NEW n \in Foundation(ps, k)
    PROVE  n \in Foundation(ps, c)
<1> SUFFICES ASSUME NEW S \in SUBSET DOMAIN ps, c \in S, \A j \in S : ps[j].against \in S \cup {None}
             PROVE  n \in S
  BY DEF Foundation
<1>1. k \in S
  OBVIOUS
<1> QED BY <1>1 DEF Foundation

\* What an answer for n reaches rests on n.
LEMMA BelowRests ==
    ASSUME NEW ps \in Seq(Placements), Links(ps), NEW n \in DOMAIN ps, NEW k \in Below(ps, n)
    PROVE  k \in DOMAIN ps /\ n \in Foundation(ps, k)
<1> DEFINE children(j) == {ps[j].connections[f] : f \in Faces \ {ps[j].parentFace}} \ {None}
           S == {j \in DOMAIN ps : n \in Foundation(ps, j)}
<1>1. n \in S
  BY FoundationSelf
<1>2. \A j \in S : children(j) \subseteq S
  <2> SUFFICES ASSUME NEW j \in S, NEW f \in Faces \ {ps[j].parentFace}, ps[j].connections[f] # None
               PROVE  ps[j].connections[f] \in S
    OBVIOUS
  <2>1. ps[j].connections[f] \in DOMAIN ps /\ ps[ps[j].connections[f]].against = j
    BY DEF Links
  <2>2. j # None
    BY DEF None
  <2> QED BY <2>1, <2>2, FoundationUp
<1>3. k \in DOMAIN ps /\ \A R \in SUBSET DOMAIN ps :
        n \in R /\ (\A j \in R : ~Settled(ps[j]) => children(j) \subseteq R) => k \in R
  BY DEF Below
<1>4. S \in SUBSET DOMAIN ps
  OBVIOUS
<1> HIDE DEF S, children
<1>5. k \in S
  BY <1>1, <1>2, <1>3, <1>4
<1> QED BY <1>3, <1>5 DEF S

-----------------------------------------------------------------------------
(* judging *)

\* The placements with the same numbers, links and time left.
Alike(ps, qs) ==
    /\ DOMAIN qs = DOMAIN ps
    /\ \A k \in DOMAIN ps : /\ qs[k].parentFace = ps[k].parentFace /\ qs[k].connections = ps[k].connections
                            /\ qs[k].against = ps[k].against /\ qs[k].remaining = ps[k].remaining

\* Judging changes no link.
LEMMA AlikeLinks == ASSUME NEW ps, NEW qs, Alike(ps, qs), Links(ps) PROVE Links(qs)
BY DEF Alike, Links

\* setPlacementAllowed, an answer that the server gave: the placement it is refused for is noted as refused.
LEMMA AnswerKeeps ==
    ASSUME NEW ps \in Seq(Placements), Links(ps), Ghosts(ps), NEW n \in DOMAIN ps, NEW allowed \in BOOLEAN,
           ~allowed => ps[n].rejected
    PROVE  LET qs == setPlacementAllowed(ps, n, allowed)
           IN  qs \in Seq(Placements) /\ Alike(ps, qs) /\ Links(qs) /\ Ghosts(qs) /\ Later(ps, qs)
<1> DEFINE qs == setPlacementAllowed(ps, n, allowed)
<1>0. \A k \in DOMAIN ps : k \in Nat \ {0} /\ Settled(ps[k]) \in BOOLEAN
  BY PlacementsTyped DEF Settled
<1>1. CASE Settled(ps[n])
  <2>1. qs = ps
    BY <1>1 DEF setPlacementAllowed
  <2> QED BY <2>1 DEF Alike, Later
<1>2. CASE ~Settled(ps[n])
  <2>1. qs = [k \in DOMAIN ps |-> IF k \in Below(ps, n) /\ ~Settled(ps[k])
                                  THEN [ps[k] EXCEPT !.allowed = allowed, !.confirmed = TRUE] ELSE ps[k]]
    BY <1>2 DEF setPlacementAllowed
  <2> HIDE DEF qs
  <2>2. \A k \in DOMAIN ps : /\ qs[k] \in Placements
                             /\ qs[k].parentFace = ps[k].parentFace /\ qs[k].connections = ps[k].connections
                             /\ qs[k].against = ps[k].against /\ qs[k].remaining = ps[k].remaining
                             /\ qs[k].rejected = ps[k].rejected
                             /\ Settled(ps[k]) => qs[k] = ps[k]
                             /\ ~(k \in Below(ps, n)) => qs[k] = ps[k]
                             /\ qs[k] = ps[k] \/ (k \in Below(ps, n) /\ qs[k].allowed = allowed)
    <3> TAKE k \in DOMAIN ps
    <3>1. ps[k] \in Placements
      BY PlacementsTyped
    <3>2. CASE k \in Below(ps, n) /\ ~Settled(ps[k])
      <4>1. qs[k] = [ps[k] EXCEPT !.allowed = allowed, !.confirmed = TRUE]
        BY <2>1, <3>2
      <4> QED BY <3>1, <3>2, <4>1 DEF Placements
    <3>3. CASE ~(k \in Below(ps, n) /\ ~Settled(ps[k]))
      <4>1. qs[k] = ps[k]
        BY <2>1, <3>3
      <4> QED BY <3>1, <3>3, <4>1
    <3> QED BY <3>2, <3>3
  <2>3. DOMAIN qs = DOMAIN ps /\ qs \in Seq(Placements)
    <3>1. Len(ps) \in Nat /\ DOMAIN ps = 1..Len(ps)
      OBVIOUS
    <3>2. qs \in [1..Len(ps) -> Placements]
      BY <2>1, <2>2, <3>1
    <3> QED BY <3>1, <3>2
  <2>4. Alike(ps, qs) /\ Links(qs)
    <3>1. Alike(ps, qs)
      BY <2>2, <2>3 DEF Alike
    <3> QED BY <3>1, AlikeLinks
  <2>5. Later(ps, qs)
    BY <2>2, <2>3 DEF Later
  <2>6. Ghosts(qs)
    <3> SUFFICES ASSUME NEW k \in DOMAIN ps, ~qs[k].allowed
                 PROVE  \E m \in Foundation(qs, k) : qs[m].rejected
      BY <2>3 DEF Ghosts
    <3>1. Foundation(ps, k) \subseteq Foundation(qs, k)
      BY <2>5, FoundationLater
    <3>2. CASE qs[k] = ps[k]
      <4>1. PICK m \in Foundation(ps, k) : ps[m].rejected
        BY <3>2 DEF Ghosts
      <4>2. m \in DOMAIN ps
        BY DEF Foundation
      <4> QED BY <2>2, <3>1, <4>1, <4>2
    <3>3. CASE k \in Below(ps, n) /\ qs[k].allowed = allowed
      <4>1. n \in Foundation(ps, k)
        BY <3>3, BelowRests
      <4>2. ps[n].rejected
        BY <3>3
      <4> QED BY <2>2, <3>1, <4>1, <4>2
    <3> QED BY <2>2, <3>2, <3>3
  <2> QED BY <2>3, <2>4, <2>5, <2>6 DEF qs
<1> QED BY <1>1, <1>2

\* Later, and alike, of one that is.
LEMMA LaterTwice ==
    ASSUME NEW ps, NEW qs, NEW rs, Later(ps, qs), Later(qs, rs)
    PROVE  Later(ps, rs)
BY DEF Later

\* The same for alike.
LEMMA AlikeTwice ==
    ASSUME NEW ps, NEW qs, NEW rs, Alike(ps, qs), Alike(qs, rs)
    PROVE  Alike(ps, rs)
BY DEF Alike

\* Noting a refusal.
LEMMA NoteKeeps ==
    ASSUME NEW ps \in Seq(Placements), Links(ps), Ghosts(ps), NEW n \in DOMAIN ps, NEW r \in BOOLEAN
    PROVE  LET qs == [ps EXCEPT ![n].rejected = @ \/ r]
           IN  /\ qs \in Seq(Placements) /\ Alike(ps, qs) /\ Links(qs) /\ Ghosts(qs) /\ Later(ps, qs)
               /\ r => qs[n].rejected
<1> DEFINE qs == [ps EXCEPT ![n].rejected = @ \/ r]
<1>1. \A k \in DOMAIN ps : /\ qs[k] \in Placements
                           /\ qs[k].parentFace = ps[k].parentFace /\ qs[k].connections = ps[k].connections
                           /\ qs[k].against = ps[k].against /\ qs[k].remaining = ps[k].remaining
                           /\ qs[k].allowed = ps[k].allowed /\ qs[k].confirmed = ps[k].confirmed
                           /\ ps[k].rejected => qs[k].rejected
                           /\ r /\ k = n => qs[k].rejected
  <2> TAKE k \in DOMAIN ps
  <2>1. ps[k] \in Placements /\ ps[k].rejected \in BOOLEAN
    BY PlacementsTyped
  <2>2. CASE k = n
    <3>1. qs[k] = [ps[k] EXCEPT !.rejected = ps[k].rejected \/ r]
      BY <2>2
    <3> DEFINE v == ps[k].rejected \/ r
    <3>2. v \in BOOLEAN /\ (ps[k].rejected => v) /\ (r => v) /\ qs[k] = [ps[k] EXCEPT !.rejected = v]
      BY <3>1
    <3> HIDE DEF v, qs
    <3> QED BY <2>1, <3>2 DEF Placements
  <2>3. CASE k # n
    <3>1. qs[k] = ps[k]
      BY <2>3
    <3> HIDE DEF qs
    <3> QED BY <2>1, <2>3, <3>1
  <2> QED BY <2>2, <2>3
<1>2. DOMAIN qs = DOMAIN ps /\ qs = [k \in DOMAIN ps |-> qs[k]]
  OBVIOUS
<1> HIDE DEF qs
<1>3. qs \in Seq(Placements)
  <2>1. Len(ps) \in Nat /\ DOMAIN ps = 1..Len(ps)
    OBVIOUS
  <2>2. qs \in [1..Len(ps) -> Placements]
    BY <1>1, <1>2, <2>1
  <2> QED BY <2>1, <2>2
<1>4. Alike(ps, qs) /\ Links(qs)
  <2>1. Alike(ps, qs)
    BY <1>1, <1>2 DEF Alike
  <2> QED BY <2>1, AlikeLinks
<1>5. Later(ps, qs)
  BY <1>1, <1>2 DEF Later, Settled
<1>6. Ghosts(qs)
  <2> SUFFICES ASSUME NEW k \in DOMAIN ps, ~qs[k].allowed
               PROVE  \E m \in Foundation(qs, k) : qs[m].rejected
    BY <1>2 DEF Ghosts
  <2>1. Foundation(ps, k) \subseteq Foundation(qs, k)
    BY <1>5, FoundationLater
  <2>2. PICK m \in Foundation(ps, k) : ps[m].rejected
    BY <1>1 DEF Ghosts
  <2>3. m \in DOMAIN ps
    BY DEF Foundation
  <2> QED BY <1>1, <2>1, <2>2, <2>3
<1> QED BY <1>1, <1>3, <1>4, <1>5, <1>6 DEF qs

\* What judging may make of the placements.
JudgedFrom(ps) == {qs \in Seq(Placements) : Alike(ps, qs) /\ Links(qs) /\ Ghosts(qs) /\ Later(ps, qs)}

\* The answer of the server for the position pos.
Judgement(acc, pl, pos) ==
    setPlacementAllowed([acc EXCEPT ![pl[pos]].rejected = @ \/ batch[pos].rid = "air"], pl[pos],
                        placementAllowed(acc[pl[pos]], batch[pos].rid))

\* One answer of the server.
LEMMA JudgementKeeps ==
    ASSUME NEW ps \in Seq(Placements), NEW pl, NEW pos \in DOMAIN pl, pl[pos] \in DOMAIN ps,
           NEW acc \in JudgedFrom(ps)
    PROVE  Judgement(acc, pl, pos) \in JudgedFrom(ps)
<1> DEFINE n == pl[pos]
           r == batch[pos].rid = "air"
           qs == [acc EXCEPT ![n].rejected = @ \/ r]
           allowed == placementAllowed(acc[n], batch[pos].rid)
<1>1. acc \in Seq(Placements) /\ Alike(ps, acc) /\ Links(acc) /\ Ghosts(acc) /\ Later(ps, acc)
  BY DEF JudgedFrom
<1>2. n \in DOMAIN acc /\ r \in BOOLEAN /\ allowed \in BOOLEAN
  BY <1>1 DEF Alike, placementAllowed
<1>3. ~allowed => r
  <2>1. acc[n].pre = "air"
    BY <1>1, <1>2, PlacementsTyped
  <2> QED BY <2>1 DEF placementAllowed
<1> HIDE DEF n, r, allowed
<1>4. /\ qs \in Seq(Placements) /\ Alike(acc, qs) /\ Links(qs) /\ Ghosts(qs) /\ Later(acc, qs)
      /\ r => qs[n].rejected
  BY <1>1, <1>2, NoteKeeps
<1>5. n \in DOMAIN qs
  BY <1>2, <1>4 DEF Alike
<1> HIDE DEF qs
<1> DEFINE rs == setPlacementAllowed(qs, n, allowed)
<1>6. rs \in Seq(Placements) /\ Alike(qs, rs) /\ Links(rs) /\ Ghosts(rs) /\ Later(qs, rs)
  BY <1>2, <1>3, <1>4, <1>5, AnswerKeeps
<1>7. Judgement(acc, pl, pos) = rs
  BY DEF Judgement, rs, qs, n, r, allowed
<1> HIDE DEF rs
<1>8. Alike(ps, rs) /\ Later(ps, rs)
  BY <1>1, <1>4, <1>6, AlikeTwice, LaterTwice
<1> QED BY <1>6, <1>7, <1>8 DEF JudgedFrom

\* The loop over the first n positions.
IsJudged(h, ps, pl, order, n) ==
    h = [i \in 0..n |-> IF i = 0 THEN ps ELSE Judgement(h[i - 1], pl, order[i])]

\* The loop has a value after every turn.
LEMMA JudgedExists ==
    ASSUME NEW S, NEW ps \in S, NEW pl, NEW order, NEW n \in Nat,
           \A k \in 1..n : \A s \in S : Judgement(s, pl, order[k]) \in S
    PROVE  \E h : IsJudged(h, ps, pl, order, n)
<1> DEFINE turn == [k \in 1..n |-> [s \in S |-> Judgement(s, pl, order[k])]]
<1>1. turn \in [1..n -> [S -> S]]
  OBVIOUS
<1>2. PICK g \in [0..n -> S] : g[0] = ps /\ \A k \in 1..n : g[k] = turn[k][g[k - 1]]
  <2> HIDE DEF turn
  <2> QED BY <1>1, Turns
<1>3. \A i \in 0..n : g[i] = IF i = 0 THEN ps ELSE Judgement(g[i - 1], pl, order[i])
  <2> TAKE i \in 0..n
  <2>1. CASE i = 0
    BY <1>2, <2>1
  <2>2. CASE i # 0
    <3>1. i \in 1..n /\ i - 1 \in 0..n /\ g[i - 1] \in S
      BY <2>2
    <3>2. g[i] = turn[i][g[i - 1]]
      BY <1>2, <3>1
    <3> QED BY <2>2, <3>1, <3>2
  <2> QED BY <2>1, <2>2
<1>4. g = [i \in 0..n |-> g[i]]
  OBVIOUS
<1> QED BY <1>3, <1>4 DEF IsJudged

\* What every answer keeps holds after the loop.
LEMMA JudgedStays ==
    ASSUME NEW S, NEW ps \in S, NEW pl, NEW order, NEW n \in Nat, NEW h, IsJudged(h, ps, pl, order, n),
           \A k \in 1..n : \A s \in S : Judgement(s, pl, order[k]) \in S
    PROVE  h[n] \in S
<1>1. h[0] = ps /\ \A k \in 1..n : h[k] = Judgement(h[k - 1], pl, order[k])
  <2>1. h = [i \in 0..n |-> IF i = 0 THEN ps ELSE Judgement(h[i - 1], pl, order[i])]
    BY DEF IsJudged
  <2>2. 0 \in 0..n /\ \A k \in 1..n : k \in 0..n /\ k # 0
    OBVIOUS
  <2> QED BY <2>1, <2>2
<1>2. \A k \in 1..n : h[k - 1] \in S => h[k] \in S
  BY <1>1
<1>3. \A k \in 0..n : h[k] \in S
  BY <1>1, <1>2, KeptByTurns
<1> QED BY <1>3

\* Flush: all the answers of a batch.
LEMMA JudgedKeeps ==
    ASSUME NEW ps \in Seq(Placements), Links(ps), Ghosts(ps), NEW pl, NEW order, Len(order) \in Nat,
           \A i \in 1..Len(order) : order[i] \in DOMAIN pl /\ pl[order[i]] \in DOMAIN ps
    PROVE  Judged(ps, pl, order) \in JudgedFrom(ps)
<1>1. ps \in JudgedFrom(ps)
  BY DEF JudgedFrom, Alike, Later
<1>2. \A k \in 1..Len(order) : \A s \in JudgedFrom(ps) : Judgement(s, pl, order[k]) \in JudgedFrom(ps)
  BY JudgementKeeps
<1> DEFINE S == JudgedFrom(ps)
           n == Len(order)
           h == CHOOSE g : IsJudged(g, ps, pl, order, n)
<1>3. Judged(ps, pl, order) = h[n]
  BY DEF Judged, IsJudged, Judgement
<1>4. n \in Nat /\ ps \in S /\ \A k \in 1..n : \A s \in S : Judgement(s, pl, order[k]) \in S
  BY <1>1, <1>2
<1> HIDE DEF n, S
<1>5. IsJudged(h, ps, pl, order, n)
  BY <1>4, JudgedExists
<1> HIDE DEF h
<1>6. h[n] \in S
  BY <1>4, <1>5, JudgedStays
<1> QED BY <1>3, <1>6 DEF S

-----------------------------------------------------------------------------
(* destroying *)

\* The same placements but for their links.
Relinked(ps, qs) ==
    /\ DOMAIN qs = DOMAIN ps
    /\ \A k \in DOMAIN ps : /\ qs[k].against = ps[k].against /\ qs[k].rejected = ps[k].rejected
                            /\ qs[k].allowed = ps[k].allowed /\ qs[k].confirmed = ps[k].confirmed
                            /\ qs[k].remaining = ps[k].remaining

\* Relinked twice.
LEMMA RelinkedTwice ==
    ASSUME NEW ps, NEW qs, NEW rs, Relinked(ps, qs), Relinked(qs, rs)
    PROVE  Relinked(ps, rs)
BY DEF Relinked

\* A sequence with other records.
LEMMA SameLength ==
    ASSUME NEW ps \in Seq(Placements), NEW qs, DOMAIN qs = DOMAIN ps, qs = [k \in DOMAIN ps |-> qs[k]],
           \A k \in DOMAIN ps : qs[k] \in Placements
    PROVE  qs \in Seq(Placements) /\ Len(qs) = Len(ps)
<1>1. Len(ps) \in Nat /\ DOMAIN ps = 1..Len(ps)
  OBVIOUS
<1>2. qs \in [1..Len(ps) -> Placements]
  BY <1>1
<1> QED BY <1>1, <1>2

\* destroy cuts links and nothing else.
LEMMA DestroyKeeps ==
    ASSUME NEW ps \in Seq(Placements), Links(ps), NEW n \in DOMAIN ps
    PROVE  LET qs == destroy(ps, n) IN qs \in Seq(Placements) /\ Links(qs) /\ Relinked(ps, qs)
<1> DEFINE qs == destroy(ps, n)
           near == {ps[n].connections[f] : f \in Faces} \ {None}
           faceTo(k) == CHOOSE f \in Faces : ps[n].connections[f] = k
           cut(k) == [ps[k] EXCEPT !.connections[faceTo(k)] = None, !.connections[-faceTo(k)] = None,
                                   !.parentFace = None]
<1>1. qs = [k \in DOMAIN ps |-> IF k \in near THEN cut(k) ELSE ps[k]]
  BY DEF destroy
<1>2. \A k \in near : faceTo(k) \in Faces
  OBVIOUS
<1> HIDE DEF qs, near, faceTo
<1>3. \A k \in DOMAIN ps :
        /\ qs[k] \in Placements
        /\ qs[k].against = ps[k].against /\ qs[k].rejected = ps[k].rejected
        /\ qs[k].allowed = ps[k].allowed /\ qs[k].confirmed = ps[k].confirmed /\ qs[k].remaining = ps[k].remaining
        /\ qs[k] = ps[k] \/ (qs[k].parentFace = None /\ \A f \in Faces : qs[k].connections[f] = None)
  <2> TAKE k \in DOMAIN ps
  <2>1. ps[k] \in Placements /\ ps[k].connections \in [Faces -> Nat]
    BY PlacementsTyped
  <2>2. CASE k \in near
    <3> DEFINE f == faceTo(k)
               links == [[ps[k].connections EXCEPT ![f] = None] EXCEPT ![-f] = None]
    <3>1. f \in Faces /\ -f \in Faces
      BY <1>2, <2>2, FacesTwo
    <3>2. qs[k] = [ps[k] EXCEPT !.connections = links, !.parentFace = None]
      <4>1. qs[k] = cut(k)
        BY <1>1, <2>2
      <4>2. cut(k) = [ps[k] EXCEPT !.connections = links, !.parentFace = None]
        BY <2>1 DEF Placements
      <4> QED BY <4>1, <4>2
    <3> HIDE DEF f
    <3>3. links \in [Faces -> Nat] /\ \A g \in Faces : links[g] = None
      <4>1. \A g \in Faces : g = f \/ g = -f
        BY <3>1, FacesTwo
      <4>2. None \in Nat
        BY DEF None
      <4> QED BY <2>1, <3>1, <4>1, <4>2
    <3> HIDE DEF links
    <3> QED BY <2>1, <3>2, <3>3 DEF Placements
  <2>3. CASE k \notin near
    BY <1>1, <2>1, <2>3
  <2> QED BY <2>2, <2>3
<1>4. DOMAIN qs = DOMAIN ps /\ qs = [k \in DOMAIN ps |-> qs[k]]
  BY <1>1
<1>5. qs \in Seq(Placements)
  BY <1>3, <1>4, SameLength
<1>6. Relinked(ps, qs)
  BY <1>3, <1>4 DEF Relinked
<1>7. Links(qs)
  <2>1. \A k \in DOMAIN qs : qs[k].against \in {None} \cup DOMAIN qs
    BY <1>3, <1>4 DEF Links
  <2>2. ASSUME NEW k \in DOMAIN qs, NEW f \in Faces, qs[k].connections[f] # None
        PROVE  qs[k].connections[f] \in DOMAIN qs /\ (f # qs[k].parentFace => qs[qs[k].connections[f]].against = k)
    <3>1. qs[k] = ps[k]
      BY <1>3, <1>4, <2>2
    <3>2. ps[k].connections[f] \in DOMAIN ps /\ (f # ps[k].parentFace => ps[ps[k].connections[f]].against = k)
      BY <1>4, <2>2, <3>1 DEF Links
    <3> QED BY <1>3, <1>4, <3>1, <3>2
  <2> QED BY <2>1, <2>2 DEF Links
<1> QED BY <1>5, <1>6, <1>7 DEF qs

\* What else the links change.
LEMMA RelinkedGhosts ==
    ASSUME NEW ps, NEW qs, Relinked(ps, qs), Links(ps), Ghosts(ps)
    PROVE  Later(ps, qs) /\ Ghosts(qs)
<1>1. Later(ps, qs)
  BY DEF Relinked, Later, Settled
<1>2. Ghosts(qs)
  <2> SUFFICES ASSUME NEW k \in DOMAIN ps, ~qs[k].allowed
               PROVE  \E m \in Foundation(qs, k) : qs[m].rejected
    BY DEF Ghosts, Relinked
  <2>1. Foundation(ps, k) \subseteq Foundation(qs, k)
    BY <1>1, FoundationLater
  <2>2. PICK m \in Foundation(ps, k) : ps[m].rejected
    BY DEF Ghosts, Relinked
  <2>3. m \in DOMAIN ps
    BY DEF Foundation
  <2> QED BY <2>1, <2>2, <2>3 DEF Relinked
<1> QED BY <1>1, <1>2

\* The loop over the first n placements whose time is over.
IsDestroyed(h, ps, order, n) == h = [i \in 0..n |-> IF i = 0 THEN ps ELSE destroy(h[i - 1], order[i])]

\* The loop has a value after every turn.
LEMMA DestroyedExists ==
    ASSUME NEW S, NEW ps \in S, NEW order, NEW n \in Nat, \A k \in 1..n : \A s \in S : destroy(s, order[k]) \in S
    PROVE  \E h : IsDestroyed(h, ps, order, n)
<1> DEFINE turn == [k \in 1..n |-> [s \in S |-> destroy(s, order[k])]]
<1>1. turn \in [1..n -> [S -> S]]
  OBVIOUS
<1>2. PICK g \in [0..n -> S] : g[0] = ps /\ \A k \in 1..n : g[k] = turn[k][g[k - 1]]
  <2> HIDE DEF turn
  <2> QED BY <1>1, Turns
<1>3. \A i \in 0..n : g[i] = IF i = 0 THEN ps ELSE destroy(g[i - 1], order[i])
  <2> TAKE i \in 0..n
  <2>1. CASE i = 0
    BY <1>2, <2>1
  <2>2. CASE i # 0
    <3>1. i \in 1..n /\ i - 1 \in 0..n /\ g[i - 1] \in S
      BY <2>2
    <3>2. g[i] = turn[i][g[i - 1]]
      BY <1>2, <3>1
    <3> QED BY <2>2, <3>1, <3>2
  <2> QED BY <2>1, <2>2
<1>4. g = [i \in 0..n |-> g[i]]
  OBVIOUS
<1> QED BY <1>3, <1>4 DEF IsDestroyed

\* What every destruction keeps holds after the loop.
LEMMA DestroyedStays ==
    ASSUME NEW S, NEW ps \in S, NEW order, NEW n \in Nat, NEW h, IsDestroyed(h, ps, order, n),
           \A k \in 1..n : \A s \in S : destroy(s, order[k]) \in S
    PROVE  h[n] \in S
<1>1. h[0] = ps /\ \A k \in 1..n : h[k] = destroy(h[k - 1], order[k])
  <2>1. h = [i \in 0..n |-> IF i = 0 THEN ps ELSE destroy(h[i - 1], order[i])]
    BY DEF IsDestroyed
  <2>2. 0 \in 0..n /\ \A k \in 1..n : k \in 0..n /\ k # 0
    OBVIOUS
  <2> QED BY <2>1, <2>2
<1>2. \A k \in 1..n : h[k - 1] \in S => h[k] \in S
  BY <1>1
<1>3. \A k \in 0..n : h[k] \in S
  BY <1>1, <1>2, KeptByTurns
<1> QED BY <1>3

\* An order of a finite set.
LEMMA OrderTyped ==
    ASSUME NEW S, IsFiniteSet(S), NEW order \in SetToSeqs(S)
    PROVE  Len(order) \in Nat /\ \A i \in 1..Len(order) : order[i] \in S
<1>1. Cardinality(S) \in Nat
  BY FS_CardinalityType
<1>2. order \in [1..Cardinality(S) -> S]
  BY DEF SetToSeqs
<1>3. order \in Seq(S)
  BY <1>1, <1>2
<1> QED BY <1>3

\* A placement that a position leads to is not at the end of its time.
Alive(ps, pl) ==
    \A p \in DOMAIN pl : pl[p] \in DOMAIN ps /\ ps[pl[p]].remaining >= 1

\* Tick: what is left of the placements, and of those a position leads to.
LEMMA TickKeeps ==
    ASSUME placements \in Seq(Placements), Links(placements), Ghosts(placements), Alive(placements, placed),
           NEW order \in SetToSeqs(Expiring)
    PROVE  LET t == Tick(order)
           IN  /\ t.placements \in Seq(Placements) /\ Links(t.placements) /\ Ghosts(t.placements)
               /\ Later(placements, t.placements) /\ DOMAIN t.placements = DOMAIN placements
               /\ Alive(t.placements, t.placed)
               /\ DOMAIN t.placed \subseteq DOMAIN placed
<1> DEFINE ticked(m) == \E p \in DOMAIN placed : placed[p] = m
           older == [m \in DOMAIN placements |->
                       IF ticked(m) THEN [placements[m] EXCEPT !.remaining = @ - 1] ELSE placements[m]]
           S == {qs \in Seq(Placements) : Links(qs) /\ Relinked(older, qs)}
           n == Len(order)
           h == CHOOSE g : IsDestroyed(g, older, order, n)
           pl == [p \in {q \in DOMAIN placed : older[placed[q]].remaining > 0} |-> placed[p]]
<1>1. Tick(order).placements = h[n] /\ Tick(order).placed = pl
  BY DEF Tick, IsDestroyed
<1>2. \A m \in DOMAIN placements :
        /\ older[m] \in Placements /\ older[m].against = placements[m].against
        /\ older[m].rejected = placements[m].rejected /\ older[m].allowed = placements[m].allowed
        /\ older[m].confirmed = placements[m].confirmed /\ older[m].parentFace = placements[m].parentFace
        /\ older[m].connections = placements[m].connections
  <2> TAKE m \in DOMAIN placements
  <2>1. placements[m] \in Placements /\ placements[m].remaining \in 0..Lifetime
    BY PlacementsTyped
  <2>2. CASE ticked(m)
    <3>1. placements[m].remaining >= 1
      BY <2>2 DEF Alive
    <3> DEFINE r == placements[m].remaining - 1
    <3>2. r \in 0..Lifetime
      BY <2>1, <3>1, WorldAssumption
    <3>3. older[m] = [placements[m] EXCEPT !.remaining = r]
      BY <2>2
    <3> HIDE DEF r, older
    <3> QED BY <2>1, <3>2, <3>3 DEF Placements
  <2>3. CASE ~ticked(m)
    <3>1. older[m] = placements[m]
      BY <2>3
    <3> HIDE DEF older
    <3> QED BY <2>1, <3>1
  <2> QED BY <2>2, <2>3
<1>3. DOMAIN older = DOMAIN placements /\ older = [m \in DOMAIN placements |-> older[m]]
  OBVIOUS
<1>4. DOMAIN pl = {q \in DOMAIN placed : older[placed[q]].remaining > 0} /\ \A p \in DOMAIN pl : pl[p] = placed[p]
  OBVIOUS
<1> HIDE DEF older, pl
<1>5. older \in Seq(Placements)
  BY <1>2, <1>3, SameLength
<1>6. Links(older) /\ Ghosts(older) /\ Later(placements, older)
  <2>1. Links(older)
    BY <1>2, <1>3 DEF Links
  <2>2. Later(placements, older)
    BY <1>2, <1>3 DEF Later, Settled
  <2>3. Ghosts(older)
    <3> SUFFICES ASSUME NEW k \in DOMAIN placements, ~older[k].allowed
                 PROVE  \E m \in Foundation(older, k) : older[m].rejected
      BY <1>3 DEF Ghosts
    <3>1. Foundation(placements, k) \subseteq Foundation(older, k)
      BY <2>2, FoundationLater
    <3>2. PICK m \in Foundation(placements, k) : placements[m].rejected
      BY <1>2 DEF Ghosts
    <3>3. m \in DOMAIN placements
      BY DEF Foundation
    <3> QED BY <1>2, <3>1, <3>2, <3>3
  <2> QED BY <2>1, <2>2, <2>3
<1>7. n \in Nat /\ \A i \in 1..n : order[i] \in DOMAIN placements
  <2>1. Expiring \subseteq DOMAIN placements
    BY DEF Expiring, Alive
  <2>2. IsFiniteSet(DOMAIN placements)
    <3>1. DOMAIN placements = 1..Len(placements) /\ Len(placements) \in Int
      OBVIOUS
    <3> QED BY <3>1, FS_Interval
  <2>3. IsFiniteSet(Expiring)
    BY <2>1, <2>2, FS_Subset
  <2>4. Len(order) \in Nat /\ \A i \in 1..Len(order) : order[i] \in Expiring
    BY <2>3, OrderTyped
  <2> QED BY <2>1, <2>4
<1> HIDE DEF n
<1>8. older \in S
  BY <1>5, <1>6 DEF Relinked
<1>9. \A k \in 1..n : \A s \in S : destroy(s, order[k]) \in S
  <2> TAKE k \in 1..n
  <2> TAKE s \in S
  <2>1. order[k] \in DOMAIN s
    BY <1>3, <1>7 DEF Relinked
  <2>2. destroy(s, order[k]) \in Seq(Placements) /\ Links(destroy(s, order[k])) /\ Relinked(s, destroy(s, order[k]))
    BY <2>1, DestroyKeeps
  <2> QED BY <2>2, RelinkedTwice
<1> HIDE DEF S
<1>10. IsDestroyed(h, older, order, n)
  BY <1>7, <1>8, <1>9, DestroyedExists
<1> HIDE DEF h
<1>11. h[n] \in S
  BY <1>7, <1>8, <1>9, <1>10, DestroyedStays
<1> DEFINE qs == h[n]
<1>12. qs \in Seq(Placements) /\ Links(qs) /\ Relinked(older, qs)
  BY <1>11 DEF S
<1> HIDE DEF qs
<1>13. Later(older, qs) /\ Ghosts(qs)
  BY <1>6, <1>12, RelinkedGhosts
<1>14. Later(placements, qs)
  BY <1>6, <1>13, LaterTwice
<1>15. Alive(qs, pl)
  <2> SUFFICES ASSUME NEW p \in DOMAIN pl PROVE pl[p] \in DOMAIN qs /\ qs[pl[p]].remaining >= 1
    BY DEF Alive
  <2>1. p \in DOMAIN placed /\ older[placed[p]].remaining > 0 /\ pl[p] = placed[p] /\ placed[p] \in DOMAIN placements
    BY <1>4 DEF Alive
  <2>2. older[placed[p]].remaining \in 0..Lifetime
    BY <1>3, <1>5, <2>1, PlacementsTyped
  <2>3. older[placed[p]].remaining >= 1
    BY <2>1, <2>2, WorldAssumption
  <2> QED BY <1>3, <1>12, <2>1, <2>3 DEF Relinked
<1>16. DOMAIN qs = DOMAIN placements
  BY <1>3, <1>12 DEF Relinked
<1>17. Tick(order).placements = qs
  BY <1>1 DEF qs
<1> QED BY <1>1, <1>4, <1>12, <1>13, <1>14, <1>15, <1>16, <1>17

-----------------------------------------------------------------------------
(* placing *)

\* newChainedBlockPlacement: a placement more, linked to the one it was placed against.
LEMMA NewPlacementKeeps ==
    ASSUME NEW ps \in Seq(Placements), Links(ps), Ghosts(ps), NEW face \in Faces, NEW parent \in {None} \cup DOMAIN ps
    PROVE  LET qs == newChainedBlockPlacement(ps, "air", face, parent)
           IN  /\ qs \in Seq(Placements) /\ Links(qs) /\ Ghosts(qs) /\ Later(ps, qs)
               /\ DOMAIN qs = DOMAIN ps \cup {Len(ps) + 1} /\ qs[Len(ps) + 1].remaining >= 1
               /\ \A k \in DOMAIN ps : qs[k].remaining = ps[k].remaining
<1> DEFINE n == Len(ps) + 1
           linked == IF parent = None THEN ps ELSE [ps EXCEPT ![parent].connections[face] = n]
           backFace == IF parent = None THEN None ELSE -face
           new == Placement("air", backFace, parent)
           qs == Append(linked, new)
<1>0. newChainedBlockPlacement(ps, "air", face, parent) = qs
  BY DEF newChainedBlockPlacement
<1>1. n \in Nat /\ n # None /\ n \notin DOMAIN ps /\ DOMAIN ps = 1..Len(ps) /\ Len(ps) \in Nat /\ None \in Nat
  BY DEF None
<1>2. backFace \in Faces \cup {None} /\ backFace # face /\ parent \in Nat
  BY <1>1, FacesTwo
<1>3. \A k \in DOMAIN ps : /\ linked[k] \in Placements
                           /\ linked[k].against = ps[k].against /\ linked[k].rejected = ps[k].rejected
                           /\ linked[k].allowed = ps[k].allowed /\ linked[k].confirmed = ps[k].confirmed
                           /\ linked[k].parentFace = ps[k].parentFace /\ linked[k].remaining = ps[k].remaining
                           /\ \A f \in Faces : \/ linked[k].connections[f] = ps[k].connections[f]
                                               \/ k = parent /\ f = face /\ linked[k].connections[f] = n
  <2> TAKE k \in DOMAIN ps
  <2>1. ps[k] \in Placements /\ ps[k].connections \in [Faces -> Nat]
    BY PlacementsTyped
  <2>2. CASE parent # None /\ k = parent
    <3> DEFINE links == [ps[k].connections EXCEPT ![face] = n]
    <3>1. linked[k] = [ps[k] EXCEPT !.connections = links]
      BY <2>1, <2>2 DEF Placements
    <3>2. links \in [Faces -> Nat] /\ \A f \in Faces : links[f] = ps[k].connections[f] \/ (f = face /\ links[f] = n)
      BY <1>1, <2>1
    <3> HIDE DEF links, linked, n
    <3> QED BY <2>1, <2>2, <3>1, <3>2, ZenonT(40) DEF Placements
  <2>3. CASE ~(parent # None /\ k = parent)
    <3>1. linked[k] = ps[k]
      BY <2>3
    <3> HIDE DEF linked
    <3> QED BY <2>1, <3>1
  <2> QED BY <2>2, <2>3
<1>4. DOMAIN linked = DOMAIN ps /\ linked = [k \in DOMAIN ps |-> linked[k]]
  OBVIOUS
<1> HIDE DEF linked
<1>5. linked \in Seq(Placements) /\ Len(linked) = Len(ps)
  BY <1>3, <1>4, SameLength
<1>6. /\ new \in Placements /\ new.against = parent /\ new.allowed /\ new.remaining >= 1 /\ new.parentFace = backFace
      /\ \A f \in Faces : new.connections[f] = IF f = backFace THEN parent ELSE None
  <2> HIDE DEF backFace
  <2> DEFINE links == [f \in Faces |-> IF f = backFace THEN parent ELSE None]
  <2>1. links \in [Faces -> Nat]
    BY <1>1, <1>2
  <2>2. Lifetime \in 0..Lifetime /\ Lifetime >= 1
    BY WorldAssumption
  <2> QED BY <1>2, <2>1, <2>2 DEF Placement, Placements
<1> HIDE DEF new, backFace
<1>7. qs \in Seq(Placements) /\ DOMAIN qs = 1..n /\ qs[n] = new /\ \A k \in DOMAIN ps : qs[k] = linked[k]
  BY <1>1, <1>5, <1>6
<1>8. DOMAIN qs = DOMAIN ps \cup {n}
  BY <1>1, <1>7
<1> HIDE DEF qs, n
<1>9. Later(ps, qs)
  BY <1>3, <1>7, <1>8 DEF Later, Settled
<1>10. Links(qs)
  <2>1. \A k \in DOMAIN qs : qs[k].against \in {None} \cup DOMAIN qs
    <3> TAKE k \in DOMAIN qs
    <3>1. CASE k = n
      BY <1>6, <1>7, <1>8, <3>1
    <3>2. CASE k # n
      <4>1. k \in DOMAIN ps /\ qs[k].against = ps[k].against
        BY <1>3, <1>7, <1>8, <3>2
      <4> QED BY <1>8, <4>1 DEF Links
    <3> QED BY <3>1, <3>2
  <2>2. ASSUME NEW k \in DOMAIN qs, NEW f \in Faces, qs[k].connections[f] # None
        PROVE  qs[k].connections[f] \in DOMAIN qs /\ (f # qs[k].parentFace => qs[qs[k].connections[f]].against = k)
    <3>1. CASE k = n
      <4>1. f = backFace /\ qs[k].connections[f] = parent /\ parent \in DOMAIN ps /\ qs[k].parentFace = backFace
        BY <1>6, <1>7, <2>2, <3>1
      <4> QED BY <1>8, <4>1
    <3>2. CASE k # n /\ qs[k].connections[f] = ps[k].connections[f]
      <4>1. k \in DOMAIN ps /\ qs[k] = linked[k] /\ qs[k].parentFace = ps[k].parentFace
        BY <1>3, <1>7, <1>8, <3>2
      <4>2. ps[k].connections[f] \in DOMAIN ps /\ (f # ps[k].parentFace => ps[ps[k].connections[f]].against = k)
        BY <2>2, <3>2, <4>1 DEF Links
      <4> DEFINE c == qs[k].connections[f]
      <4>3. c \in DOMAIN ps /\ (f # qs[k].parentFace => ps[c].against = k)
        BY <3>2, <4>1, <4>2
      <4>4. \A j \in DOMAIN ps : j \in DOMAIN qs /\ qs[j].against = ps[j].against
        BY <1>3, <1>7, <1>8
      <4> HIDE DEF c
      <4>5. c \in DOMAIN qs /\ (f # qs[k].parentFace => qs[c].against = k)
        BY <4>3, <4>4
      <4> QED BY <4>5 DEF c
    <3>3. CASE k # n /\ k = parent /\ qs[k].connections[f] = n
      BY <1>6, <1>7, <1>8, <3>3
    <3>4. ASSUME k # n
          PROVE  \/ qs[k].connections[f] = ps[k].connections[f]
                 \/ k = parent /\ qs[k].connections[f] = n
      <4>1. k \in DOMAIN ps
        BY <1>8, <3>4
      <4>2. qs[k] = linked[k]
        BY <1>7, <4>1
      <4>3. \/ linked[k].connections[f] = ps[k].connections[f]
            \/ k = parent /\ linked[k].connections[f] = n
        BY <1>3, <4>1
      <4> QED BY <4>2, <4>3
    <3> QED BY <3>1, <3>2, <3>3, <3>4
  <2> QED BY <2>1, <2>2 DEF Links
<1>11. Ghosts(qs)
  <2> SUFFICES ASSUME NEW k \in DOMAIN qs, ~qs[k].allowed
               PROVE  \E m \in Foundation(qs, k) : qs[m].rejected
    BY DEF Ghosts
  <2>0. k \in DOMAIN ps /\ ~ps[k].allowed
    BY <1>3, <1>6, <1>7, <1>8
  <2>1. Foundation(ps, k) \subseteq Foundation(qs, k)
    BY <1>9, <2>0, FoundationLater
  <2>2. PICK m \in Foundation(ps, k) : ps[m].rejected
    BY <2>0 DEF Ghosts
  <2>3. m \in DOMAIN ps
    BY DEF Foundation
  <2> QED BY <1>3, <1>7, <2>1, <2>2, <2>3
<1> QED BY <1>0, <1>3, <1>6, <1>7, <1>8, <1>9, <1>10, <1>11 DEF n

-----------------------------------------------------------------------------
(* pending updates *)

World == [Positions -> Blocks]

\* The fields of an update.
LEMMA UpdateIs ==
    ASSUME NEW us \in Maps(Update), NEW p \in DOMAIN us
    PROVE  p \in Positions /\ us[p] \in Update /\ us[p].rid \in Blocks /\ us[p].from \in 0..MaxTransfers
<1>1. p \in Positions /\ us[p] \in Update
  BY MapIs
<1> QED BY <1>1 DEF Update

\* World.Block returns a block.
LEMMA BlockTyped ==
    ASSUME blockUpdates \in Maps(Blocks), chunk \in World \cup {Unloaded}, NEW pos \in Positions
    PROVE  Block(pos) \in Blocks
<1>1. \A p \in DOMAIN blockUpdates : blockUpdates[p] \in Blocks
  BY MapIs
<1>2. "air" \in Blocks
  BY DEF Blocks
<1> QED BY <1>1, <1>2 DEF Block, World

\* World.SetBlock sets blocks.
LEMMA SetBlocksTyped ==
    ASSUME NEW set \in Maps(Blocks), NEW us \in Maps(Update)
    PROVE  SetBlocks(set, us) \in Maps(Blocks)
<1> DEFINE rids == [p \in DOMAIN us |-> us[p].rid]
<1>1. DOMAIN us \in SUBSET Positions
  BY MapIs
<1>2. rids \in [DOMAIN us -> Blocks]
  BY UpdateIs
<1>3. rids \in Maps(Blocks)
  BY <1>1, <1>2 DEF Maps
<1> HIDE DEF rids
<1>4. Over(rids, set) \in Maps(Blocks)
  BY <1>3, MergedMaps
<1> QED BY <1>4 DEF SetBlocks, rids

\* RemovePendingUpdate only takes away, and takes away what it is given.
LEMMA RemoveKeeps ==
    ASSUME NEW pend \in Maps(Update), NEW us
    PROVE  LET left == RemovePendingUpdates(pend, us)
           IN  /\ left \in Maps(Update) /\ DOMAIN left \subseteq DOMAIN pend
               /\ \A p \in DOMAIN left : left[p] = pend[p] /\ (p \in DOMAIN us => pend[p].rid # us[p].rid)
<1> DEFINE gone == {p \in DOMAIN pend \cap DOMAIN us : pend[p].rid = us[p].rid}
           D == DOMAIN pend \ gone
<1>1. RemovePendingUpdates(pend, us) = [p \in D |-> pend[p]]
  BY DEF RemovePendingUpdates
<1>2. D \in SUBSET DOMAIN pend
  OBVIOUS
<1>3. [p \in D |-> pend[p]] \in Maps(Update)
  <2> HIDE DEF D
  <2> QED BY <1>2, CutMap
<1> QED BY <1>1, <1>2, <1>3

\* A set of numbers has a last one.
LEMMA LastOne ==
    ASSUME NEW n \in Nat, NEW T \in SUBSET (1..n), T # {}
    PROVE  \E i \in T : \A j \in T : j <= i
<1> DEFINE R == {n - i : i \in T}
<1>1. R \in SUBSET Nat /\ R # {}
  <2>1. \A i \in 1..n : n - i \in Nat
    OBVIOUS
  <2>2. \A i \in T : i \in 1..n
    OBVIOUS
  <2>3. \A m \in R : m \in Nat
    BY <2>1, <2>2
  <2>4. PICK i \in T : TRUE
    OBVIOUS
  <2>5. n - i \in R
    OBVIOUS
  <2> HIDE DEF R
  <2> QED BY <2>3, <2>5
<1>2. PICK r \in R : \A m \in R : r <= m
  BY <1>1, LeastNatural
<1>3. PICK i \in T : r = n - i
  BY <1>2
<1>4. \A j \in T : r <= n - j
  BY <1>2
<1>5. \A j \in T : j <= i
  <2> TAKE j \in T
  <2>1. j \in Int /\ i \in Int /\ n - i <= n - j
    BY <1>3, <1>4
  <2> QED BY <2>1
<1> QED BY <1>5

\* An acknowledgement that would bring the update u for p.
Brings(ack, p, u) == ack.valid /\ p \in DOMAIN ack.blocks /\ ack.blocks[p].rid = u.rid

\* Acknowledgements that run leave nothing pending that they bring.
LEMMA RunAllKeeps ==
    ASSUME NEW n \in Nat, NEW as, DOMAIN as = 1..n, \A i \in 1..n : as[i].blocks \in Maps(Update),
           blockUpdates \in Maps(Blocks), pending \in Maps(Update)
    PROVE  LET r == RunAll(as)
           IN  /\ r.set \in Maps(Blocks) /\ r.pending \in Maps(Update) /\ DOMAIN r.pending \subseteq DOMAIN pending
               /\ \A p \in DOMAIN r.pending : /\ r.pending[p] = pending[p]
                                              /\ \A i \in 1..n : ~Brings(as[i], p, pending[p])
<1> DEFINE of(p) == {i \in DOMAIN as : as[i].valid /\ p \in DOMAIN as[i].blocks}
           lastof(p) == CHOOSE i \in of(p) : \A j \in of(p) : j <= i
           last(p) == as[lastof(p)].blocks[p]
           D == {q \in Positions : of(q) # {}}
           us == [p \in D |-> last(p)]
           found == {p \in DOMAIN pending : \E i \in of(p) : as[i].blocks[p].rid = pending[p].rid}
           taken == [p \in found |-> pending[p]]
<1>1. RunAll(as).set = SetBlocks(blockUpdates, us) /\ RunAll(as).pending = RemovePendingUpdates(pending, taken)
  BY DEF RunAll
<1>2. us \in Maps(Update)
  <2>1. ASSUME NEW p \in D PROVE last(p) \in Update
    <3>1. of(p) \in SUBSET (1..n) /\ of(p) # {}
      OBVIOUS
    <3>2. \E i \in of(p) : \A j \in of(p) : j <= i
      <4> HIDE DEF of
      <4> QED BY <3>1, LastOne
    <3>3. lastof(p) \in of(p)
      <4> HIDE DEF of
      <4> QED BY <3>2
    <3>4. lastof(p) \in 1..n /\ p \in DOMAIN as[lastof(p)].blocks
      <4> HIDE DEF lastof
      <4> QED BY <3>3
    <3>5. as[lastof(p)].blocks \in Maps(Update)
      <4> HIDE DEF lastof
      <4> QED BY <3>4
    <3> HIDE DEF lastof
    <3> QED BY <3>4, <3>5, UpdateIs
  <2>2. D \in SUBSET Positions
    OBVIOUS
  <2> HIDE DEF D, last
  <2>3. us \in [D -> Update]
    BY <2>1
  <2> QED BY <2>2, <2>3 DEF Maps
<1>3. SetBlocks(blockUpdates, us) \in Maps(Blocks)
  <2> HIDE DEF us
  <2> QED BY <1>2, SetBlocksTyped
<1>4. /\ RemovePendingUpdates(pending, taken) \in Maps(Update)
      /\ DOMAIN RemovePendingUpdates(pending, taken) \subseteq DOMAIN pending
      /\ \A p \in DOMAIN RemovePendingUpdates(pending, taken) :
           RemovePendingUpdates(pending, taken)[p] = pending[p] /\ (p \in DOMAIN taken => pending[p].rid # taken[p].rid)
  <2> HIDE DEF taken
  <2> QED BY RemoveKeeps
<1> DEFINE left == RemovePendingUpdates(pending, taken)
<1>5. ASSUME NEW p \in DOMAIN left PROVE \A i \in 1..n : ~Brings(as[i], p, pending[p])
  <2>1. p \in DOMAIN pending /\ p \notin found
    <3>1. DOMAIN taken = found /\ \A q \in found : taken[q] = pending[q]
      OBVIOUS
    <3> QED BY <1>4, <1>5, <3>1
  <2> QED BY <2>1 DEF Brings
<1> HIDE DEF us, taken
<1> QED BY <1>1, <1>3, <1>4, <1>5

-----------------------------------------------------------------------------
(* the inductive invariant *)

Packet == [type : {"update"}, blocks : Maps(Blocks)] \cup [type : {"chunk"}, blocks : World]
             \cup [type : {"reset"}, blocks : {Empty}]
Bundle == [packets : Seq(Packet), id : Nat]
Click == {c \in [type : {"click"}, pos : Positions, face : Faces] : Side(c.pos, c.face) \in Positions}
Answer == [type : {"ack"}, id : Nat]
Ack == [id : Nat, blocks : Maps(Update), expiresIn : Int, valid : BOOLEAN]

Typed ==
    /\ opts \in Opts
    /\ chunk \in World \cup {Unloaded} /\ client \in World \cup {Unloaded} /\ server \in World
    /\ blockUpdates \in Maps(Blocks)
    /\ outbox \in Seq(Packet) /\ down \in Seq(Bundle) /\ up \in Seq(Click \cup Answer)
    /\ batch \in Maps(Update) /\ pending \in Maps(Update)
    /\ acks \in Seq(Ack) /\ \A i \in DOMAIN acks : acks[i].id \in 1..ticks
    /\ ticks \in Nat /\ backend \in 0..MaxTransfers
    /\ \A p \in DOMAIN pending : pending[p].from <= backend

Covered ==
    \A p \in DOMAIN pending :
        pending[p].from = backend =>
            \/ p \in DOMAIN batch /\ batch[p].rid = pending[p].rid
            \/ \E i \in DOMAIN acks : Brings(acks[i], p, pending[p])

Chained ==
    /\ placements \in Seq(Placements) /\ Links(placements) /\ Ghosts(placements)
    /\ Alive(placements, placed) /\ DOMAIN placed \subseteq Positions

RefusedForCause ==
    refused # None => /\ refused \in DOMAIN placements
                      /\ \E n \in Foundation(placements, refused) : placements[n].rejected

IInv == Typed /\ Covered /\ Chained /\ RefusedForCause

-----------------------------------------------------------------------------
\* The invariant holds when the player joins.
LEMMA Start == Init => IInv
<1> SUFFICES ASSUME Init PROVE IInv
  OBVIOUS
<1>1. Empty \in Maps(Blocks) /\ Empty \in Maps(Update) /\ DOMAIN Empty = {}
  BY EmptyMap
<1>2. Ground \in World
  BY DEF Ground, World, Blocks
<1>3. Typed
  <2>1. acks = <<>> /\ DOMAIN acks = {} /\ outbox = <<>> /\ down = <<>> /\ up = <<>>
    BY DEF Init
  <2>2. 0 \in 0..MaxTransfers
    BY WorldAssumption
  <2>3. acks \in Seq(Ack) /\ outbox \in Seq(Packet) /\ down \in Seq(Bundle) /\ up \in Seq(Click \cup Answer)
    BY <2>1
  <2>4. opts \in Opts
    BY WorldAssumption DEF Init
  <2> QED BY <1>1, <1>2, <2>1, <2>2, <2>3, <2>4 DEF Init, Typed
<1>4. Covered
  BY <1>1 DEF Init, Covered
<1>5. Chained
  <2>1. placements = <<>> /\ DOMAIN placements = {} /\ placed = Empty
    BY DEF Init
  <2>2. placements \in Seq(Placements)
    BY <2>1
  <2> QED BY <1>1, <2>1, <2>2 DEF Chained, Links, Ghosts, Alive
<1> QED BY <1>3, <1>4, <1>5 DEF IInv, Init, RefusedForCause

\* Placements that have not changed.
LEMMA LaterSelf == ASSUME NEW ps, NEW qs, qs = ps PROVE Later(ps, qs)
BY DEF Later

\* What was refused for cause stays so.
LEMMA CauseStays ==
    ASSUME Chained, RefusedForCause, Later(placements, placements'), refused' = refused
    PROVE  RefusedForCause'
<1> SUFFICES ASSUME refused # None
             PROVE  refused \in DOMAIN placements' /\ \E n \in Foundation(placements', refused) : placements'[n].rejected
  BY DEF RefusedForCause
<1>1. PICK n \in Foundation(placements, refused) : placements[n].rejected
  BY DEF RefusedForCause
<1>2. refused \in DOMAIN placements /\ n \in DOMAIN placements
  BY <1>1 DEF RefusedForCause, Foundation
<1>3. Foundation(placements, refused) \subseteq Foundation(placements', refused)
  BY <1>2, FoundationLater DEF Chained
<1> QED BY <1>1, <1>2, <1>3 DEF Later

\* The chains when no step is taken with them.
LEMMA ChainsStay ==
    ASSUME Chained, RefusedForCause, UNCHANGED <<placements, placed, refused>>
    PROVE  Chained' /\ RefusedForCause' /\ Later(placements, placements')
<1>1. Later(placements, placements')
  BY LaterSelf
<1>2. Chained'
  BY DEF Chained
<1> QED BY <1>1, <1>2, CauseStays

\* The packets written to the client.
LEMMA SentTyped ==
    ASSUME outbox \in Seq(Packet), NEW us \in Maps(Blocks)
    PROVE  Sent(us) \in Seq(Packet)
<1>1. [type |-> "update", blocks |-> us] \in Packet
  BY DEF Packet
<1>2. Append(outbox, [type |-> "update", blocks |-> us]) \in Seq(Packet)
  BY <1>1
<1> QED BY <1>2 DEF Sent

\* What becomes pending is in the batch.
LEMMA AddKeeps ==
    ASSUME Typed, Covered, NEW us \in Maps(Blocks), AddPendingUpdates(us), UNCHANGED <<acks, backend>>
    PROVE  /\ batch' \in Maps(Update) /\ pending' \in Maps(Update) /\ Covered'
           /\ \A p \in DOMAIN pending' : pending'[p].from <= backend'
<1> DEFINE tagged == [p \in DOMAIN us |-> [rid |-> us[p], from |-> backend]]
<1>1. batch' = Over(tagged, batch) /\ pending' = Over(tagged, pending)
  BY DEF AddPendingUpdates
<1>2. DOMAIN tagged = DOMAIN us /\ \A p \in DOMAIN us : tagged[p].from = backend /\ tagged[p] \in Update
  <2>1. \A p \in DOMAIN us : us[p] \in Blocks
    BY MapIs
  <2> QED BY <2>1 DEF Update, Typed
<1>3. tagged \in Maps(Update)
  <2>1. DOMAIN us \in SUBSET Positions
    BY MapIs
  <2>2. tagged \in [DOMAIN us -> Update]
    BY <1>2
  <2> QED BY <2>1, <2>2 DEF Maps
<1> HIDE DEF tagged
<1>4. batch' \in Maps(Update) /\ pending' \in Maps(Update)
  BY <1>1, <1>3, MergedMaps DEF Typed
<1>5. /\ DOMAIN batch' = DOMAIN tagged \cup DOMAIN batch /\ DOMAIN pending' = DOMAIN tagged \cup DOMAIN pending
      /\ \A p \in DOMAIN tagged : batch'[p] = tagged[p] /\ pending'[p] = tagged[p]
      /\ \A p \in DOMAIN batch \ DOMAIN tagged : batch'[p] = batch[p]
      /\ \A p \in DOMAIN pending \ DOMAIN tagged : pending'[p] = pending[p]
  BY <1>1 DEF Over
<1>6. \A p \in DOMAIN pending' : pending'[p].from <= backend'
  <2> TAKE p \in DOMAIN pending'
  <2>1. CASE p \in DOMAIN tagged
    <3>1. pending'[p].from = backend /\ backend \in Int
      BY <1>2, <1>5, <2>1, WorldAssumption DEF Typed
    <3> QED BY <3>1
  <2>2. CASE p \notin DOMAIN tagged
    BY <1>5, <2>2 DEF Typed
  <2> QED BY <2>1, <2>2
<1>7. Covered'
  <2> SUFFICES ASSUME NEW p \in DOMAIN pending', pending'[p].from = backend
               PROVE  \/ p \in DOMAIN batch' /\ batch'[p].rid = pending'[p].rid
                      \/ \E i \in DOMAIN acks : Brings(acks[i], p, pending'[p])
    BY DEF Covered, Brings
  <2>1. CASE p \in DOMAIN tagged
    BY <1>5, <2>1
  <2>2. CASE p \notin DOMAIN tagged
    <3>1. p \in DOMAIN pending /\ pending'[p] = pending[p]
      BY <1>5, <2>2
    <3>2. \/ p \in DOMAIN batch /\ batch[p].rid = pending[p].rid
          \/ \E i \in DOMAIN acks : Brings(acks[i], p, pending[p])
      BY <3>1 DEF Covered
    <3> QED BY <1>5, <2>2, <3>1, <3>2
  <2> QED BY <2>1, <2>2
<1> QED BY <1>4, <1>6, <1>7

-----------------------------------------------------------------------------
(* the packets of the server *)

\* HandleUpdateBlock, HandleUpdateSubChunkBlocks.
LEMMA HandleBlockUpdatesKeeps ==
    ASSUME IInv, NEW D \in SUBSET Positions, NEW rid \in Blocks, HandleBlockUpdates([p \in D |-> rid])
    PROVE  IInv' /\ Later(placements, placements')
<1> DEFINE us == [p \in D |-> rid]
<1>0. Typed /\ Covered /\ Chained /\ RefusedForCause
  BY DEF IInv
<1>1. us \in Maps(Blocks) /\ DOMAIN us = D /\ \A p \in D : us[p] = rid
  <2>1. us \in [D -> Blocks]
    OBVIOUS
  <2> QED BY <2>1 DEF Maps
<1>2. /\ server' = Over(us, server) /\ AddPendingUpdates(us) /\ outbox' = Sent(us)
      /\ UNCHANGED <<opts, worldVars, client, down, up, acks, placements, placed, ticks, backend, refused>>
  BY DEF HandleBlockUpdates
<1> HIDE DEF us
<1>3. /\ batch' \in Maps(Update) /\ pending' \in Maps(Update) /\ Covered'
      /\ \A p \in DOMAIN pending' : pending'[p].from <= backend'
  BY <1>0, <1>1, <1>2, AddKeeps
<1>4. outbox' \in Seq(Packet)
  BY <1>0, <1>1, <1>2, SentTyped DEF Typed
<1>5. server' \in World
  BY <1>0, <1>1, <1>2 DEF Typed, World, Over
<1>6. Typed'
  BY <1>0, <1>2, <1>3, <1>4, <1>5 DEF Typed, worldVars
<1>7. Chained' /\ RefusedForCause' /\ Later(placements, placements')
  BY <1>0, <1>2, ChainsStay
<1> QED BY <1>3, <1>6, <1>7 DEF IInv

\* HandleLevelChunk.
LEMMA HandleLevelChunkKeeps ==
    ASSUME IInv, HandleLevelChunk
    PROVE  IInv' /\ Later(placements, placements')
<1>0. Typed /\ Covered /\ Chained /\ RefusedForCause
  BY DEF IInv
<1>1. /\ chunk' = server /\ blockUpdates' \in {blockUpdates, Empty}
      /\ outbox' = Append(outbox, [type |-> "chunk", blocks |-> server])
      /\ UNCHANGED <<opts, client, server, down, up, copyVars, ticks, backend, refused>>
  BY DEF HandleLevelChunk
<1>2. blockUpdates' \in Maps(Blocks)
  BY <1>0, <1>1, EmptyMap DEF Typed
<1>3. outbox' \in Seq(Packet)
  <2>1. [type |-> "chunk", blocks |-> server] \in Packet
    BY <1>0 DEF Packet, Typed
  <2> QED BY <1>0, <1>1, <2>1 DEF Typed
<1>4. Typed'
  BY <1>0, <1>1, <1>2, <1>3 DEF Typed, copyVars
<1>5. Covered'
  BY <1>0, <1>1 DEF Covered, Brings, copyVars
<1>6. Chained' /\ RefusedForCause' /\ Later(placements, placements')
  BY <1>0, <1>1, ChainsStay DEF copyVars
<1> QED BY <1>4, <1>5, <1>6 DEF IInv

\* TransferServerConn: what was pending belongs to an earlier backend from now on.
LEMMA TransferServerConnKeeps ==
    ASSUME IInv, TransferServerConn
    PROVE  IInv' /\ Later(placements, placements')
<1>0. Typed /\ Covered /\ Chained /\ RefusedForCause
  BY DEF IInv
<1>1. /\ backend < MaxTransfers /\ backend' = backend + 1
      /\ chunk' = Unloaded /\ server' = Ground /\ blockUpdates' \in {blockUpdates, Empty}
      /\ outbox' = Append(outbox, [type |-> "reset", blocks |-> Empty]) /\ acks' = <<>>
      /\ UNCHANGED <<opts, client, down, up, batch, pending, placements, placed, ticks, refused>>
  BY DEF TransferServerConn
<1>2. blockUpdates' \in Maps(Blocks) /\ server' \in World
  BY <1>0, <1>1, EmptyMap DEF Typed, Ground, World, Blocks
<1>3. outbox' \in Seq(Packet)
  <2>1. [type |-> "reset", blocks |-> Empty] \in Packet
    BY DEF Packet
  <2> QED BY <1>0, <1>1, <2>1 DEF Typed
<1>4. backend' \in 0..MaxTransfers /\ backend \in Int
  BY <1>0, <1>1, WorldAssumption DEF Typed
<1>5. \A p \in DOMAIN pending : pending[p].from \in Int /\ pending[p].from <= backend
  <2> TAKE p \in DOMAIN pending
  <2>1. pending[p].from \in 0..MaxTransfers
    BY <1>0, UpdateIs DEF Typed
  <2> QED BY <1>0, <2>1, WorldAssumption DEF Typed
<1>6. \A p \in DOMAIN pending : pending[p].from <= backend' /\ pending[p].from # backend'
  BY <1>1, <1>4, <1>5
<1>7. acks' \in Seq(Ack) /\ DOMAIN acks' = {}
  BY <1>1
<1>8. Typed'
  BY <1>0, <1>1, <1>2, <1>3, <1>4, <1>6, <1>7 DEF Typed
<1>9. Covered'
  BY <1>1, <1>6 DEF Covered
<1>10. Chained' /\ RefusedForCause' /\ Later(placements, placements')
  BY <1>0, <1>1, ChainsStay
<1> QED BY <1>8, <1>9, <1>10 DEF IInv

-----------------------------------------------------------------------------
(* the acknowledgements *)

\* Execute: what is pending and not brought by the batches that run is brought by a later one.
LEMMA ExecuteACKKeeps ==
    ASSUME IInv, ExecuteACK
    PROVE  IInv' /\ Later(placements, placements')
<1>0. Typed /\ Covered /\ Chained /\ RefusedForCause
  BY DEF IInv
<1>1. /\ up # <<>> /\ up' = Tail(up)
      /\ UNCHANGED <<opts, chunk, client, server, outbox, down, batch, placements, placed, ticks, backend, refused>>
  BY DEF ExecuteACK
<1>2. up' \in Seq(Click \cup Answer)
  BY <1>0, <1>1 DEF Typed
<1>3. Chained' /\ RefusedForCause' /\ Later(placements, placements')
  BY <1>0, <1>1, ChainsStay
<1>4. CASE UNCHANGED <<blockUpdates, pending, acks>>
  <2>1. Typed'
    BY <1>0, <1>1, <1>2, <1>4 DEF Typed
  <2>2. Covered'
    BY <1>0, <1>1, <1>4 DEF Covered, Brings
  <2> QED BY <1>3, <2>1, <2>2 DEF IInv
<1>5. ASSUME NEW n \in DOMAIN acks, blockUpdates' = RunAll(Executed(n)).set, pending' = RunAll(Executed(n)).pending,
             acks' = SubSeq(acks, n + 1, Len(acks))
      PROVE  IInv'
  <2> DEFINE as == Executed(n)
             m == Len(acks)
  <2>1. m \in Nat /\ DOMAIN acks = 1..m /\ n \in 1..m /\ \A i \in 1..m : acks[i] \in Ack
    BY <1>0 DEF Typed
  <2>2. n \in Nat /\ DOMAIN as = 1..n /\ \A i \in 1..n : as[i] = acks[i] /\ i \in 1..m
    <3>1. as = [i \in 1..n |-> acks[i]]
      BY <1>0, <2>1 DEF Executed, Typed
    <3> QED BY <2>1, <3>1
  <2>3. acks' \in Seq(Ack) /\ DOMAIN acks' = 1..(m - n) /\ \A i \in 1..(m - n) : acks'[i] = acks[i + n] /\ i + n \in 1..m
    <3>1. n + 1 \in 1..(m + 1) /\ m - n \in Nat
      BY <2>1
    <3>2. \A i \in 1..(m - n) : i + n \in 1..m /\ i + (n + 1) - 1 = i + n
      BY <2>1
    <3>3. acks' = [i \in 1..(m - n) |-> acks[i + n]]
      BY <1>0, <1>5, <2>1 DEF Typed
    <3>4. acks' \in [1..(m - n) -> Ack]
      BY <2>1, <3>2, <3>3
    <3>5. DOMAIN acks' = 1..(m - n) /\ \A i \in 1..(m - n) : acks'[i] = acks[i + n]
      BY <3>3
    <3>6. acks' \in Seq(Ack)
      <4> DEFINE k == m - n
      <4>1. k \in Nat /\ acks' \in [1..k -> Ack]
        BY <3>1, <3>4
      <4> HIDE DEF k
      <4> QED BY <4>1
    <3> QED BY <3>2, <3>5, <3>6
  <2> HIDE DEF as, m
  <2>4. \A i \in 1..n : as[i].blocks \in Maps(Update)
    BY <2>1, <2>2 DEF Ack
  <2>5. /\ blockUpdates' \in Maps(Blocks) /\ pending' \in Maps(Update) /\ DOMAIN pending' \subseteq DOMAIN pending
        /\ \A p \in DOMAIN pending' : /\ pending'[p] = pending[p]
                                      /\ \A i \in 1..n : ~Brings(as[i], p, pending[p])
    <3>1. blockUpdates' = RunAll(as).set /\ pending' = RunAll(as).pending
      BY <1>5 DEF as
    <3> QED BY <1>0, <2>2, <2>4, <3>1, RunAllKeeps, ZenonT(40) DEF Typed
  <2>6. Typed'
    <3>1. \A i \in DOMAIN acks' : acks'[i].id \in 1..ticks'
      BY <1>0, <1>1, <2>1, <2>3 DEF Typed
    <3>2. \A p \in DOMAIN pending' : pending'[p].from <= backend'
      BY <1>0, <1>1, <2>5 DEF Typed
    <3> QED BY <1>0, <1>1, <1>2, <2>3, <2>5, <3>1, <3>2 DEF Typed
  <2>7. Covered'
    <3> SUFFICES ASSUME NEW p \in DOMAIN pending', pending'[p].from = backend
                 PROVE  \/ p \in DOMAIN batch' /\ batch'[p].rid = pending'[p].rid
                        \/ \E i \in DOMAIN acks' : Brings(acks'[i], p, pending'[p])
      BY <1>1 DEF Covered, Brings
    <3>1. p \in DOMAIN pending /\ pending'[p] = pending[p]
      BY <2>5
    <3>2. CASE p \in DOMAIN batch /\ batch[p].rid = pending[p].rid
      BY <1>1, <3>1, <3>2
    <3>3. ASSUME NEW i \in DOMAIN acks, Brings(acks[i], p, pending[p])
          PROVE  \E j \in DOMAIN acks' : Brings(acks'[j], p, pending'[p])
      <4>1. i \notin 1..n
        BY <2>2, <2>5, <3>3
      <4>2. i - n \in 1..(m - n) /\ (i - n) + n = i
        BY <2>1, <2>2, <4>1
      <4>3. acks'[i - n] = acks[i]
        BY <2>3, <4>2
      <4> QED BY <2>3, <3>1, <3>3, <4>2, <4>3
    <3> QED BY <1>0, <3>1, <3>2, <3>3 DEF Covered
  <2> QED BY <1>3, <2>6, <2>7 DEF IInv
<1> QED BY <1>3, <1>4, <1>5 DEF ExecuteACK

\* The acknowledgement of a batch.
LEMMA BatchTyped ==
    ASSUME Typed, NEW id \in Nat, NEW blocks \in Maps(Update)
    PROVE  /\ Batch(id, blocks) \in Ack /\ Batch(id, blocks).id = id
           /\ blocks # Empty => Batch(id, blocks).valid /\ Batch(id, blocks).blocks = blocks
           /\ blocks = Empty => ~Batch(id, blocks).valid /\ Batch(id, blocks).blocks = Empty
<1>1. opts.delay \in Int
  BY DEF Typed, Opts
<1>2. Empty \in Maps(Update)
  BY EmptyMap
<1> QED BY <1>1, <1>2 DEF Batch, Ack

\* Tick of the acknowledgements: a batch that has waited too long is run where it stands.
LEMMA ClientTickKeeps ==
    ASSUME IInv, ClientTick
    PROVE  IInv' /\ Later(placements, placements')
<1>0. Typed /\ Covered /\ Chained /\ RefusedForCause
  BY DEF IInv
<1> DEFINE older == [i \in DOMAIN acks |-> IF acks[i].valid THEN [acks[i] EXCEPT !.expiresIn = @ - 1]
                                          ELSE acks[i]]
           due(i) == older[i].valid /\ older[i].expiresIn <= 0
           done(i) == Batch(acks[i].id, Empty)
           as == [i \in DOMAIN acks |-> IF due(i) THEN older[i] ELSE done(i)]
           m == Len(acks)
<1>1. /\ acks' = [i \in DOMAIN acks |-> IF due(i) THEN done(i) ELSE older[i]]
      /\ blockUpdates' = RunAll(as).set /\ pending' = RunAll(as).pending
      /\ UNCHANGED <<opts, chunk, client, server, outbox, down, up, batch, placements, placed, ticks, backend, refused>>
  BY DEF ClientTick
<1>2. m \in Nat /\ DOMAIN acks = 1..m /\ \A i \in 1..m : acks[i] \in Ack /\ acks[i].id \in Nat
  <2>1. m \in Nat /\ DOMAIN acks = 1..m /\ \A i \in 1..m : acks[i] \in Ack
    BY <1>0 DEF Typed
  <2> HIDE DEF m, older, as
  <2> QED BY <2>1 DEF Ack
<1> HIDE DEF m
<1>3. \A i \in 1..m : /\ older[i] \in Ack /\ older[i].id = acks[i].id /\ older[i].valid = acks[i].valid
                      /\ older[i].blocks = acks[i].blocks
  <2> TAKE i \in 1..m
  <2>1. acks[i] \in Ack
    BY <1>2
  <2>2. CASE acks[i].valid
    <3> DEFINE e == acks[i].expiresIn - 1
    <3>1. older[i] = [acks[i] EXCEPT !.expiresIn = e] /\ e \in Int
      BY <1>2, <2>1, <2>2 DEF Ack
    <3> HIDE DEF older, e
    <3> QED BY <2>1, <3>1 DEF Ack
  <2>3. CASE ~acks[i].valid
    BY <1>2, <2>1, <2>3
  <2> QED BY <2>2, <2>3
<1> HIDE DEF older
<1>4. \A i \in 1..m : done(i) \in Ack /\ done(i).id = acks[i].id /\ ~done(i).valid /\ done(i).blocks = Empty
  BY <1>0, <1>2, EmptyMap, BatchTyped
<1> HIDE DEF done, due
<1>5. DOMAIN as = 1..m /\ \A i \in 1..m : as[i] = IF due(i) THEN older[i] ELSE done(i)
  BY <1>2
<1>6. DOMAIN acks' = 1..m /\ \A i \in 1..m : acks'[i] = IF due(i) THEN done(i) ELSE older[i]
  BY <1>1, <1>2
<1> HIDE DEF as
<1>7. acks' \in Seq(Ack)
  <2>1. acks' \in [1..m -> Ack]
    BY <1>1, <1>2, <1>3, <1>4
  <2> QED BY <1>2, <2>1
<1>8. \A i \in 1..m : as[i].blocks \in Maps(Update)
  BY <1>3, <1>4, <1>5 DEF Ack
<1>9. /\ blockUpdates' \in Maps(Blocks) /\ pending' \in Maps(Update) /\ DOMAIN pending' \subseteq DOMAIN pending
      /\ \A p \in DOMAIN pending' : /\ pending'[p] = pending[p]
                                    /\ \A i \in 1..m : ~Brings(as[i], p, pending[p])
  BY <1>0, <1>1, <1>2, <1>5, <1>8, RunAllKeeps DEF Typed
<1>10. Typed'
  <2>1. \A i \in DOMAIN acks' : acks'[i].id \in 1..ticks'
    BY <1>0, <1>1, <1>2, <1>3, <1>4, <1>6 DEF Typed
  <2>2. \A p \in DOMAIN pending' : pending'[p].from <= backend'
    BY <1>0, <1>1, <1>9 DEF Typed
  <2> QED BY <1>0, <1>1, <1>7, <1>9, <2>1, <2>2 DEF Typed
<1>11. Covered'
  <2> SUFFICES ASSUME NEW p \in DOMAIN pending', pending'[p].from = backend
               PROVE  \/ p \in DOMAIN batch' /\ batch'[p].rid = pending'[p].rid
                      \/ \E i \in DOMAIN acks' : Brings(acks'[i], p, pending'[p])
    BY <1>1 DEF Covered, Brings
  <2>1. p \in DOMAIN pending /\ pending'[p] = pending[p]
    BY <1>9
  <2>2. CASE p \in DOMAIN batch /\ batch[p].rid = pending[p].rid
    BY <1>1, <2>1, <2>2
  <2>3. ASSUME NEW i \in DOMAIN acks, Brings(acks[i], p, pending[p])
        PROVE  \E j \in DOMAIN acks' : Brings(acks'[j], p, pending'[p])
    <3>1. i \in 1..m
      BY <1>2
    <3>2. Brings(older[i], p, pending[p])
      BY <1>3, <2>3, <3>1 DEF Brings
    <3>3. ~due(i)
      BY <1>5, <1>9, <3>1, <3>2
    <3>4. acks'[i] = older[i] /\ i \in DOMAIN acks'
      BY <1>6, <3>1, <3>3
    <3> QED BY <2>1, <3>2, <3>4
  <2> QED BY <1>0, <2>1, <2>2, <2>3 DEF Covered
<1>12. Chained' /\ RefusedForCause' /\ Later(placements, placements')
  BY <1>0, <1>1, ChainsStay
<1> QED BY <1>10, <1>11, <1>12 DEF IInv

-----------------------------------------------------------------------------
(* the client *)

\* The client shows blocks.
LEMMA ShownTyped ==
    ASSUME NEW s \in World \cup {Unloaded}, NEW pk \in Packet
    PROVE  Shown(s, pk) \in World \cup {Unloaded}
<1>1. CASE pk \in [type : {"update"}, blocks : Maps(Blocks)]
  <2>1. pk.type = "update" /\ pk.blocks \in Maps(Blocks)
    BY <1>1
  <2>2. Shown(s, pk) = IF s = Unloaded THEN Unloaded ELSE Over(pk.blocks, s)
    BY <2>1 DEF Shown
  <2>3. DOMAIN pk.blocks \in SUBSET Positions /\ \A p \in DOMAIN pk.blocks : pk.blocks[p] \in Blocks
    BY <2>1, MapIs
  <2>4. s # Unloaded => Over(pk.blocks, s) \in World
    BY <2>3 DEF World, Over
  <2> QED BY <2>2, <2>4
<1>2. CASE pk \in [type : {"chunk"}, blocks : World]
  BY <1>2 DEF Shown
<1>3. CASE pk \in [type : {"reset"}, blocks : {Empty}]
  BY <1>3 DEF Shown
<1> QED BY <1>1, <1>2, <1>3 DEF Packet

\* The loop over the first n packets of a bundle.
IsShown(h, s, pks, n) == h = [i \in 0..n |-> IF i = 0 THEN s ELSE Shown(h[i - 1], pks[i])]

\* The loop has a value after every turn.
LEMMA ShownExists ==
    ASSUME NEW S, NEW s0 \in S, NEW pks, NEW n \in Nat, \A k \in 1..n : \A s \in S : Shown(s, pks[k]) \in S
    PROVE  \E h : IsShown(h, s0, pks, n)
<1> DEFINE turn == [k \in 1..n |-> [s \in S |-> Shown(s, pks[k])]]
<1>1. turn \in [1..n -> [S -> S]]
  OBVIOUS
<1>2. PICK g \in [0..n -> S] : g[0] = s0 /\ \A k \in 1..n : g[k] = turn[k][g[k - 1]]
  <2> HIDE DEF turn
  <2> QED BY <1>1, Turns
<1>3. \A i \in 0..n : g[i] = IF i = 0 THEN s0 ELSE Shown(g[i - 1], pks[i])
  <2> TAKE i \in 0..n
  <2>1. CASE i = 0
    BY <1>2, <2>1
  <2>2. CASE i # 0
    <3>1. i \in 1..n /\ i - 1 \in 0..n /\ g[i - 1] \in S
      BY <2>2
    <3>2. g[i] = turn[i][g[i - 1]]
      BY <1>2, <3>1
    <3> QED BY <2>2, <3>1, <3>2
  <2> QED BY <2>1, <2>2
<1>4. g = [i \in 0..n |-> g[i]]
  OBVIOUS
<1> QED BY <1>3, <1>4 DEF IsShown

\* What every packet keeps holds after the bundle.
LEMMA ShownStays ==
    ASSUME NEW S, NEW s0 \in S, NEW pks, NEW n \in Nat, NEW h, IsShown(h, s0, pks, n),
           \A k \in 1..n : \A s \in S : Shown(s, pks[k]) \in S
    PROVE  h[n] \in S
<1>1. h[0] = s0 /\ \A k \in 1..n : h[k] = Shown(h[k - 1], pks[k])
  <2>1. h = [i \in 0..n |-> IF i = 0 THEN s0 ELSE Shown(h[i - 1], pks[i])]
    BY DEF IsShown
  <2>2. 0 \in 0..n /\ \A k \in 1..n : k \in 0..n /\ k # 0
    OBVIOUS
  <2> QED BY <2>1, <2>2
<1>2. \A k \in 1..n : h[k - 1] \in S => h[k] \in S
  BY <1>1
<1>3. \A k \in 0..n : h[k] \in S
  BY <1>1, <1>2, KeptByTurns
<1> QED BY <1>3

\* The client applies a bundle.
LEMMA ClientReceiveKeeps ==
    ASSUME IInv, ClientReceive
    PROVE  IInv' /\ Later(placements, placements')
<1>0. Typed /\ Covered /\ Chained /\ RefusedForCause
  BY DEF IInv
<1> DEFINE pks == Head(down).packets
           n == Len(pks)
           S == World \cup {Unloaded}
           h == CHOOSE g : IsShown(g, client, pks, n)
<1>1. /\ down # <<>> /\ down' = Tail(down) /\ client' = h[n]
      /\ up' = Append(up, [type |-> "ack", id |-> Head(down).id])
      /\ UNCHANGED <<opts, worldVars, server, outbox, copyVars, ticks, backend, refused>>
  BY DEF ClientReceive, IsShown
<1>2. Head(down) \in Bundle /\ down' \in Seq(Bundle)
  BY <1>0, <1>1 DEF Typed
<1>3. pks \in Seq(Packet) /\ [type |-> "ack", id |-> Head(down).id] \in Answer
  BY <1>2 DEF Bundle, Answer
<1>4. up' \in Seq(Click \cup Answer)
  BY <1>0, <1>1, <1>3 DEF Typed
<1>5. n \in Nat /\ \A k \in 1..n : pks[k] \in Packet
  BY <1>3
<1> HIDE DEF n, pks
<1>6. client \in S /\ \A k \in 1..n : \A s \in S : Shown(s, pks[k]) \in S
  BY <1>0, <1>5, ShownTyped DEF Typed
<1> HIDE DEF S
<1>7. IsShown(h, client, pks, n)
  BY <1>5, <1>6, ShownExists
<1> HIDE DEF h
<1>8. h[n] \in S
  BY <1>5, <1>6, <1>7, ShownStays
<1>9. client' \in World \cup {Unloaded}
  BY <1>1, <1>8 DEF S
<1>10. Typed' /\ Covered'
  <2>1. Typed'
    BY <1>0, <1>1, <1>2, <1>4, <1>9 DEF Typed, worldVars, copyVars
  <2>2. Covered'
    BY <1>0, <1>1 DEF Covered, Brings, copyVars
  <2> QED BY <2>1, <2>2
<1>11. Chained' /\ RefusedForCause' /\ Later(placements, placements')
  BY <1>0, <1>1, ChainsStay DEF copyVars
<1> QED BY <1>10, <1>11 DEF IInv

\* The client places a block.
LEMMA ClientPlaceKeeps ==
    ASSUME IInv, NEW pos \in Positions, NEW face \in Faces, ClientPlace(pos, face)
    PROVE  IInv' /\ Later(placements, placements')
<1>0. Typed /\ Covered /\ Chained /\ RefusedForCause
  BY DEF IInv
<1>1. /\ client # Unloaded /\ Side(pos, face) \in Positions
      /\ client' = [client EXCEPT ![Side(pos, face)] = "stone"]
      /\ up' = Append(up, [type |-> "click", pos |-> pos, face |-> face])
      /\ UNCHANGED <<opts, worldVars, server, outbox, down, copyVars, ticks, backend, refused>>
  BY DEF ClientPlace
<1>2. client' \in World
  BY <1>0, <1>1 DEF Typed, World, Blocks
<1>3. [type |-> "click", pos |-> pos, face |-> face] \in Click
  BY <1>1 DEF Click
<1>4. up' \in Seq(Click \cup Answer)
  BY <1>0, <1>1, <1>3 DEF Typed
<1>5. Typed'
  BY <1>0, <1>1, <1>2, <1>4 DEF Typed, worldVars, copyVars
<1>6. Covered'
  BY <1>0, <1>1 DEF Covered, Brings, copyVars
<1>7. Chained' /\ RefusedForCause' /\ Later(placements, placements')
  BY <1>0, <1>1, ChainsStay DEF copyVars
<1> QED BY <1>5, <1>6, <1>7 DEF IInv

-----------------------------------------------------------------------------
(* the packets of the client *)

\* SyncBlock: what is sent is in the batch.
LEMMA SyncBlocksKeeps ==
    ASSUME Typed, Covered, NEW D \in SUBSET Positions, SyncBlocks(D), UNCHANGED <<acks, backend>>
    PROVE  /\ batch' \in Maps(Update) /\ pending' \in Maps(Update) /\ Covered'
           /\ \A p \in DOMAIN pending' : pending'[p].from <= backend'
           /\ outbox' \in Seq(Packet)
<1> DEFINE R == D \ DOMAIN pending
           send == [p \in R |-> Block(p)]
<1>1. AddPendingUpdates(send) /\ outbox' = Sent(send)
  BY DEF SyncBlocks
<1>2. send \in Maps(Blocks)
  <2>1. R \in SUBSET Positions
    OBVIOUS
  <2>2. \A p \in R : Block(p) \in Blocks
    BY BlockTyped DEF Typed
  <2> HIDE DEF R
  <2>3. send \in [R -> Blocks]
    BY <2>2
  <2> QED BY <2>1, <2>3 DEF Maps
<1> HIDE DEF send
<1> QED BY <1>1, <1>2, AddKeeps, SentTyped DEF Typed

\* QueueBlockPlacement.
LEMMA QueueKeeps ==
    ASSUME Chained, NEW clicked, NEW pos \in Positions, NEW face \in Faces, Block(pos) = "air",
           QueueBlockPlacement(clicked, pos, face)
    PROVE  Chained' /\ Later(placements, placements')
<1>1. CASE UNCHANGED <<placements, placed>>
  BY <1>1, LaterSelf DEF Chained
<1>2. CASE ~UNCHANGED <<placements, placed>>
  <2> DEFINE parent == IF clicked \in DOMAIN placed THEN placed[clicked] ELSE None
             n == Len(placements) + 1
  <2>1. /\ placements' = newChainedBlockPlacement(placements, "air", face, parent)
        /\ placed' = Put(placed, pos, n)
    BY <1>2 DEF QueueBlockPlacement
  <2>2. parent \in {None} \cup DOMAIN placements
    BY DEF Chained, Alive
  <2> HIDE DEF parent
  <2>3. /\ placements' \in Seq(Placements) /\ Links(placements') /\ Ghosts(placements') /\ Later(placements, placements')
        /\ DOMAIN placements' = DOMAIN placements \cup {n} /\ placements'[n].remaining >= 1
        /\ \A k \in DOMAIN placements : placements'[k].remaining = placements[k].remaining
    BY <2>1, <2>2, NewPlacementKeeps DEF Chained
  <2> HIDE DEF n
  <2>4. DOMAIN placed' = DOMAIN placed \cup {pos} /\ \A p \in DOMAIN placed' : placed'[p] = IF p = pos THEN n ELSE placed[p]
    BY <2>1 DEF Put
  <2>5. Alive(placements', placed')
    BY <2>3, <2>4 DEF Alive, Chained
  <2>6. DOMAIN placed' \subseteq Positions
    BY <2>4 DEF Chained
  <2> QED BY <2>3, <2>5, <2>6 DEF Chained
<1> QED BY <1>1, <1>2

\* PlaceBlock: refused, corrected, or placed.
LEMMA PlaceBlockKeeps ==
    ASSUME IInv, NEW clicked, NEW pos \in Positions, NEW face \in Faces, NEW blocked,
           PlaceBlock(clicked, pos, face, blocked), up' \in Seq(Click \cup Answer),
           UNCHANGED <<opts, chunk, client, server, down, ticks, backend, refused>>
    PROVE  IInv' /\ Later(placements, placements')
<1>0. Typed /\ Covered /\ Chained /\ RefusedForCause
  BY DEF IInv
<1>1. CASE Block(pos) # "air"
  <2>1. UNCHANGED <<blockUpdates, outbox, copyVars>>
    BY <1>1 DEF PlaceBlock
  <2>2. Typed'
    BY <1>0, <2>1 DEF Typed, copyVars
  <2>3. Covered'
    BY <1>0, <2>1 DEF Covered, Brings, copyVars
  <2>4. Chained' /\ RefusedForCause' /\ Later(placements, placements')
    BY <1>0, <2>1, ChainsStay DEF copyVars
  <2> QED BY <2>2, <2>3, <2>4 DEF IInv
<1>2. CASE Block(pos) = "air" /\ blocked
  <2>1. SyncBlocks({pos}) /\ UNCHANGED <<blockUpdates, acks, placements, placed>>
    BY <1>2 DEF PlaceBlock
  <2>2. {pos} \in SUBSET Positions
    OBVIOUS
  <2>3. /\ batch' \in Maps(Update) /\ pending' \in Maps(Update) /\ Covered'
        /\ \A p \in DOMAIN pending' : pending'[p].from <= backend'
        /\ outbox' \in Seq(Packet)
    BY <1>0, <2>1, <2>2, SyncBlocksKeeps
  <2>4. Typed'
    BY <1>0, <2>1, <2>3 DEF Typed
  <2>5. Chained' /\ RefusedForCause' /\ Later(placements, placements')
    BY <1>0, <2>1, ChainsStay
  <2> QED BY <2>3, <2>4, <2>5 DEF IInv
<1>3. CASE Block(pos) = "air" /\ ~blocked
  <2>1. /\ QueueBlockPlacement(clicked, pos, face) /\ blockUpdates' = Put(blockUpdates, pos, "stone")
        /\ UNCHANGED <<outbox, batch, acks, pending>>
    BY <1>3 DEF PlaceBlock
  <2>2. blockUpdates' \in Maps(Blocks)
    <3>1. DOMAIN blockUpdates \in SUBSET Positions /\ \A p \in DOMAIN blockUpdates : blockUpdates[p] \in Blocks
      BY <1>0, MapIs DEF Typed
    <3>2. blockUpdates' \in [DOMAIN blockUpdates \cup {pos} -> Blocks]
      BY <2>1, <3>1 DEF Put, Blocks
    <3> QED BY <3>1, <3>2 DEF Maps
  <2>3. Typed'
    BY <1>0, <2>1, <2>2 DEF Typed
  <2>4. Covered'
    BY <1>0, <2>1 DEF Covered, Brings
  <2>5. Chained' /\ Later(placements, placements')
    BY <1>0, <1>3, <2>1, QueueKeeps
  <2>6. RefusedForCause'
    BY <1>0, <2>5, CauseStays
  <2> QED BY <2>3, <2>4, <2>5, <2>6 DEF IInv
<1> QED BY <1>1, <1>2, <1>3

\* AttemptItemInteractionWithBlock: a click is refused only for a ghost, which rests on a rejection.
LEMMA AttemptKeeps ==
    ASSUME IInv, NEW obstacle, AttemptItemInteractionWithBlock(obstacle)
    PROVE  IInv' /\ Later(placements, placements')
<1>0. Typed /\ Covered /\ Chained /\ RefusedForCause
  BY DEF IInv
<1> DEFINE pos == Head(up).pos
           face == Head(up).face
           side == Side(pos, face)
<1>1. /\ up # <<>> /\ Head(up).type = "click" /\ up' = Tail(up)
      /\ UNCHANGED <<opts, chunk, client, server, down, ticks, backend>>
  BY DEF AttemptItemInteractionWithBlock
<1>2. \/ SyncBlocks({pos, side}) /\ UNCHANGED <<blockUpdates, acks, placements, placed, refused>>
      \/ /\ ChainExceeded(pos) /\ SyncBlocks({pos, side}) /\ refused' = placed[pos]
         /\ UNCHANGED <<blockUpdates, acks, placements, placed>>
      \/ PlaceBlock(pos, side, face, obstacle = "blocked") /\ refused' = refused
  BY DEF AttemptItemInteractionWithBlock
<1>3. Head(up) \in Click /\ up' \in Seq(Click \cup Answer)
  <2>1. Head(up) \in Click \cup Answer
    BY <1>0, <1>1 DEF Typed
  <2>2. Head(up) \notin Answer
    BY <1>1 DEF Answer
  <2> QED BY <1>0, <1>1, <2>1, <2>2 DEF Typed
<1>4. pos \in Positions /\ face \in Faces /\ side \in Positions
  BY <1>3 DEF Click
<1> HIDE DEF pos, face, side
<1>5. ASSUME SyncBlocks({pos, side}), UNCHANGED <<blockUpdates, acks, placements, placed>>
      PROVE  Typed' /\ Covered' /\ Chained' /\ Later(placements, placements')
  <2>1. {pos, side} \in SUBSET Positions
    BY <1>4
  <2>2. /\ batch' \in Maps(Update) /\ pending' \in Maps(Update) /\ Covered'
        /\ \A p \in DOMAIN pending' : pending'[p].from <= backend'
        /\ outbox' \in Seq(Packet)
    BY <1>0, <1>1, <1>5, <2>1, SyncBlocksKeeps
  <2>3. Typed'
    BY <1>0, <1>1, <1>3, <1>5, <2>2 DEF Typed
  <2>4. Chained' /\ Later(placements, placements')
    BY <1>0, <1>5, LaterSelf DEF Chained
  <2> QED BY <2>2, <2>3, <2>4
<1>6. CASE SyncBlocks({pos, side}) /\ UNCHANGED <<blockUpdates, acks, placements, placed, refused>>
  <2>1. Typed' /\ Covered' /\ Chained' /\ Later(placements, placements')
    BY <1>5, <1>6
  <2> QED BY <1>0, <1>6, <2>1, CauseStays DEF IInv
<1>7. CASE /\ ChainExceeded(pos) /\ SyncBlocks({pos, side}) /\ refused' = placed[pos]
           /\ UNCHANGED <<blockUpdates, acks, placements, placed>>
  <2>1. Typed' /\ Covered' /\ Chained' /\ Later(placements, placements')
    BY <1>5, <1>7
  <2>2. placed[pos] \in DOMAIN placements /\ ~placements[placed[pos]].allowed
    BY <1>0, <1>7 DEF ChainExceeded, Chained, Alive
  <2>3. \E n \in Foundation(placements, placed[pos]) : placements[n].rejected
    BY <1>0, <2>2 DEF Chained, Ghosts
  <2>4. RefusedForCause'
    BY <1>7, <2>2, <2>3 DEF RefusedForCause, Foundation
  <2> QED BY <2>1, <2>4 DEF IInv
<1>8. CASE PlaceBlock(pos, side, face, obstacle = "blocked") /\ refused' = refused
  BY <1>1, <1>3, <1>4, <1>8, PlaceBlockKeeps
<1> QED BY <1>2, <1>6, <1>7, <1>8 DEF pos, face, side

-----------------------------------------------------------------------------
(* Player.Tick *)

\* The chains, when it is the turn of the placements whose time is over and of the server's answers.
LEMMA ChainsTicked ==
    ASSUME Chained, NEW expired \in SetToSeqs(Expiring), NEW t, t = Tick(expired), placed' = t.placed,
           \E order \in SetToSeqs(DOMAIN batch \cap DOMAIN t.placed) :
              placements' = IF opts.maxChain >= 1 THEN Judged(t.placements, t.placed, order) ELSE t.placements
    PROVE  Chained' /\ Later(placements, placements')
<1>1. /\ t.placements \in Seq(Placements) /\ Links(t.placements) /\ Ghosts(t.placements)
      /\ Later(placements, t.placements) /\ Alive(t.placements, t.placed) /\ DOMAIN t.placed \subseteq DOMAIN placed
  BY TickKeeps DEF Chained
<1>2. PICK order \in SetToSeqs(DOMAIN batch \cap DOMAIN t.placed) :
        placements' = IF opts.maxChain >= 1 THEN Judged(t.placements, t.placed, order) ELSE t.placements
  OBVIOUS
<1>3. DOMAIN t.placed \subseteq Positions
  BY <1>1 DEF Chained
<1>4. Judged(t.placements, t.placed, order) \in JudgedFrom(t.placements)
  <2>1. IsFiniteSet(Positions)
    <3>1. Width - 1 \in Int
      BY WorldAssumption
    <3> QED BY <3>1, FS_Interval DEF Positions
  <2>2. IsFiniteSet(DOMAIN batch \cap DOMAIN t.placed)
    BY <1>3, <2>1, FS_Subset
  <2>3. Len(order) \in Nat /\ \A i \in 1..Len(order) : order[i] \in DOMAIN batch \cap DOMAIN t.placed
    BY <2>2, OrderTyped
  <2>4. \A i \in 1..Len(order) : order[i] \in DOMAIN t.placed /\ t.placed[order[i]] \in DOMAIN t.placements
    BY <1>1, <2>3 DEF Alive
  <2> QED BY <1>1, <2>3, <2>4, JudgedKeeps
<1>5. placements' \in JudgedFrom(t.placements)
  <2>1. t.placements \in JudgedFrom(t.placements)
    BY <1>1, LaterSelf DEF JudgedFrom, Alike
  <2> QED BY <1>2, <1>4, <2>1
<1>6. placements' \in Seq(Placements) /\ Alike(t.placements, placements') /\ Links(placements') /\ Ghosts(placements')
      /\ Later(t.placements, placements')
  BY <1>5 DEF JudgedFrom
<1>7. Later(placements, placements')
  BY <1>1, <1>6, LaterTwice
<1>8. Alive(placements', placed')
  BY <1>1, <1>6 DEF Alive, Alike
<1> QED BY <1>3, <1>6, <1>7, <1>8 DEF Chained

\* Player.Tick: what was in the batch is applied, or in the acknowledgement that is sent.
LEMMA PlayerTickKeeps ==
    ASSUME IInv, PlayerTick
    PROVE  IInv' /\ Later(placements, placements')
<1>0. Typed /\ Covered /\ Chained /\ RefusedForCause
  BY DEF IInv
<1>1. PICK expired \in SetToSeqs(Expiring), noLagComp \in {FALSE, opts.cutoff} :
          LET t == Tick(expired)
              undone == [p \in Refused(t.placements, t.placed) |-> batch[p]]
              rest == [p \in DOMAIN batch \ DOMAIN undone |-> batch[p]]
              pend == RemovePendingUpdates(pending, undone)
              set == SetBlocks(blockUpdates, undone)
          IN  /\ \E order \in SetToSeqs(DOMAIN batch \cap DOMAIN t.placed) :
                    placements' = IF opts.maxChain >= 1
                                  THEN Judged(t.placements, t.placed, order) ELSE t.placements
              /\ placed' = t.placed
              /\ IF noLagComp
                 THEN /\ blockUpdates' = SetBlocks(set, rest)
                      /\ pending' = RemovePendingUpdates(pend, rest)
                      /\ acks' = Append(acks, Batch(ticks + 1, Empty))
                 ELSE /\ blockUpdates' = set /\ pending' = pend
                      /\ acks' = Append(acks, Batch(ticks + 1, rest))
  BY DEF PlayerTick
<1>2. /\ ticks' = ticks + 1 /\ batch' = Empty /\ outbox' = <<>>
      /\ down' = Append(down, [packets |-> outbox, id |-> ticks + 1])
      /\ UNCHANGED <<opts, chunk, client, server, up, backend, refused>>
  BY DEF PlayerTick
<1> DEFINE t == Tick(expired)
           R == Refused(t.placements, t.placed)
           undone == [p \in R |-> batch[p]]
           rest == [p \in DOMAIN batch \ R |-> batch[p]]
           pend == RemovePendingUpdates(pending, undone)
           set == SetBlocks(blockUpdates, undone)
           new == Batch(ticks + 1, IF noLagComp THEN Empty ELSE rest)
<1>3. /\ \E order \in SetToSeqs(DOMAIN batch \cap DOMAIN t.placed) :
            placements' = IF opts.maxChain >= 1 THEN Judged(t.placements, t.placed, order) ELSE t.placements
      /\ placed' = t.placed
  BY <1>1
<1>4. /\ blockUpdates' = IF noLagComp THEN SetBlocks(set, rest) ELSE set
      /\ pending' = IF noLagComp THEN RemovePendingUpdates(pend, rest) ELSE pend
      /\ acks' = Append(acks, new)
  <2>1. DOMAIN undone = R
    OBVIOUS
  <2> HIDE DEF R, t
  <2> QED BY <1>1, <2>1 DEF R, t
<1>5. R \subseteq DOMAIN batch
  BY DEF Refused
<1> HIDE DEF t, R
<1>6. undone \in Maps(Update) /\ rest \in Maps(Update)
  <2>1. R \in SUBSET DOMAIN batch /\ DOMAIN batch \ R \in SUBSET DOMAIN batch
    BY <1>5
  <2> QED BY <1>0, <2>1, CutMap DEF Typed
<1>7. /\ DOMAIN undone = R /\ DOMAIN rest = DOMAIN batch \ R
      /\ (\A p \in R : undone[p] = batch[p]) /\ (\A p \in DOMAIN batch \ R : rest[p] = batch[p])
  OBVIOUS
<1> HIDE DEF undone, rest
<1>8. /\ pend \in Maps(Update) /\ DOMAIN pend \subseteq DOMAIN pending
      /\ \A p \in DOMAIN pend : pend[p] = pending[p] /\ (p \in DOMAIN undone => pending[p].rid # undone[p].rid)
  BY <1>0, RemoveKeeps DEF Typed
<1>9. set \in Maps(Blocks)
  BY <1>0, <1>6, SetBlocksTyped DEF Typed
<1> HIDE DEF pend, set
<1>10. blockUpdates' \in Maps(Blocks)
  BY <1>4, <1>6, <1>9, SetBlocksTyped
<1>11. /\ pending' \in Maps(Update) /\ DOMAIN pending' \subseteq DOMAIN pend
       /\ \A p \in DOMAIN pending' : pending'[p] = pend[p] /\ (noLagComp /\ p \in DOMAIN rest => pend[p].rid # rest[p].rid)
  <2>1. CASE noLagComp
    <3>1. pending' = RemovePendingUpdates(pend, rest)
      BY <1>4, <2>1
    <3> QED BY <1>8, <3>1, RemoveKeeps
  <2>2. CASE ~noLagComp
    BY <1>4, <1>8, <2>2
  <2> QED BY <2>1, <2>2
<1>12. /\ new \in Ack /\ new.id = ticks + 1
       /\ ~noLagComp /\ rest # Empty => new.valid /\ new.blocks = rest
  <2>1. ticks + 1 \in Nat
    BY <1>0 DEF Typed
  <2>2. Empty \in Maps(Update)
    BY EmptyMap
  <2> QED BY <1>0, <1>6, <2>1, <2>2, BatchTyped
<1> HIDE DEF new
<1>13. /\ acks' \in Seq(Ack) /\ DOMAIN acks' = DOMAIN acks \cup {Len(acks) + 1} /\ acks'[Len(acks) + 1] = new
       /\ \A i \in DOMAIN acks : acks'[i] = acks[i]
  BY <1>0, <1>4, <1>12 DEF Typed
<1>14. Typed'
  <2>1. down' \in Seq(Bundle) /\ outbox' \in Seq(Packet) /\ ticks' \in Nat
    <3>1. [packets |-> outbox, id |-> ticks + 1] \in Bundle
      BY <1>0 DEF Bundle, Typed
    <3> QED BY <1>0, <1>2, <3>1 DEF Typed
  <2>2. batch' \in Maps(Update)
    BY <1>2, EmptyMap
  <2>3. \A i \in DOMAIN acks' : acks'[i].id \in 1..ticks'
    <3> TAKE i \in DOMAIN acks'
    <3>1. CASE i \in DOMAIN acks
      <4>1. acks'[i].id \in 1..ticks /\ ticks \in Nat
        BY <1>0, <1>13, <3>1 DEF Typed
      <4> QED BY <1>2, <4>1
    <3>2. CASE i = Len(acks) + 1
      <4>1. acks'[i].id = ticks + 1 /\ ticks \in Nat
        BY <1>0, <1>12, <1>13, <3>2 DEF Typed
      <4> QED BY <1>2, <4>1
    <3> QED BY <1>13, <3>1, <3>2
  <2>4. \A p \in DOMAIN pending' : pending'[p].from <= backend'
    BY <1>0, <1>2, <1>8, <1>11 DEF Typed
  <2> QED BY <1>0, <1>2, <1>10, <1>11, <1>13, <2>1, <2>2, <2>3, <2>4 DEF Typed
<1>15. Covered'
  <2> SUFFICES ASSUME NEW p \in DOMAIN pending', pending'[p].from = backend
               PROVE  \E i \in DOMAIN acks' : Brings(acks'[i], p, pending'[p])
    BY <1>2 DEF Covered, Brings
  <2>1. /\ p \in DOMAIN pend /\ p \in DOMAIN pending /\ pending'[p] = pending[p] /\ pend[p] = pending[p]
        /\ p \in DOMAIN undone => pending[p].rid # undone[p].rid
        /\ noLagComp /\ p \in DOMAIN rest => pending[p].rid # rest[p].rid
    BY <1>8, <1>11
  <2>2. CASE p \in DOMAIN batch /\ batch[p].rid = pending[p].rid
    <3>1. p \in DOMAIN rest /\ rest[p].rid = pending[p].rid /\ ~noLagComp
      BY <1>7, <2>1, <2>2
    <3>2. rest # Empty
      BY <3>1, EmptyMap
    <3>3. Brings(new, p, pending[p])
      BY <1>12, <3>1, <3>2 DEF Brings
    <3> QED BY <1>13, <2>1, <3>3
  <2>3. ASSUME NEW i \in DOMAIN acks, Brings(acks[i], p, pending[p])
        PROVE  \E j \in DOMAIN acks' : Brings(acks'[j], p, pending'[p])
    BY <1>13, <2>1, <2>3
  <2> QED BY <1>0, <2>1, <2>2, <2>3 DEF Covered
<1>16. Chained' /\ Later(placements, placements')
  <2>1. t = Tick(expired)
    BY DEF t
  <2> QED BY <1>0, <1>3, <2>1, ChainsTicked
<1>17. RefusedForCause'
  BY <1>0, <1>2, <1>16, CauseStays
<1> QED BY <1>14, <1>15, <1>16, <1>17 DEF IInv

-----------------------------------------------------------------------------
\* Every step keeps the invariant, and what the placements have become.
LEMMA StepKeeps == IInv /\ [Next]_vars => IInv' /\ Later(placements, placements')
<1> SUFFICES ASSUME IInv, [Next]_vars PROVE IInv' /\ Later(placements, placements')
  OBVIOUS
<1>1. ASSUME NEW D \in SUBSET (Positions \ {0}) \ {{}}, NEW rid \in Blocks, HandleBlockUpdates([p \in D |-> rid])
      PROVE  IInv' /\ Later(placements, placements')
  <2>1. D \in SUBSET Positions
    OBVIOUS
  <2> QED BY <1>1, <2>1, HandleBlockUpdatesKeeps
<1>2. CASE HandleLevelChunk
  BY <1>2, HandleLevelChunkKeeps
<1>3. CASE TransferServerConn
  BY <1>3, TransferServerConnKeeps
<1>4. CASE PlayerTick
  BY <1>4, PlayerTickKeeps
<1>5. CASE ClientTick
  BY <1>5, ClientTickKeeps
<1>6. CASE ExecuteACK
  BY <1>6, ExecuteACKKeeps
<1>7. CASE ClientReceive
  BY <1>7, ClientReceiveKeeps
<1>8. ASSUME NEW pos \in Positions, NEW face \in Faces, ClientPlace(pos, face)
      PROVE  IInv' /\ Later(placements, placements')
  BY <1>8, ClientPlaceKeeps
<1>9. ASSUME NEW obstacle \in {"none", "far", "blocked"}, AttemptItemInteractionWithBlock(obstacle)
      PROVE  IInv' /\ Later(placements, placements')
  BY <1>9, AttemptKeeps
<1>10. CASE UNCHANGED vars
  <2>1. Chained' /\ RefusedForCause' /\ Later(placements, placements')
    BY <1>10, ChainsStay DEF IInv, vars
  <2>2. Typed' /\ Covered'
    BY <1>10 DEF IInv, Typed, Covered, Brings, vars
  <2> QED BY <2>1, <2>2 DEF IInv
<1> QED BY <1>1, <1>2, <1>3, <1>4, <1>5, <1>6, <1>7, <1>8, <1>9, <1>10 DEF Next

\* So it always holds.
LEMMA Invariance == Spec => []IInv
<1>1. IInv /\ [Next]_vars => IInv'
  BY StepKeeps
<1> QED BY Start, <1>1, PTL DEF Spec

\* AddPendingUpdate, RemovePendingUpdate, Flush, Execute and the timeouts: whenever SyncBlock is silent
\* because an update is pending, that update is still to be applied, however long the game goes on.
THEOREM NoUpdateForgotten == Spec => []PendingCovered
<1>1. IInv => PendingCovered
  <2> SUFFICES ASSUME IInv PROVE PendingCovered
    OBVIOUS
  <2>0. Typed /\ Covered /\ Chained
    BY DEF IInv
  <2>1. DOMAIN blockUpdates \subseteq Positions /\ Range(blockUpdates) \subseteq Blocks
    BY <2>0, MapIs DEF Typed, Range
  <2>2. batch \in Updates /\ pending \in Updates
    BY <2>0 DEF Typed, Updates, Maps
  <2>3. \A i \in DOMAIN acks : acks[i].blocks \in Updates /\ acks[i].id \in 1..ticks
    <3> TAKE i \in DOMAIN acks
    <3>1. acks[i] \in Ack /\ acks[i].id \in 1..ticks
      BY <2>0 DEF Typed
    <3> QED BY <3>1 DEF Ack, Updates, Maps
  <2>4. DOMAIN placed \subseteq Positions /\ Range(placed) \subseteq DOMAIN placements
    BY <2>0 DEF Chained, Alive, Range
  <2>5. \A n \in DOMAIN placements : placements[n].remaining \in 0..Lifetime
    BY <2>0, PlacementsTyped DEF Chained
  <2>6. TypeOK
    BY <2>0, <2>1, <2>2, <2>3, <2>4, <2>5 DEF TypeOK, Typed, World
  <2> QED BY <2>0, <2>6 DEF PendingCovered, Covered, Brings
<1> QED BY <1>1, Invariance, PTL

\* QueueBlockPlacement, setPlacementAllowed, destroy and ghostBlockChain: blocks the server has accepted
\* or not answered for never cost the player a click, whatever was placed on what and in whichever order
\* Go ranges over its maps.
THEOREM RefusedForRejection == Spec => []RefusedOnlyAfterRejection
<1>1. IInv => RefusedOnlyAfterRejection
  BY DEF IInv, RefusedForCause, RefusedOnlyAfterRejection
<1> QED BY <1>1, Invariance, PTL

\* setPlacementAllowed: an accepted placement stays accepted through every later answer, expiry and transfer.
THEOREM AnswersStay == Spec => AcceptedStays
<1>1. IInv /\ [Next]_vars => [\A n \in DOMAIN placements : Settled(placements[n]) => Settled(placements'[n])]_vars
  BY StepKeeps DEF Later
<1> QED BY <1>1, Invariance, PTL DEF Spec, AcceptedStays

-----------------------------------------------------------------------------
(***************************************************************************)
(* The copy and the client.  The client has what it was told last, the     *)
(* copy what the last acknowledgement sets.  Told and set are the same     *)
(* blocks, in the same order: each bundle has an acknowledgement, and      *)
(* bundles, answers and acknowledgements are in the order of their         *)
(* numbers.  So it is what the two will end with that is compared in every *)
(* state (Ends, Arrives), but for a block the client has placed and        *)
(* KillLime not yet heard of (Predicted).                                  *)
(***************************************************************************)

\* A packet that has a block for the position p; a sequence of packets that has one; and
\* the last one it has.
Says(pk, p) == p \in DOMAIN pk.blocks
Told(pks, p) == \E i \in DOMAIN pks : Says(pks[i], p)
Tells(pks, p, v) == \E i \in DOMAIN pks : /\ Says(pks[i], p) /\ pks[i].blocks[p] = v
                                         /\ \A j \in DOMAIN pks : j > i => ~Says(pks[j], p)

\* The last block for p on its way to the client, if there is one.
Silent(p) == ~Told(outbox, p) /\ \A k \in DOMAIN down : ~Told(down[k].packets, p)
Arrives(p, v) ==
    \/ Tells(outbox, p, v)
    \/ /\ ~Told(outbox, p)
       /\ \E k \in DOMAIN down : /\ Tells(down[k].packets, p, v)
                                 /\ \A l \in DOMAIN down : l > k => ~Told(down[l].packets, p)

\* The last of the acknowledgements as to set p.
Sets(ack, p) == ack.valid /\ p \in DOMAIN ack.blocks
LastSet(as, p, v) == \E i \in DOMAIN as : /\ Sets(as[i], p) /\ as[i].blocks[p].rid = v
                                         /\ \A j \in DOMAIN as : j > i => ~Sets(as[j], p)

\* The block the copy has at p when everything has run.
Ends(p, v) ==
    \/ p \in DOMAIN batch /\ batch[p].rid = v
    \/ p \notin DOMAIN batch /\ LastSet(acks, p, v)
    \/ p \notin DOMAIN batch /\ (\A i \in DOMAIN acks : ~Sets(acks[i], p)) /\ Block(p) = v

\* The k-th packet of the client answers the i-th acknowledgement; it places a block at p.
Answers(k, i) == up[k].type = "ack" /\ up[k].id = acks[i].id
Places(k, p) == up[k].type = "click" /\ Side(up[k].pos, up[k].face) = p

\* The client shows a block it has placed at p, and KillLime will have run everything that sets p by then.
Predicted(p) ==
    /\ client[p] = "stone"
    /\ \E k \in DOMAIN up : /\ Places(k, p)
                            /\ \A i \in DOMAIN acks : Sets(acks[i], p) => \E l \in DOMAIN up : l < k /\ Answers(l, i)

\* The acknowledgements are sent, answered and run in the order of their numbers.
Ordered ==
    /\ \A i, j \in DOMAIN acks : i < j => acks[i].id < acks[j].id
    /\ \A k, l \in DOMAIN down : k < l => down[k].id < down[l].id
    /\ \A k, l \in DOMAIN up : k < l /\ up[k].type = "ack" /\ up[l].type = "ack" => up[k].id < up[l].id
    /\ \A k \in DOMAIN up, l \in DOMAIN down : up[k].type = "ack" => up[k].id < down[l].id
    /\ \A k \in DOMAIN up : up[k].type = "ack" => up[k].id <= ticks
    /\ \A k \in DOMAIN down : down[k].id <= ticks

\* Each is on its way to the client, or its answer is on its way back.
Awaited ==
    \A i \in DOMAIN acks : \/ \E k \in DOMAIN down : down[k].id = acks[i].id
                           \/ \E k \in DOMAIN up : Answers(k, i)

\* The client has the world of the first backend.
Loaded ==
    /\ chunk # Unloaded /\ client # Unloaded
    /\ \A i \in DOMAIN outbox : outbox[i].type # "reset"
    /\ \A k \in DOMAIN down : \A i \in DOMAIN down[k].packets : down[k].packets[i].type # "reset"

\* What an acknowledgement or the open batch sets was told to the client with it.
Carried ==
    /\ \A p \in DOMAIN batch : Told(outbox, p)
    /\ \A i \in DOMAIN acks : \A k \in DOMAIN down : \A p \in Positions :
         down[k].id = acks[i].id /\ Sets(acks[i], p) => Told(down[k].packets, p)

\* And as long as no chunk was sent again, the client was told nothing else.
NothingElse ==
    /\ \A p \in Positions : Told(outbox, p) => p \in DOMAIN batch
    /\ \A k \in DOMAIN down : \A p \in Positions :
         Told(down[k].packets, p) => \E i \in DOMAIN acks : acks[i].id = down[k].id /\ Sets(acks[i], p)

\* Where a click is under way that places a block, the client shows it, or was told something else after it.
Visible ==
    \A k \in DOMAIN up : \A p \in Positions :
        Places(k, p) => \/ client[p] = "stone"
                        \/ \E i \in DOMAIN acks : Sets(acks[i], p) /\ \E l \in DOMAIN up : l > k /\ Answers(l, i)

\* The client ends with the block the copy ends with, or shows one it has predicted.
Agreed(p) ==
    \E v \in Blocks : /\ Ends(p, v)
                      /\ \/ Arrives(p, v)
                         \/ Silent(p) /\ (client[p] = v \/ (v = "air" /\ Predicted(p)))

\* The copy ends with the block of the server, and has it already where nothing is pending.
Served(p) ==
    /\ Ends(p, server[p])
    /\ p \in DOMAIN pending => pending[p].rid = server[p]
    /\ p \notin DOMAIN pending => /\ Block(p) = server[p]
                                  /\ p \in DOMAIN batch => batch[p].rid = server[p]
                                  /\ \A i \in DOMAIN acks : Sets(acks[i], p) => acks[i].blocks[p].rid = server[p]

\* What holds of a position, unless a chunk was sent again or the position is an exception.
Excepted == through \cup lost
Matches(p) ==
    /\ ~resent \/ p \notin Excepted => Agreed(p)
    /\ p \notin Excepted => Served(p)

\* While nothing was run before its answer, and on the first backend.
Regular == ~early /\ backend = 0
CopyInv ==
    /\ Ordered /\ Awaited
    /\ Regular => /\ Loaded /\ Carried
                  /\ ~resent => NothingElse /\ Visible
                  /\ \A p \in Positions : Matches(p)

-----------------------------------------------------------------------------
(* what is told *)

\* One packet more.
LEMMA ToldMore ==
    ASSUME NEW pks \in Seq(Packet), NEW pk \in Packet, NEW p
    PROVE  LET more == Append(pks, pk)
           IN  /\ Told(more, p) <=> Told(pks, p) \/ Says(pk, p)
               /\ \A v : Tells(more, p, v) <=> IF Says(pk, p) THEN pk.blocks[p] = v ELSE Tells(pks, p, v)
<1> DEFINE more == Append(pks, pk)
           n == Len(pks)
<1>1. n \in Nat /\ DOMAIN pks = 1..n /\ DOMAIN more = 1..(n + 1) /\ more[n + 1] = pk
      /\ \A i \in 1..n : more[i] = pks[i]
  OBVIOUS
<1> HIDE DEF more, n
<1>2. DOMAIN more = DOMAIN pks \cup {n + 1} /\ n + 1 \notin DOMAIN pks /\ \A i \in DOMAIN pks : i < n + 1 /\ ~(n + 1 < i)
  BY <1>1
<1>3. Told(more, p) <=> Told(pks, p) \/ Says(pk, p)
  BY <1>1, <1>2 DEF Told
<1>4. ASSUME NEW v PROVE Tells(more, p, v) <=> IF Says(pk, p) THEN pk.blocks[p] = v ELSE Tells(pks, p, v)
  <2>1. CASE Says(pk, p)
    <3>1. \A j \in DOMAIN more : ~(j > n + 1)
      BY <1>1
    <3> QED BY <1>1, <1>2, <2>1, <3>1 DEF Tells
  <2>2. CASE ~Says(pk, p)
    <3>1. ASSUME Tells(more, p, v) PROVE Tells(pks, p, v)
      BY <1>1, <1>2, <2>2, <3>1 DEF Tells
    <3>2. ASSUME Tells(pks, p, v) PROVE Tells(more, p, v)
      BY <1>1, <1>2, <2>2, <3>2 DEF Tells
    <3> QED BY <2>2, <3>1, <3>2
  <2> QED BY <2>1, <2>2
<1> QED BY <1>3, <1>4 DEF more

\* No packets.
LEMMA NothingTold == \A p, v : ~Told(<<>>, p) /\ ~Tells(<<>>, p, v)
BY DEF Told, Tells

\* What a sequence tells it has.
LEMMA TellsIsTold == ASSUME NEW pks, NEW p, NEW v, Tells(pks, p, v) PROVE Told(pks, p)
BY DEF Told, Tells

\* Sent: the client is told the blocks us.
LEMMA SentTold ==
    ASSUME outbox \in Seq(Packet), NEW us \in Maps(Blocks), NEW p
    PROVE  /\ Told(Sent(us), p) <=> Told(outbox, p) \/ p \in DOMAIN us
           /\ \A v : Tells(Sent(us), p, v) <=> IF p \in DOMAIN us THEN us[p] = v ELSE Tells(outbox, p, v)
<1>1. CASE us = Empty
  BY <1>1, EmptyMap DEF Sent
<1>2. CASE us # Empty
  <2> DEFINE pk == [type |-> "update", blocks |-> us]
  <2>1. pk \in Packet /\ pk.blocks = us /\ Sent(us) = Append(outbox, pk)
    BY <1>2 DEF Packet, Sent
  <2> HIDE DEF pk
  <2> QED BY <2>1, ToldMore DEF Says
<1> QED BY <1>1, <1>2

\* AddPendingUpdate and the packet that goes with it, by position.
LEMMA AddedAndTold ==
    ASSUME Typed, NEW us \in Maps(Blocks), AddPendingUpdates(us), outbox' = Sent(us), UNCHANGED <<down, acks, worldVars>>
    PROVE  \A p :
      /\ p \in DOMAIN us =>
           /\ p \in DOMAIN batch' /\ batch'[p].rid = us[p] /\ p \in DOMAIN pending' /\ pending'[p].rid = us[p]
           /\ Told(outbox', p) /\ Ends(p, us[p])' /\ Arrives(p, us[p])'
      /\ p \notin DOMAIN us =>
           /\ (p \in DOMAIN batch' <=> p \in DOMAIN batch) /\ (p \in DOMAIN batch => batch'[p] = batch[p])
           /\ (p \in DOMAIN pending' <=> p \in DOMAIN pending) /\ (p \in DOMAIN pending => pending'[p] = pending[p])
           /\ (Told(outbox', p) <=> Told(outbox, p)) /\ (Silent(p)' <=> Silent(p)) /\ Block(p)' = Block(p)
           /\ \A v : (Ends(p, v)' <=> Ends(p, v)) /\ (Arrives(p, v)' <=> Arrives(p, v))
<1> TAKE p
<1> DEFINE tagged == [q \in DOMAIN us |-> [rid |-> us[q], from |-> backend]]
<1>1. batch' = Over(tagged, batch) /\ pending' = Over(tagged, pending)
  BY DEF AddPendingUpdates
<1>2. DOMAIN tagged = DOMAIN us /\ \A q \in DOMAIN us : tagged[q].rid = us[q]
  OBVIOUS
<1> HIDE DEF tagged
<1>3. /\ DOMAIN batch' = DOMAIN us \cup DOMAIN batch /\ DOMAIN pending' = DOMAIN us \cup DOMAIN pending
      /\ \A q \in DOMAIN us : batch'[q] = tagged[q] /\ pending'[q] = tagged[q]
      /\ \A q \in DOMAIN batch \ DOMAIN us : batch'[q] = batch[q]
      /\ \A q \in DOMAIN pending \ DOMAIN us : pending'[q] = pending[q]
  BY <1>1, <1>2 DEF Over
<1>4. /\ Told(outbox', p) <=> Told(outbox, p) \/ p \in DOMAIN us
      /\ \A v : Tells(outbox', p, v) <=> IF p \in DOMAIN us THEN us[p] = v ELSE Tells(outbox, p, v)
  BY SentTold DEF Typed
<1>5. Block(p)' = Block(p)
  BY DEF Block, worldVars
<1>6. CASE p \in DOMAIN us
  BY <1>2, <1>3, <1>4, <1>6 DEF Ends, Arrives
<1>7. CASE p \notin DOMAIN us
  <2>1. /\ (p \in DOMAIN batch' <=> p \in DOMAIN batch) /\ (p \in DOMAIN batch => batch'[p] = batch[p])
        /\ (p \in DOMAIN pending' <=> p \in DOMAIN pending) /\ (p \in DOMAIN pending => pending'[p] = pending[p])
    BY <1>3, <1>7
  <2>2. (Told(outbox', p) <=> Told(outbox, p)) /\ (Silent(p)' <=> Silent(p))
    BY <1>4, <1>7 DEF Silent
  <2>3. ASSUME NEW v PROVE (Ends(p, v)' <=> Ends(p, v)) /\ (Arrives(p, v)' <=> Arrives(p, v))
    <3>1. Ends(p, v)' <=> Ends(p, v)
      BY <1>5, <2>1 DEF Ends
    <3>2. Arrives(p, v)' <=> Arrives(p, v)
      BY <1>4, <1>7 DEF Arrives
    <3> QED BY <3>1, <3>2
  <2> QED BY <1>5, <1>7, <2>1, <2>2, <2>3
<1> QED BY <1>6, <1>7

\* A world is not an unloaded one.
LEMMA WorldLoaded == ASSUME NEW w \in World PROVE w # Unloaded
<1>1. 0 \in Positions
  BY WorldAssumption DEF Positions
<1>2. DOMAIN w = Positions /\ DOMAIN Unloaded = {}
  BY DEF World, Unloaded
<1> QED BY <1>1, <1>2

\* The client has the last block it is told.
LEMMA ShownLast ==
    ASSUME NEW s0 \in World, NEW pks \in Seq(Packet), \A i \in DOMAIN pks : pks[i].type # "reset",
           NEW n, n = Len(pks), NEW h, IsShown(h, s0, pks, n)
    PROVE  /\ h[n] \in World
           /\ \A p \in Positions : IF Told(pks, p) THEN Tells(pks, p, h[n][p]) ELSE h[n][p] = s0[p]
<1> DEFINE LastSaid(k, p) == IF \E i \in 1..k : Says(pks[i], p)
                         THEN \E i \in 1..k : /\ Says(pks[i], p) /\ pks[i].blocks[p] = h[k][p]
                                              /\ \A j \in 1..k : j > i => ~Says(pks[j], p)
                         ELSE h[k][p] = s0[p]
           Good(k) == h[k] \in World /\ \A p \in Positions : LastSaid(k, p)
           T == {k \in 0..n : ~Good(k)}
<1>0. n \in Nat /\ DOMAIN pks = 1..n /\ \A k \in 1..n : pks[k] \in Packet
  OBVIOUS
<1>1. h[0] = s0 /\ \A k \in 1..n : h[k] = Shown(h[k - 1], pks[k])
  <2>1. h = [i \in 0..n |-> IF i = 0 THEN s0 ELSE Shown(h[i - 1], pks[i])]
    BY DEF IsShown
  <2>2. 0 \in 0..n /\ \A k \in 1..n : k \in 0..n /\ k # 0
    BY <1>0
  <2> QED BY <2>1, <2>2
<1>2. Good(0)
  BY <1>1
<1>3. ASSUME NEW k \in 1..n, Good(k - 1) PROVE Good(k)
  <2> DEFINE s == h[k - 1]
             pk == pks[k]
  <2>0. s \in World /\ (\A p \in Positions : LastSaid(k - 1, p)) /\ k - 1 \in Nat /\ k \in Nat
    BY <1>0, <1>3
  <2>1. pk \in Packet /\ pk.type # "reset"
    BY <1>0
  <2>2. s # Unloaded
    BY <2>0, WorldLoaded
  <2>3. h[k] = Shown(s, pk)
    BY <1>1
  <2>4. h[k] \in World /\ \A p \in Positions : h[k][p] = IF Says(pk, p) THEN pk.blocks[p] ELSE s[p]
    <3> HIDE DEF s, pk
    <3>1. CASE pk \in [type : {"update"}, blocks : Maps(Blocks)]
      <4>1. pk.type = "update" /\ pk.blocks \in Maps(Blocks)
        BY <3>1
      <4>2. h[k] = Over(pk.blocks, s)
        BY <2>2, <2>3, <4>1 DEF Shown
      <4>3. DOMAIN pk.blocks \in SUBSET Positions /\ \A p \in DOMAIN pk.blocks : pk.blocks[p] \in Blocks
        BY <4>1, MapIs
      <4>4. DOMAIN s = Positions /\ \A p \in Positions : s[p] \in Blocks
        BY <2>0 DEF World
      <4> QED BY <4>2, <4>3, <4>4 DEF World, Over, Says
    <3>2. CASE pk \in [type : {"chunk"}, blocks : World]
      <4>1. h[k] = pk.blocks /\ pk.blocks \in World
        BY <2>3, <3>2 DEF Shown
      <4> QED BY <4>1 DEF World, Says
    <3>3. CASE pk \in [type : {"reset"}, blocks : {Empty}]
      BY <2>1, <3>3
    <3> QED BY <2>1, <3>1, <3>2, <3>3 DEF Packet
  <2>5. ASSUME NEW p \in Positions PROVE LastSaid(k, p)
    <3>1. /\ h[k][p] = IF Says(pk, p) THEN pk.blocks[p] ELSE s[p]
          /\ LastSaid(k - 1, p)
      BY <2>0, <2>4, <2>5
    <3>2. k \in 1..k /\ (\A j \in 1..k : ~(j > k)) /\ \A j \in 1..k : j = k \/ j \in 1..(k - 1)
      BY <2>0
    <3>3. \A j \in 1..(k - 1) : j \in 1..k /\ j # k
      BY <2>0
    <3>4. CASE Says(pk, p)
      BY <3>1, <3>2, <3>4
    <3>5. CASE ~Says(pk, p) /\ \E i \in 1..(k - 1) : Says(pks[i], p)
      <4>1. PICK i \in 1..(k - 1) : /\ Says(pks[i], p) /\ pks[i].blocks[p] = s[p]
                                   /\ \A j \in 1..(k - 1) : j > i => ~Says(pks[j], p)
        BY <3>1, <3>5
      <4>2. i \in 1..k /\ pks[i].blocks[p] = h[k][p] /\ \A j \in 1..k : j > i => ~Says(pks[j], p)
        BY <3>1, <3>2, <3>3, <3>5, <4>1
      <4> QED BY <4>1, <4>2
    <3>6. CASE ~Says(pk, p) /\ ~\E i \in 1..(k - 1) : Says(pks[i], p)
      <4>1. ~\E i \in 1..k : Says(pks[i], p)
        BY <3>2, <3>6
      <4>2. h[k][p] = s0[p]
        BY <3>1, <3>6
      <4> QED BY <4>1, <4>2
    <3> QED BY <3>4, <3>5, <3>6
  <2> QED BY <2>4, <2>5
<1> HIDE DEF Good
<1>4. T = {}
  <2> SUFFICES ASSUME T # {} PROVE FALSE
    OBVIOUS
  <2>1. T \in SUBSET Nat
    BY <1>0
  <2>2. PICK k \in T : \A m \in T : k <= m
    <3> HIDE DEF T
    <3> QED BY <2>1, LeastNatural
  <2>3. k # 0 /\ k \in 0..n
    BY <1>2, <2>2
  <2>4. k - 1 \in 0..n /\ k \in 1..n /\ ~(k <= k - 1)
    BY <1>0, <2>3
  <2>5. Good(k - 1)
    BY <2>2, <2>4
  <2> QED BY <1>3, <2>2, <2>4, <2>5
<1>5. Good(n)
  BY <1>0, <1>4
<1> QED BY <1>0, <1>5 DEF Good, Told, Tells

\* The last of some acknowledgements that set p is one of them, and no other.
LEMMA LastSetIs ==
    ASSUME NEW n \in Nat, NEW as, DOMAIN as = 1..n, NEW p
    PROVE  /\ (\E i \in DOMAIN as : Sets(as[i], p)) => \E v : LastSet(as, p, v)
           /\ \A v, w : LastSet(as, p, v) /\ LastSet(as, p, w) => v = w
<1>1. ASSUME NEW i \in DOMAIN as, Sets(as[i], p) PROVE \E v : LastSet(as, p, v)
  <2> DEFINE T == {j \in 1..n : Sets(as[j], p)}
  <2>1. T \in SUBSET (1..n) /\ T # {}
    BY <1>1
  <2>2. PICK j \in T : \A k \in T : k <= j
    <3> HIDE DEF T
    <3> QED BY <2>1, LastOne
  <2>3. \A k \in DOMAIN as : k > j => ~Sets(as[k], p)
    <3> SUFFICES ASSUME NEW k \in 1..n, k > j, Sets(as[k], p) PROVE FALSE
      OBVIOUS
    <3>1. k <= j /\ j \in 1..n
      BY <2>2
    <3> QED BY <3>1
  <2>4. LastSet(as, p, as[j].blocks[p].rid)
    BY <2>2, <2>3 DEF LastSet
  <2> QED BY <2>4
<1>2. ASSUME NEW v, NEW w, LastSet(as, p, v), LastSet(as, p, w) PROVE v = w
  <2>1. PICK i \in DOMAIN as : /\ Sets(as[i], p) /\ as[i].blocks[p].rid = v
                               /\ \A j \in DOMAIN as : j > i => ~Sets(as[j], p)
    BY <1>2 DEF LastSet
  <2>2. PICK k \in DOMAIN as : /\ Sets(as[k], p) /\ as[k].blocks[p].rid = w
                               /\ \A j \in DOMAIN as : j > k => ~Sets(as[j], p)
    BY <1>2 DEF LastSet
  <2>3. ~(k > i) /\ ~(i > k)
    BY <2>1, <2>2
  <2>4. i \in 1..n /\ k \in 1..n
    OBVIOUS
  <2>5. i = k
    BY <2>3, <2>4
  <2> QED BY <2>1, <2>2, <2>5
<1> QED BY <1>1, <1>2

\* Run of some acknowledgements, by position.
LEMMA RunAllSets ==
    ASSUME NEW n \in Nat, NEW as, DOMAIN as = 1..n, \A i \in 1..n : as[i].blocks \in Maps(Update),
           pending \in Maps(Update), NEW p \in Positions
    PROVE  LET r == RunAll(as)
           IN  /\ IF \E i \in 1..n : Sets(as[i], p) THEN p \in DOMAIN r.set /\ LastSet(as, p, r.set[p])
                  ELSE /\ p \in DOMAIN r.set <=> p \in DOMAIN blockUpdates
                       /\ p \in DOMAIN blockUpdates => r.set[p] = blockUpdates[p]
               /\ p \in DOMAIN pending \ DOMAIN r.pending =>
                    \E i \in 1..n : Sets(as[i], p) /\ as[i].blocks[p].rid = pending[p].rid
<1> DEFINE of(q) == {i \in DOMAIN as : as[i].valid /\ q \in DOMAIN as[i].blocks}
           lastof(q) == CHOOSE i \in of(q) : \A j \in of(q) : j <= i
           last(q) == as[lastof(q)].blocks[q]
           D == {q \in Positions : of(q) # {}}
           us == [q \in D |-> last(q)]
           rids == [q \in DOMAIN us |-> us[q].rid]
           found == {q \in DOMAIN pending : \E i \in of(q) : as[i].blocks[q].rid = pending[q].rid}
           taken == [q \in found |-> pending[q]]
<1>1. RunAll(as).set = SetBlocks(blockUpdates, us) /\ RunAll(as).pending = RemovePendingUpdates(pending, taken)
  BY DEF RunAll
<1>2. SetBlocks(blockUpdates, us) = Over(rids, blockUpdates)
  BY DEF SetBlocks
<1>3. DOMAIN rids = D /\ \A q \in D : rids[q] = last(q).rid
  OBVIOUS
<1>4. /\ DOMAIN RunAll(as).set = D \cup DOMAIN blockUpdates
      /\ \A q \in D \cup DOMAIN blockUpdates : RunAll(as).set[q] = IF q \in D THEN last(q).rid ELSE blockUpdates[q]
  <2> HIDE DEF rids, us, D, last
  <2> QED BY <1>1, <1>2, <1>3, SMTT(40) DEF Over
<1> DEFINE r == RunAll(as)
<1>5. ASSUME \E i \in 1..n : Sets(as[i], p) PROVE p \in DOMAIN r.set /\ LastSet(as, p, r.set[p])
  <2>1. of(p) # {} /\ of(p) \in SUBSET (1..n)
    BY <1>5 DEF Sets
  <2>2. \E i \in of(p) : \A j \in of(p) : j <= i
    <3> HIDE DEF of
    <3> QED BY <2>1, LastOne
  <2>3. lastof(p) \in of(p) /\ \A j \in of(p) : j <= lastof(p)
    <3> HIDE DEF of
    <3> QED BY <2>2
  <2> DEFINE i == lastof(p)
  <2>4. i \in DOMAIN as /\ Sets(as[i], p) /\ as[i].blocks[p].rid = last(p).rid
    BY <2>3 DEF Sets
  <2>5. \A j \in of(p) : ~(j > i)
    <3> HIDE DEF i
    <3>1. \A j \in of(p) : j \in 1..n /\ j <= i
      BY <2>3 DEF i
    <3>2. i \in Int
      BY <2>4
    <3> HIDE DEF of
    <3> QED BY <3>1, <3>2
  <2>6. \A j \in DOMAIN as : j > i => ~Sets(as[j], p)
    <3> HIDE DEF i
    <3> QED BY <2>5 DEF Sets
  <2>7. LastSet(as, p, last(p).rid)
    <3> HIDE DEF i, last
    <3> QED BY <2>4, <2>6 DEF LastSet
  <2> QED BY <1>4, <1>5, <2>1, <2>7
<1>6. ASSUME ~\E i \in 1..n : Sets(as[i], p)
      PROVE  (p \in DOMAIN r.set <=> p \in DOMAIN blockUpdates) /\ (p \in DOMAIN blockUpdates => r.set[p] = blockUpdates[p])
  <2>1. p \notin D
    BY <1>6 DEF Sets
  <2>2. /\ p \in DOMAIN RunAll(as).set <=> p \in DOMAIN blockUpdates
        /\ p \in DOMAIN blockUpdates => RunAll(as).set[p] = blockUpdates[p]
    <3> HIDE DEF D, last
    <3> QED BY <1>4, <2>1
  <2> QED BY <2>2
<1>7. ASSUME p \in DOMAIN pending \ DOMAIN RunAll(as).pending
      PROVE  \E i \in 1..n : Sets(as[i], p) /\ as[i].blocks[p].rid = pending[p].rid
  <2>1. DOMAIN taken = found
    OBVIOUS
  <2>2. p \in found
    <3> HIDE DEF taken, found
    <3> QED BY <1>1, <1>7, <2>1 DEF RemovePendingUpdates
  <2>3. PICK i \in of(p) : as[i].blocks[p].rid = pending[p].rid
    BY <2>2
  <2> QED BY <2>3 DEF Sets
<1> HIDE DEF r
<1> QED BY <1>5, <1>6, <1>7 DEF r

-----------------------------------------------------------------------------
(* the packets of the server, and the copy *)

\* Blocks that are told and added to the batch keep the two in line.
LEMMA AddedInLine ==
    ASSUME Typed, NEW us \in Maps(Blocks), AddPendingUpdates(us), outbox' = Sent(us),
           UNCHANGED <<down, acks, worldVars, client>>
    PROVE  (Loaded => Loaded') /\ (Carried => Carried') /\ (NothingElse => NothingElse')
<1>1. \A p : /\ Told(outbox', p) <=> Told(outbox, p) \/ p \in DOMAIN us
             /\ p \in DOMAIN batch' <=> p \in DOMAIN batch \/ p \in DOMAIN us
  <2> TAKE p
  <2>1. CASE p \in DOMAIN us
    BY <2>1, AddedAndTold
  <2>2. CASE p \notin DOMAIN us
    BY <2>2, AddedAndTold
  <2> QED BY <2>1, <2>2
<1>2. ASSUME Loaded PROVE Loaded'
  <2>1. \A i \in DOMAIN outbox' : outbox'[i].type # "reset"
    <3>1. CASE us = Empty
      BY <1>2, <3>1 DEF Sent, Loaded
    <3>2. CASE us # Empty
      <4>1. outbox' = Append(outbox, [type |-> "update", blocks |-> us])
        BY <3>2 DEF Sent
      <4>2. outbox \in Seq(Packet)
        BY DEF Typed
      <4>3. \A i \in DOMAIN outbox : outbox[i].type # "reset"
        BY <1>2 DEF Loaded
      <4> QED BY <4>1, <4>2, <4>3
    <3> QED BY <3>1, <3>2
  <2> QED BY <1>2, <2>1 DEF Loaded, worldVars
<1>3. ASSUME Carried PROVE Carried'
  BY <1>1, <1>3 DEF Carried
<1>4. ASSUME NothingElse PROVE NothingElse'
  BY <1>1, <1>4 DEF NothingElse
<1> QED BY <1>2, <1>3, <1>4

\* HandleUpdateBlock, HandleUpdateSubChunkBlocks: client and copy will have what the server has.
LEMMA HandleBlockUpdatesAgrees ==
    ASSUME IInv, CopyInv, NEW D \in SUBSET Positions, NEW rid \in Blocks, HandleBlockUpdates([p \in D |-> rid])
    PROVE  CopyInv'
<1> DEFINE us == [p \in D |-> rid]
<1>0. Typed /\ Ordered /\ Awaited
  BY DEF IInv, CopyInv
<1>1. us \in Maps(Blocks) /\ DOMAIN us = D /\ \A p \in D : us[p] = rid
  <2>1. us \in [D -> Blocks]
    OBVIOUS
  <2> QED BY <2>1 DEF Maps
<1>2. /\ server' = Over(us, server) /\ AddPendingUpdates(us) /\ outbox' = Sent(us)
      /\ UNCHANGED <<worldVars, client, down, up, acks, ticks, backend, early, resent, through, lost>>
  BY DEF HandleBlockUpdates
<1> HIDE DEF us
<1>3. Ordered' /\ Awaited'
  BY <1>0, <1>2 DEF Ordered, Awaited, Answers
<1>4. ASSUME Regular' PROVE Loaded' /\ Carried' /\ (~resent => NothingElse' /\ Visible')
  <2>1. Regular /\ Loaded /\ Carried /\ (~resent => NothingElse /\ Visible)
    BY <1>2, <1>4 DEF Regular, CopyInv
  <2>2. Visible => Visible'
    BY <1>2 DEF Visible, Places, Answers
  <2> QED BY <1>0, <1>1, <1>2, <2>1, <2>2, AddedInLine
<1>5. ASSUME Regular', NEW p \in Positions PROVE Matches(p)'
  <2>1. Matches(p)
    BY <1>2, <1>5 DEF Regular, CopyInv
  <2>2. server'[p] = IF p \in D THEN rid ELSE server[p]
    BY <1>0, <1>1, <1>2 DEF Over, Typed, World
  <2>3. CASE p \in D
    <3>1. /\ p \in DOMAIN pending' /\ pending'[p].rid = rid /\ Ends(p, rid)' /\ Arrives(p, rid)'
      BY <1>0, <1>1, <1>2, <2>3, AddedAndTold
    <3>2. Agreed(p)'
      BY <3>1 DEF Agreed
    <3>3. Served(p)'
      BY <2>2, <2>3, <3>1 DEF Served
    <3> QED BY <3>2, <3>3 DEF Matches
  <2>4. CASE p \notin D
    <3>1. /\ (p \in DOMAIN batch' <=> p \in DOMAIN batch) /\ (p \in DOMAIN batch => batch'[p] = batch[p])
          /\ (p \in DOMAIN pending' <=> p \in DOMAIN pending) /\ (p \in DOMAIN pending => pending'[p] = pending[p])
          /\ (Silent(p)' <=> Silent(p)) /\ Block(p)' = Block(p)
          /\ \A v : (Ends(p, v)' <=> Ends(p, v)) /\ (Arrives(p, v)' <=> Arrives(p, v))
      BY <1>0, <1>1, <1>2, <2>4, AddedAndTold
    <3>2. Predicted(p)' <=> Predicted(p)
      BY <1>2 DEF Predicted, Places, Answers
    <3>3. Agreed(p) => Agreed(p)'
      BY <1>2, <3>1, <3>2 DEF Agreed
    <3>4. Served(p) => Served(p)'
      BY <1>2, <2>2, <2>4, <3>1 DEF Served
    <3> QED BY <1>2, <2>1, <3>3, <3>4 DEF Matches, Excepted
  <2> QED BY <2>3, <2>4
<1> QED BY <1>2, <1>3, <1>4, <1>5 DEF CopyInv

\* HandleLevelChunk: the chunk is what client and copy will have, where the copy was to have it anyway.
LEMMA HandleLevelChunkAgrees ==
    ASSUME IInv, CopyInv, HandleLevelChunk
    PROVE  CopyInv'
<1> DEFINE pk == [type |-> "chunk", blocks |-> server]
<1>0. Typed /\ Ordered /\ Awaited
  BY DEF IInv, CopyInv
<1>1. /\ chunk' = server /\ (chunk # Unloaded => blockUpdates' = Empty /\ resent')
      /\ outbox' = Append(outbox, pk)
      /\ UNCHANGED <<client, server, down, up, batch, acks, pending, ticks, backend, early, through, lost>>
  BY DEF HandleLevelChunk, copyVars
<1>2. Ordered' /\ Awaited'
  BY <1>0, <1>1 DEF Ordered, Awaited, Answers
<1>3. pk \in Packet /\ pk.blocks = server /\ pk.type # "reset" /\ server \in World /\ outbox \in Seq(Packet)
  BY <1>0 DEF Packet, Typed
<1> HIDE DEF pk
<1>4. \A p \in Positions : Says(pk, p) /\ Told(outbox', p) /\ Tells(outbox', p, server[p])
  <2> TAKE p \in Positions
  <2>1. Says(pk, p)
    BY <1>3 DEF Says, World
  <2> QED BY <1>1, <1>3, <2>1, ToldMore
<1>5. server # Unloaded
  BY <1>3, WorldLoaded
<1>6. ASSUME Regular' PROVE Loaded' /\ Carried' /\ resent'
  <2>1. Loaded /\ Carried
    BY <1>1, <1>6 DEF Regular, CopyInv
  <2>2. \A i \in DOMAIN outbox' : outbox'[i].type # "reset"
    BY <1>1, <1>3, <2>1 DEF Loaded
  <2>3. Loaded' /\ resent'
    BY <1>1, <1>5, <2>1, <2>2 DEF Loaded
  <2>4. Carried'
    <3>1. \A p \in DOMAIN batch : p \in Positions
      BY <1>0, MapIs DEF Typed
    <3> QED BY <1>1, <1>4, <2>1, <3>1 DEF Carried
  <2> QED BY <2>3, <2>4
<1>7. ASSUME Regular', NEW p \in Positions PROVE Matches(p)'
  <2>1. Matches(p) /\ Loaded
    BY <1>1, <1>7 DEF Regular, CopyInv
  <2>2. Block(p)' = server[p]
    BY <1>1, <1>5, <2>1, EmptyMap DEF Block, Loaded
  <2> SUFFICES ASSUME p \notin Excepted PROVE Agreed(p)' /\ Served(p)'
    BY <1>1, <1>6, <1>7 DEF Matches, Excepted
  <2>3. Served(p)
    BY <2>1 DEF Matches
  <2>4. Ends(p, server[p])'
    BY <1>1, <2>2, <2>3 DEF Served, Ends
  <2>5. Arrives(p, server[p])'
    BY <1>1, <1>4 DEF Arrives
  <2>6. server[p] \in Blocks
    BY <1>3 DEF World
  <2>7. Agreed(p)'
    BY <1>1, <2>4, <2>5, <2>6 DEF Agreed
  <2>8. Served(p)'
    BY <1>1, <2>2, <2>3, <2>4 DEF Served
  <2> QED BY <2>7, <2>8
<1> QED BY <1>2, <1>6, <1>7 DEF CopyInv

\* TransferServerConn: another backend, of which the invariant says nothing more.
LEMMA TransferServerConnAgrees ==
    ASSUME IInv, CopyInv, TransferServerConn
    PROVE  CopyInv'
<1>1. backend' = backend + 1 /\ acks' = <<>> /\ UNCHANGED <<down, up, ticks>> /\ backend \in Nat
  BY WorldAssumption DEF TransferServerConn, IInv, Typed
<1>2. ~Regular'
  BY <1>1 DEF Regular
<1>3. Ordered' /\ Awaited'
  BY <1>1 DEF CopyInv, Ordered, Awaited
<1> QED BY <1>2, <1>3 DEF CopyInv

\* Player.Tick: the batch leaves with what was told.
LEMMA PlayerTickAgrees ==
    ASSUME IInv, CopyInv, PlayerTick
    PROVE  CopyInv'
<1>0. Typed /\ Ordered /\ Awaited
  BY DEF IInv, CopyInv
<1>1. PICK expired \in SetToSeqs(Expiring), noLagComp \in {FALSE, opts.cutoff} :
          LET t == Tick(expired)
              undone == [p \in Refused(t.placements, t.placed) |-> batch[p]]
              rest == [p \in DOMAIN batch \ DOMAIN undone |-> batch[p]]
              pend == RemovePendingUpdates(pending, undone)
              set == SetBlocks(blockUpdates, undone)
          IN  /\ IF noLagComp
                 THEN /\ blockUpdates' = SetBlocks(set, rest)
                      /\ pending' = RemovePendingUpdates(pend, rest)
                      /\ acks' = Append(acks, Batch(ticks + 1, Empty))
                 ELSE /\ blockUpdates' = set /\ pending' = pend
                      /\ acks' = Append(acks, Batch(ticks + 1, rest))
              /\ early' = (early \/ undone # Empty \/ (noLagComp /\ rest # Empty))
  BY DEF PlayerTick
<1>2. /\ ticks' = ticks + 1 /\ batch' = Empty /\ outbox' = <<>>
      /\ down' = Append(down, [packets |-> outbox, id |-> ticks + 1])
      /\ UNCHANGED <<opts, chunk, client, server, up, backend, resent, through, lost>>
  BY DEF PlayerTick
<1> DEFINE t == Tick(expired)
           R == Refused(t.placements, t.placed)
           undone == [p \in R |-> batch[p]]
           rest == [p \in DOMAIN batch \ R |-> batch[p]]
           pend == RemovePendingUpdates(pending, undone)
           set == SetBlocks(blockUpdates, undone)
           new == Batch(ticks + 1, IF noLagComp THEN Empty ELSE rest)
           m == Len(acks)
           n == Len(down)
           bundle == [packets |-> outbox, id |-> ticks + 1]
<1>3. /\ blockUpdates' = IF noLagComp THEN SetBlocks(set, rest) ELSE set
      /\ pending' = IF noLagComp THEN RemovePendingUpdates(pend, rest) ELSE pend
      /\ acks' = Append(acks, new)
      /\ early' = (early \/ undone # Empty \/ (noLagComp /\ rest # Empty))
  <2>1. DOMAIN undone = R
    OBVIOUS
  <2> HIDE DEF R, t
  <2> QED BY <1>1, <2>1 DEF R, t
<1>4. /\ DOMAIN undone = R /\ DOMAIN rest = DOMAIN batch \ R /\ \A p \in DOMAIN batch \ R : rest[p] = batch[p]
  OBVIOUS
<1>5. R \subseteq DOMAIN batch
  BY DEF Refused
<1> HIDE DEF t, R
<1>6. rest \in Maps(Update) /\ batch = [p \in DOMAIN batch |-> batch[p]]
  <2>1. DOMAIN batch \ R \in SUBSET DOMAIN batch
    OBVIOUS
  <2>2. rest \in Maps(Update)
    BY <1>0, <2>1, CutMap DEF Typed
  <2>3. batch = [p \in DOMAIN batch |-> batch[p]]
    BY <1>0, MapIs DEF Typed
  <2> QED BY <2>2, <2>3
<1> HIDE DEF undone
<1>7. ASSUME ~early' PROVE undone = Empty /\ R = {} /\ rest = batch /\ (noLagComp => rest = Empty)
  <2>1. undone = Empty /\ (noLagComp => rest = Empty)
    BY <1>3, <1>7
  <2>2. R = {}
    BY <1>4, <2>1, EmptyMap
  <2>3. rest = batch
    BY <1>6, <2>2
  <2> QED BY <2>1, <2>2, <2>3
<1> HIDE DEF rest
<1>8. new \in Ack /\ new.id = ticks + 1
  <2>1. ticks + 1 \in Nat
    BY <1>0 DEF Typed
  <2>2. Empty \in Maps(Update)
    BY EmptyMap
  <2> QED BY <1>0, <1>6, <2>1, <2>2, BatchTyped
<1>9. ASSUME ~early' PROVE \A p : /\ Sets(new, p) <=> p \in DOMAIN batch
                                  /\ p \in DOMAIN batch => new.blocks[p] = batch[p]
  <2>1. ticks + 1 \in Nat /\ Empty \in Maps(Update) /\ DOMAIN Empty = {}
    BY <1>0, EmptyMap DEF Typed
  <2>2. new = Batch(ticks + 1, batch)
    BY <1>7, <1>9
  <2>3. CASE batch # Empty
    BY <1>0, <2>1, <2>2, <2>3, BatchTyped DEF Typed, Sets
  <2>4. CASE batch = Empty
    BY <1>0, <2>1, <2>2, <2>4, BatchTyped DEF Typed, Sets
  <2> QED BY <2>3, <2>4
<1>10. /\ m \in Nat /\ DOMAIN acks = 1..m /\ DOMAIN acks' = 1..(m + 1) /\ acks'[m + 1] = new
       /\ \A i \in 1..m : acks'[i] = acks[i] /\ acks[i].id \in Nat /\ acks[i].id <= ticks
  <2>1. acks \in Seq(Ack) /\ ticks \in Nat /\ \A i \in DOMAIN acks : acks[i].id \in 1..ticks
    BY <1>0 DEF Typed
  <2> HIDE DEF new
  <2>2. \A i \in DOMAIN acks : acks[i].id \in Nat /\ acks[i].id <= ticks
    BY <2>1
  <2> QED BY <1>3, <2>1, <2>2
<1>11. /\ n \in Nat /\ DOMAIN down = 1..n /\ DOMAIN down' = 1..(n + 1) /\ down'[n + 1] = bundle
       /\ \A k \in 1..n : down'[k] = down[k] /\ down[k].id \in Nat /\ down[k].id <= ticks
  <2>1. down \in Seq(Bundle) /\ \A k \in DOMAIN down : down[k] \in Bundle /\ down[k].id <= ticks
    BY <1>0 DEF Typed, Ordered
  <2>2. \A k \in DOMAIN down : down[k].id \in Nat
    BY <2>1 DEF Bundle
  <2> HIDE DEF bundle
  <2> QED BY <1>2, <2>1, <2>2 DEF bundle
<1>12. bundle.id = ticks + 1 /\ bundle.packets = outbox /\ ticks \in Nat /\ ticks < ticks + 1
  BY <1>0 DEF Typed
<1>13. \A k \in DOMAIN up : up[k].type = "ack" => up[k].id \in Nat /\ up[k].id <= ticks
  <2> TAKE k \in DOMAIN up
  <2>1. up[k] \in Click \cup Answer /\ (up[k].type = "ack" => up[k].id <= ticks)
    BY <1>0 DEF Typed, Ordered
  <2> QED BY <2>1 DEF Click, Answer
<1> HIDE DEF new, m, n, bundle
<1>14. DOMAIN acks' = DOMAIN acks \cup {m + 1} /\ m + 1 \notin DOMAIN acks
       /\ \A i \in DOMAIN acks : i < m + 1 /\ ~(m + 1 < i)
  BY <1>10
<1>15. DOMAIN down' = DOMAIN down \cup {n + 1} /\ n + 1 \notin DOMAIN down
       /\ \A k \in DOMAIN down : k < n + 1 /\ ~(n + 1 < k)
  BY <1>11
<1>16. Ordered'
  <2>1. \A i, j \in DOMAIN acks' : i < j => acks'[i].id < acks'[j].id
    <3> TAKE i, j \in DOMAIN acks'
    <3>1. CASE i \in DOMAIN acks /\ j \in DOMAIN acks
      BY <1>0, <1>10, <3>1 DEF Ordered
    <3>2. CASE i \in DOMAIN acks /\ j = m + 1
      BY <1>8, <1>10, <1>12, <3>2
    <3>3. CASE i = m + 1
      <4>1. ~(m + 1 < m + 1)
        BY <1>10
      <4> QED BY <1>14, <3>3, <4>1
    <3> QED BY <1>14, <3>1, <3>2, <3>3
  <2>2. \A k, l \in DOMAIN down' : k < l => down'[k].id < down'[l].id
    <3> TAKE k, l \in DOMAIN down'
    <3>1. CASE k \in DOMAIN down /\ l \in DOMAIN down
      BY <1>0, <1>11, <3>1 DEF Ordered
    <3>2. CASE k \in DOMAIN down /\ l = n + 1
      BY <1>11, <1>12, <3>2
    <3>3. CASE k = n + 1
      <4>1. ~(n + 1 < n + 1)
        BY <1>11
      <4> QED BY <1>15, <3>3, <4>1
    <3> QED BY <1>15, <3>1, <3>2, <3>3
  <2>3. \A k \in DOMAIN up, l \in DOMAIN down' : up[k].type = "ack" => up[k].id < down'[l].id
    <3> TAKE k \in DOMAIN up, l \in DOMAIN down'
    <3>1. CASE l \in DOMAIN down
      BY <1>0, <1>11, <3>1 DEF Ordered
    <3>2. CASE l = n + 1
      BY <1>11, <1>12, <1>13, <3>2
    <3> QED BY <1>15, <3>1, <3>2
  <2>4. \A k \in DOMAIN up : up[k].type = "ack" => up[k].id <= ticks + 1
    BY <1>12, <1>13
  <2>5. \A k \in DOMAIN down' : down'[k].id <= ticks + 1
    BY <1>11, <1>12, <1>15
  <2> QED BY <1>0, <1>2, <2>1, <2>2, <2>3, <2>4, <2>5 DEF Ordered
<1>17. Awaited'
  <2> SUFFICES ASSUME NEW i \in DOMAIN acks'
               PROVE  \/ \E k \in DOMAIN down' : down'[k].id = acks'[i].id
                      \/ \E k \in DOMAIN up : up[k].type = "ack" /\ up[k].id = acks'[i].id
    BY <1>2 DEF Awaited, Answers
  <2>1. CASE i \in DOMAIN acks
    BY <1>0, <1>10, <1>11, <1>15, <2>1, SMTT(40) DEF Awaited, Answers
  <2>2. CASE i = m + 1
    BY <1>8, <1>10, <1>11, <1>12, <1>15, <2>2
  <2> QED BY <1>14, <2>1, <2>2
<1> DEFINE Goal == /\ Loaded' /\ Carried' /\ (~resent' => NothingElse' /\ Visible')
                   /\ \A p \in Positions : Matches(p)'
<1>18. ASSUME Regular' PROVE Goal
  <2>0. ~early' /\ Regular /\ Loaded /\ Carried /\ (~resent => NothingElse /\ Visible) /\ \A p \in Positions : Matches(p)
    BY <1>2, <1>3, <1>18 DEF Regular, CopyInv
  <2>1. \A p : ~Told(outbox', p) /\ \A v : ~Tells(outbox', p, v)
    BY <1>2, NothingTold
  <2>2. batch' = Empty /\ DOMAIN batch' = {}
    BY <1>2, EmptyMap
  <2>3. \A p : Block(p)' = Block(p)
    <3>1. \A w \in {blockUpdates} : SetBlocks(w, Empty) = [p \in DOMAIN w |-> w[p]]
      BY EmptyMap DEF SetBlocks, Over
    <3>2. blockUpdates = [p \in DOMAIN blockUpdates |-> blockUpdates[p]]
      BY <1>0, MapIs DEF Typed
    <3>3. SetBlocks(blockUpdates, Empty) = blockUpdates
      BY <3>1, <3>2
    <3>4. blockUpdates' = blockUpdates
      BY <1>3, <1>7, <2>0, <3>3
    <3> QED BY <1>2, <3>4 DEF Block
  <2>4. pending' = pending
    <3>1. RemovePendingUpdates(pending, Empty) = [p \in DOMAIN pending |-> pending[p]]
      BY EmptyMap DEF RemovePendingUpdates
    <3>2. pending = [p \in DOMAIN pending |-> pending[p]]
      BY <1>0, MapIs DEF Typed
    <3>3. RemovePendingUpdates(pending, Empty) = pending
      BY <3>1, <3>2
    <3> QED BY <1>3, <1>7, <2>0, <3>3
  <2>5. \A p : /\ Sets(new, p) <=> p \in DOMAIN batch
               /\ p \in DOMAIN batch => new.blocks[p] = batch[p]
    BY <1>9, <2>0
  <2>6. ASSUME NEW p, NEW v, Ends(p, v) PROVE Ends(p, v)'
    <3>1. CASE p \in DOMAIN batch /\ batch[p].rid = v
      <4>1. Sets(acks'[m + 1], p) /\ acks'[m + 1].blocks[p].rid = v /\ m + 1 \in DOMAIN acks'
        BY <1>10, <1>14, <2>5, <3>1
      <4>2. \A j \in DOMAIN acks' : ~(j > m + 1)
        BY <1>10
      <4>3. LastSet(acks', p, v)
        BY <4>1, <4>2 DEF LastSet
      <4> QED BY <2>2, <4>3 DEF Ends
    <3>2. CASE p \notin DOMAIN batch /\ LastSet(acks, p, v)
      <4>1. ~Sets(acks'[m + 1], p)
        BY <1>10, <2>5, <3>2
      <4>2. PICK i \in DOMAIN acks : /\ Sets(acks[i], p) /\ acks[i].blocks[p].rid = v
                                     /\ \A j \in DOMAIN acks : j > i => ~Sets(acks[j], p)
        BY <3>2 DEF LastSet
      <4>3. i \in DOMAIN acks' /\ Sets(acks'[i], p) /\ acks'[i].blocks[p].rid = v
        BY <1>10, <1>14, <4>2
      <4>4. \A j \in DOMAIN acks' : j > i => ~Sets(acks'[j], p)
        BY <1>10, <1>14, <4>1, <4>2
      <4>5. LastSet(acks', p, v)
        BY <4>3, <4>4 DEF LastSet
      <4> QED BY <2>2, <4>5 DEF Ends
    <3>3. CASE p \notin DOMAIN batch /\ (\A i \in DOMAIN acks : ~Sets(acks[i], p)) /\ Block(p) = v
      <4>1. \A i \in DOMAIN acks' : ~Sets(acks'[i], p)
        BY <1>10, <1>14, <2>5, <3>3
      <4> QED BY <2>2, <2>3, <3>3, <4>1 DEF Ends
    <3> QED BY <2>6, <3>1, <3>2, <3>3 DEF Ends
  <2>7. ASSUME NEW p, NEW v, Arrives(p, v) PROVE Arrives(p, v)'
    <3>1. CASE Tells(outbox, p, v)
      <4>1. n + 1 \in DOMAIN down' /\ Tells(down'[n + 1].packets, p, v)
        BY <1>11, <1>12, <1>15, <3>1
      <4>2. \A l \in DOMAIN down' : ~(l > n + 1)
        BY <1>11
      <4> QED BY <2>1, <4>1, <4>2 DEF Arrives
    <3>2. ASSUME ~Told(outbox, p), NEW k \in DOMAIN down, Tells(down[k].packets, p, v),
                 \A l \in DOMAIN down : l > k => ~Told(down[l].packets, p)
          PROVE  Arrives(p, v)'
      <4>1. k \in DOMAIN down' /\ Tells(down'[k].packets, p, v)
        BY <1>11, <1>15, <3>2
      <4>2. \A l \in DOMAIN down' : l > k => ~Told(down'[l].packets, p)
        BY <1>11, <1>12, <1>15, <3>2
      <4> QED BY <2>1, <4>1, <4>2 DEF Arrives
    <3> QED BY <2>7, <3>1, <3>2 DEF Arrives
  <2>8. ASSUME NEW p, Silent(p) PROVE Silent(p)'
    BY <1>11, <1>12, <1>15, <2>1, <2>8 DEF Silent
  <2>9. ASSUME NEW p, Silent(p), Predicted(p) PROVE Predicted(p)'
    <3>1. p \notin DOMAIN batch
      BY <2>0, <2>9 DEF Carried, Silent
    <3>2. PICK k \in DOMAIN up : /\ Places(k, p)
                                 /\ \A i \in DOMAIN acks : Sets(acks[i], p) => \E l \in DOMAIN up : l < k /\ Answers(l, i)
      BY <2>9 DEF Predicted
    <3>3. \A i \in DOMAIN acks' : Sets(acks'[i], p) => \E l \in DOMAIN up : l < k /\ Answers(l, i)'
      <4> SUFFICES ASSUME NEW i \in DOMAIN acks', Sets(acks'[i], p)
                   PROVE  \E l \in DOMAIN up : l < k /\ Answers(l, i)'
        OBVIOUS
      <4>1. i \in DOMAIN acks /\ acks'[i] = acks[i]
        BY <1>10, <1>14, <2>5, <3>1
      <4> QED BY <1>2, <3>2, <4>1 DEF Answers
    <3> QED BY <1>2, <2>9, <3>2, <3>3 DEF Predicted, Places
  <2>10. ASSUME NEW p \in Positions PROVE Matches(p)'
    <3>1. Agreed(p) => Agreed(p)'
      BY <1>2, <2>6, <2>7, <2>8, <2>9 DEF Agreed
    <3>2. Served(p) => Served(p)'
      <4> SUFFICES ASSUME Served(p) PROVE Served(p)'
        OBVIOUS
      <4>1. Ends(p, server[p])'
        BY <1>2, <2>6 DEF Served
      <4>2. ASSUME p \notin DOMAIN pending
            PROVE  \A i \in DOMAIN acks' : Sets(acks'[i], p) => acks'[i].blocks[p].rid = server[p]
        BY <1>10, <1>14, <2>5, <4>2 DEF Served
      <4> QED BY <1>2, <2>2, <2>3, <2>4, <4>1, <4>2 DEF Served
    <3> QED BY <1>2, <2>0, <3>1, <3>2 DEF Matches, Excepted
  <2>11. Loaded'
    BY <1>2, <1>11, <1>12, <1>15, <2>0 DEF Loaded
  <2>12. Carried'
    <3>1. ASSUME NEW i \in DOMAIN acks', NEW k \in DOMAIN down', NEW p \in Positions,
                 down'[k].id = acks'[i].id, Sets(acks'[i], p)
          PROVE  Told(down'[k].packets, p)
      <4>1. CASE i \in DOMAIN acks /\ k \in DOMAIN down
        BY <1>10, <1>11, <2>0, <3>1, <4>1 DEF Carried
      <4>2. CASE i = m + 1 /\ k = n + 1
        BY <1>10, <1>11, <1>12, <2>0, <2>5, <3>1, <4>2 DEF Carried
      <4>3. CASE i = m + 1 /\ k \in DOMAIN down
        BY <1>8, <1>10, <1>11, <1>12, <3>1, <4>3
      <4>4. CASE i \in DOMAIN acks /\ k = n + 1
        BY <1>8, <1>10, <1>11, <1>12, <3>1, <4>4
      <4> QED BY <1>14, <1>15, <4>1, <4>2, <4>3, <4>4
    <3> QED BY <2>2, <3>1 DEF Carried
  <2>13. ASSUME NothingElse PROVE NothingElse'
    <3>1. ASSUME NEW k \in DOMAIN down', NEW p \in Positions, Told(down'[k].packets, p)
          PROVE  \E i \in DOMAIN acks' : acks'[i].id = down'[k].id /\ Sets(acks'[i], p)
      <4>1. CASE k \in DOMAIN down
        BY <1>10, <1>11, <1>14, <2>13, <3>1, <4>1, SMTT(40) DEF NothingElse
      <4>2. CASE k = n + 1
        BY <1>8, <1>10, <1>11, <1>12, <1>14, <2>5, <2>13, <3>1, <4>2 DEF NothingElse
      <4> QED BY <1>15, <4>1, <4>2
    <3> QED BY <2>1, <3>1 DEF NothingElse
  <2>14. ASSUME Visible PROVE Visible'
    <3> SUFFICES ASSUME NEW k \in DOMAIN up, NEW p \in Positions, Places(k, p)
                 PROVE  \/ client[p] = "stone"
                        \/ \E i \in DOMAIN acks' : Sets(acks'[i], p) /\ \E l \in DOMAIN up : l > k /\ Answers(l, i)'
      BY <1>2 DEF Visible, Places
    <3>1. ASSUME NEW i \in DOMAIN acks, Sets(acks[i], p), NEW l \in DOMAIN up, l > k, Answers(l, i)
          PROVE  \E j \in DOMAIN acks' : Sets(acks'[j], p) /\ \E q \in DOMAIN up : q > k /\ Answers(q, j)'
      <4>1. acks'[i] = acks[i] /\ i \in DOMAIN acks'
        BY <1>10, <1>14
      <4> QED BY <1>2, <3>1, <4>1 DEF Answers
    <3> QED BY <2>14, <3>1 DEF Visible
  <2> QED BY <1>2, <2>0, <2>10, <2>11, <2>12, <2>13, <2>14
<1> QED BY <1>16, <1>17, <1>18 DEF CopyInv

-----------------------------------------------------------------------------
(* the acknowledgements, and the copy *)

\* Tick of the acknowledgements: nothing runs, as long as none has waited too long.
LEMMA ClientTickAgrees ==
    ASSUME IInv, CopyInv, ClientTick
    PROVE  CopyInv'
<1>0. Typed /\ Ordered /\ Awaited
  BY DEF IInv, CopyInv
<1> DEFINE older == [i \in DOMAIN acks |-> IF acks[i].valid THEN [acks[i] EXCEPT !.expiresIn = @ - 1]
                                          ELSE acks[i]]
           due(i) == older[i].valid /\ older[i].expiresIn <= 0
           done(i) == Batch(acks[i].id, Empty)
           as == [i \in DOMAIN acks |-> IF due(i) THEN older[i] ELSE done(i)]
           m == Len(acks)
<1>1. /\ acks' = [i \in DOMAIN acks |-> IF due(i) THEN done(i) ELSE older[i]]
      /\ blockUpdates' = RunAll(as).set /\ pending' = RunAll(as).pending
      /\ early' = (early \/ \E i \in DOMAIN acks : due(i)) /\ \E L : lost' = lost \cup L
      /\ UNCHANGED <<chunk, client, server, outbox, down, up, batch, ticks, backend, resent, through>>
  BY DEF ClientTick
<1>2. m \in Nat /\ DOMAIN acks = 1..m /\ \A i \in 1..m : acks[i] \in Ack /\ acks[i].id \in Nat
  <2>1. m \in Nat /\ DOMAIN acks = 1..m /\ \A i \in 1..m : acks[i] \in Ack
    BY <1>0 DEF Typed
  <2> HIDE DEF m, older, as
  <2> QED BY <2>1 DEF Ack
<1> HIDE DEF m
<1>3. \A i \in 1..m : /\ older[i].id = acks[i].id /\ older[i].valid = acks[i].valid
                      /\ older[i].blocks = acks[i].blocks
  <2> TAKE i \in 1..m
  <2>1. acks[i] \in Ack
    BY <1>2
  <2>2. CASE acks[i].valid
    <3> DEFINE e == acks[i].expiresIn - 1
    <3>1. older[i] = [acks[i] EXCEPT !.expiresIn = e]
      BY <1>2, <2>2
    <3> HIDE DEF older, e
    <3> QED BY <2>1, <3>1 DEF Ack
  <2>3. CASE ~acks[i].valid
    BY <1>2, <2>1, <2>3
  <2> QED BY <2>2, <2>3
<1> HIDE DEF older
<1>4. \A i \in 1..m : done(i).id = acks[i].id /\ ~done(i).valid /\ done(i).blocks = Empty
  BY <1>0, <1>2, EmptyMap, BatchTyped
<1> HIDE DEF done, due
<1>5. DOMAIN as = 1..m /\ \A i \in 1..m : as[i] = IF due(i) THEN older[i] ELSE done(i)
  BY <1>2
<1>6. DOMAIN acks' = 1..m /\ \A i \in 1..m : acks'[i] = IF due(i) THEN done(i) ELSE older[i]
  BY <1>1, <1>2
<1> HIDE DEF as
<1>7. \A i \in 1..m : acks'[i].id = acks[i].id
  BY <1>3, <1>4, <1>6
<1>8. Ordered' /\ Awaited'
  <2>1. Ordered'
    BY <1>0, <1>1, <1>2, <1>6, <1>7 DEF Ordered
  <2>2. \A i \in 1..m : \A k \in DOMAIN up : Answers(k, i)' <=> Answers(k, i)
    BY <1>1, <1>7 DEF Answers
  <2>3. Awaited'
    BY <1>0, <1>1, <1>2, <1>6, <1>7, <2>2 DEF Awaited
  <2> QED BY <2>1, <2>3
<1>9. ASSUME Regular'
      PROVE  Loaded' /\ Carried' /\ (~resent' => NothingElse' /\ Visible') /\ \A p \in Positions : Matches(p)'
  <2>0. Regular /\ Loaded /\ Carried /\ (~resent => NothingElse /\ Visible) /\ \A p \in Positions : Matches(p)
    BY <1>1, <1>9 DEF Regular, CopyInv
  <2>1. \A i \in 1..m : ~due(i)
    BY <1>1, <1>2, <1>9 DEF Regular
  <2>2. \A i \in 1..m : acks'[i].blocks = acks[i].blocks /\ \A p : Sets(acks'[i], p) <=> Sets(acks[i], p)
    BY <1>3, <1>6, <2>1 DEF Sets
  <2>3. \A i \in 1..m : \A p : ~Sets(as[i], p)
    BY <1>4, <1>5, <2>1 DEF Sets
  <2>4. \A i \in 1..m : as[i].blocks \in Maps(Update)
    BY <1>4, <1>5, <2>1, EmptyMap
  <2>5. ASSUME NEW p \in Positions
        PROVE  /\ Block(p)' = Block(p)
               /\ (p \in DOMAIN pending' <=> p \in DOMAIN pending) /\ (p \in DOMAIN pending => pending'[p] = pending[p])
    <3>0. pending \in Maps(Update)
      BY <1>0 DEF Typed
    <3>1. LET r == RunAll(as)
          IN  /\ p \in DOMAIN r.set <=> p \in DOMAIN blockUpdates
              /\ p \in DOMAIN blockUpdates => r.set[p] = blockUpdates[p]
              /\ ~(p \in DOMAIN pending \ DOMAIN r.pending)
      BY <1>2, <1>5, <2>3, <2>4, <2>5, <3>0, RunAllSets, ZenonT(40)
    <3>2. DOMAIN pending' \subseteq DOMAIN pending /\ \A q \in DOMAIN pending' : pending'[q] = pending[q]
      BY <1>0, <1>1, <1>2, <1>5, <2>4, RunAllKeeps DEF Typed
    <3> QED BY <1>1, <3>1, <3>2 DEF Block
  <2>6. \A i \in 1..m : \A k \in DOMAIN up : Answers(k, i)' <=> Answers(k, i)
    BY <1>1, <1>7 DEF Answers
  <2>7. ASSUME NEW p \in Positions PROVE Matches(p)'
    <3>1. \A v : Ends(p, v) => Ends(p, v)'
      <4> TAKE v
      <4>1. LastSet(acks, p, v) => LastSet(acks', p, v)
        BY <1>2, <1>6, <2>2 DEF LastSet
      <4> QED BY <1>1, <1>2, <1>6, <2>2, <2>5, <2>7, <4>1 DEF Ends
    <3>2. (Silent(p)' <=> Silent(p)) /\ \A v : Arrives(p, v)' <=> Arrives(p, v)
      BY <1>1 DEF Silent, Arrives
    <3>3. Predicted(p) => Predicted(p)'
      BY <1>1, <1>2, <1>6, <2>2, <2>6 DEF Predicted, Places
    <3>4. Agreed(p) => Agreed(p)'
      BY <1>1, <3>1, <3>2, <3>3 DEF Agreed
    <3>5. Served(p) => Served(p)'
      BY <1>1, <1>2, <1>6, <2>2, <2>5, <2>7, <3>1 DEF Served
    <3>6. p \notin Excepted' => p \notin Excepted
      BY <1>1 DEF Excepted
    <3> QED BY <1>1, <2>0, <3>4, <3>5, <3>6 DEF Matches
  <2>8. Loaded'
    BY <1>1, <2>0 DEF Loaded
  <2>9. Carried'
    BY <1>1, <1>2, <1>6, <1>7, <2>0, <2>2 DEF Carried
  <2>10. NothingElse => NothingElse'
    BY <1>1, <1>2, <1>6, <1>7, <2>2 DEF NothingElse
  <2>11. Visible => Visible'
    BY <1>1, <1>2, <1>6, <2>2, <2>6 DEF Visible, Places
  <2> QED BY <1>1, <2>0, <2>7, <2>8, <2>9, <2>10, <2>11
<1> QED BY <1>8, <1>9 DEF CopyInv

\* The packets of the client behind the first.
LEMMA Behind ==
    ASSUME Typed, up # <<>>, up' = Tail(up)
    PROVE  /\ 1 \in DOMAIN up /\ Head(up) = up[1]
           /\ \A k \in DOMAIN up' : k + 1 \in DOMAIN up /\ up'[k] = up[k + 1]
           /\ \A k \in DOMAIN up : k = 1 \/ (k - 1 \in DOMAIN up' /\ up'[k - 1] = up[k])
           /\ \A k \in DOMAIN up : k \in Nat \ {0}
           /\ DOMAIN up' \subseteq Nat \ {0}
<1>1. up \in Seq(Click \cup Answer)
  BY DEF Typed
<1>2. /\ Len(up) \in Nat \ {0} /\ DOMAIN up = 1..Len(up) /\ DOMAIN up' = 1..(Len(up) - 1) /\ Head(up) = up[1]
      /\ \A k \in 1..(Len(up) - 1) : up'[k] = up[k + 1]
  BY <1>1
<1>3. \A k \in 1..(Len(up) - 1) : k + 1 \in 1..Len(up)
  BY <1>2
<1>4. \A k \in 1..Len(up) : k = 1 \/ (k - 1 \in 1..(Len(up) - 1) /\ (k - 1) + 1 = k)
  BY <1>2
<1>5. \A k \in DOMAIN up : k = 1 \/ (k - 1 \in DOMAIN up' /\ up'[k - 1] = up[k])
  BY <1>2, <1>4
<1> QED BY <1>2, <1>3, <1>5

\* The first packet of the client is handled, and the first s acknowledgements are run if it answers them.
LEMMA FirstHandled ==
    ASSUME Typed, Ordered, Awaited, up # <<>>, up' = Tail(up), UNCHANGED <<down, ticks, client>>,
           NEW m, m = Len(acks), NEW s \in 0..m, DOMAIN acks' = 1..(m - s),
           \A i \in 1..(m - s) : acks'[i] = acks[i + s],
           Head(up).type = "ack" => \A i \in DOMAIN acks' : acks'[i].id # Head(up).id,
           \A i \in 1..s : Head(up).type = "ack" /\ acks[i].id <= Head(up).id
    PROVE  /\ Ordered' /\ Awaited' /\ (Visible => Visible')
           /\ \A p : Predicted(p) => Predicted(p)' \/ (Places(1, p) /\ \A i \in DOMAIN acks : ~Sets(acks[i], p))
<1>1. /\ 1 \in DOMAIN up /\ Head(up) = up[1]
      /\ \A k \in DOMAIN up' : k + 1 \in DOMAIN up /\ up'[k] = up[k + 1]
      /\ \A k \in DOMAIN up : k = 1 \/ (k - 1 \in DOMAIN up' /\ up'[k - 1] = up[k])
      /\ \A k \in DOMAIN up : k \in Nat \ {0}
      /\ DOMAIN up' \subseteq Nat \ {0}
  BY Behind
<1>2. m \in Nat /\ DOMAIN acks = 1..m /\ \A i \in 1..m : acks[i].id \in Nat
  BY DEF Typed
<1>3. /\ \A i \in 1..(m - s) : i + s \in 1..m /\ i + s \notin 1..s
      /\ \A i \in 1..m : i \in 1..s \/ (i - s \in 1..(m - s) /\ acks'[i - s] = acks[i])
  <2>1. \A i \in 1..(m - s) : i + s \in 1..m /\ i + s \notin 1..s
    BY <1>2
  <2>2. \A i \in 1..m : i \in 1..s \/ (i - s \in 1..(m - s) /\ (i - s) + s = i)
    BY <1>2
  <2>3. \A i \in 1..m : i \in 1..s \/ acks'[i - s] = acks[i]
    BY <2>2
  <2> QED BY <2>1, <2>2, <2>3
<1>4. ASSUME NEW l \in DOMAIN up, NEW i \in 1..m, Answers(l, i), l # 1
      PROVE  i \notin 1..s /\ i - s \in DOMAIN acks' /\ acks'[i - s] = acks[i] /\ Answers(l - 1, i - s)'
  <2>1. ASSUME i \in 1..s PROVE FALSE
    <3>1. up[1].type = "ack" /\ acks[i].id <= up[1].id
      BY <1>1, <2>1
    <3>2. 1 < l /\ up[l].type = "ack" /\ up[l].id = acks[i].id
      BY <1>1, <1>4 DEF Answers
    <3>3. up[1].id < up[l].id
      BY <1>1, <3>1, <3>2 DEF Ordered
    <3>4. up[1].id \in Nat
      <4>1. up[1] \in Click \cup Answer
        BY <1>1 DEF Typed
      <4> QED BY <3>1, <4>1 DEF Click, Answer
    <3> QED BY <1>2, <3>1, <3>2, <3>3, <3>4
  <2>2. i - s \in 1..(m - s) /\ acks'[i - s] = acks[i]
    BY <1>3, <2>1
  <2>3. up'[l - 1] = up[l]
    BY <1>1, <1>4
  <2> QED BY <1>4, <2>1, <2>2, <2>3 DEF Answers
<1>5. ASSUME NEW l \in DOMAIN up, NEW i \in DOMAIN acks', Answers(l, i + s) PROVE l # 1
  <2>1. acks'[i] = acks[i + s] /\ (acks'[i].id # Head(up).id \/ Head(up).type # "ack")
    OBVIOUS
  <2> QED BY <1>1, <1>5, <2>1 DEF Answers
<1>6. Ordered'
  <2>1. \A i, j \in DOMAIN acks' : i < j => acks'[i].id < acks'[j].id
    <3> TAKE i, j \in DOMAIN acks'
    <3>1. i + s \in 1..m /\ j + s \in 1..m /\ (i < j => i + s < j + s)
      BY <1>2, <1>3
    <3> QED BY <1>2, <3>1 DEF Ordered
  <2>2. \A k, l \in DOMAIN up' : k < l /\ up'[k].type = "ack" /\ up'[l].type = "ack" => up'[k].id < up'[l].id
    <3> TAKE k, l \in DOMAIN up'
    <3>1. k + 1 \in DOMAIN up /\ l + 1 \in DOMAIN up /\ (k < l => k + 1 < l + 1)
      BY <1>1
    <3> QED BY <1>1, <3>1 DEF Ordered
  <2>3. \A k \in DOMAIN up' : up'[k].type = "ack" => up'[k].id <= ticks' /\ \A l \in DOMAIN down' : up'[k].id < down'[l].id
    BY <1>1 DEF Ordered
  <2> QED BY <2>1, <2>2, <2>3 DEF Ordered
<1>7. Awaited'
  <2> SUFFICES ASSUME NEW i \in DOMAIN acks', ~\E k \in DOMAIN down' : down'[k].id = acks'[i].id
               PROVE  \E k \in DOMAIN up' : Answers(k, i)'
    BY DEF Awaited
  <2>1. i + s \in 1..m /\ acks'[i] = acks[i + s] /\ (i + s) - s = i
    BY <1>2, <1>3
  <2>2. PICK k \in DOMAIN up : Answers(k, i + s)
    BY <1>2, <2>1 DEF Awaited
  <2>3. k # 1
    BY <1>5, <2>2
  <2>4. Answers(k - 1, i)'
    BY <1>4, <2>1, <2>2, <2>3
  <2> QED BY <1>1, <2>3, <2>4
<1>8. ASSUME Visible PROVE Visible'
  <2> SUFFICES ASSUME NEW k \in DOMAIN up', NEW p \in Positions, Places(k, p)', client'[p] # "stone"
               PROVE  \E i \in DOMAIN acks' : Sets(acks'[i], p) /\ \E l \in DOMAIN up' : l > k /\ Answers(l, i)'
    BY DEF Visible, Sets
  <2>1. k + 1 \in DOMAIN up /\ Places(k + 1, p) /\ k \in Nat
    BY <1>1 DEF Places
  <2>2. PICK i \in DOMAIN acks : Sets(acks[i], p) /\ \E l \in DOMAIN up : l > k + 1 /\ Answers(l, i)
    BY <1>8, <2>1 DEF Visible
  <2>3. PICK l \in DOMAIN up : l > k + 1 /\ Answers(l, i)
    BY <2>2
  <2>4. l # 1 /\ l - 1 > k /\ l - 1 \in DOMAIN up'
    BY <1>1, <2>1, <2>3
  <2>5. i - s \in DOMAIN acks' /\ acks'[i - s] = acks[i] /\ Answers(l - 1, i - s)'
    BY <1>2, <1>4, <2>3, <2>4
  <2> QED BY <2>2, <2>4, <2>5
<1>9. ASSUME NEW p, Predicted(p), ~(Places(1, p) /\ \A i \in DOMAIN acks : ~Sets(acks[i], p))
      PROVE  Predicted(p)'
  <2>1. PICK k \in DOMAIN up :
          /\ Places(k, p)
          /\ \A i \in DOMAIN acks : Sets(acks[i], p) => \E l \in DOMAIN up : l < k /\ Answers(l, i)
    BY <1>9 DEF Predicted
  <2>2. k # 1
    <3>1. \A l \in DOMAIN up : ~(l < 1)
      BY <1>1
    <3> QED BY <1>9, <2>1, <3>1
  <2>3. k - 1 \in DOMAIN up' /\ up'[k - 1] = up[k] /\ Places(k - 1, p)'
    BY <1>1, <2>1, <2>2 DEF Places
  <2>4. ASSUME NEW i \in DOMAIN acks', Sets(acks'[i], p)
        PROVE  \E l \in DOMAIN up' : l < k - 1 /\ Answers(l, i)'
    <3>1. i + s \in 1..m /\ acks'[i] = acks[i + s] /\ (i + s) - s = i
      BY <1>2, <1>3
    <3>2. PICK l \in DOMAIN up : l < k /\ Answers(l, i + s)
      BY <1>2, <2>1, <2>4, <3>1
    <3>3. l # 1
      BY <1>5, <3>2
    <3>4. Answers(l - 1, i)'
      BY <1>4, <3>1, <3>2, <3>3
    <3>5. l - 1 < k - 1 /\ l - 1 \in DOMAIN up'
      BY <1>1, <3>2, <3>3
    <3> QED BY <3>4, <3>5
  <2>5. client'[p] = "stone"
    BY <1>9 DEF Predicted
  <2> QED BY <2>3, <2>4, <2>5 DEF Predicted
<1> QED BY <1>6, <1>7, <1>8, <1>9

\* What follows after the first n.
LEMMA RestIs ==
    ASSUME NEW S, NEW s \in Seq(S), NEW n \in 1..Len(s)
    PROVE  SubSeq(s, n + 1, Len(s)) = [i \in 1..(Len(s) - n) |-> s[i + n]]
<1> DEFINE m == Len(s)
           t == SubSeq(s, n + 1, m)
<1>1. m \in Nat /\ n \in Nat /\ m - n \in Nat
  OBVIOUS
<1>2. t = [i \in 1..(m - (n + 1) + 1) |-> s[n + 1 + i - 1]]
  <2>1. n + 1 \in 1..(m + 1)
    BY <1>1
  <2> HIDE DEF m
  <2> QED BY <1>1, <2>1
<1>3. m - (n + 1) + 1 = m - n /\ \A i \in 1..(m - n) : n + 1 + i - 1 = i + n
  <2> HIDE DEF m
  <2> QED BY <1>1
<1> HIDE DEF m, t
<1>4. t = [i \in 1..(m - n) |-> s[i + n]]
  BY <1>2, <1>3
<1> QED BY <1>4 DEF t, m

\* The client's answer: what the acknowledgements were to set is set, and where nothing is pending any more
\* nothing else is coming.
LEMMA ExecuteACKAgrees ==
    ASSUME IInv, CopyInv, ExecuteACK
    PROVE  CopyInv'
<1>0. Typed /\ Ordered /\ Awaited
  BY DEF IInv, CopyInv
<1> DEFINE m == Len(acks)
<1>1. /\ up # <<>> /\ Head(up).type = "ack" /\ up' = Tail(up)
      /\ UNCHANGED <<opts, chunk, client, server, outbox, down, batch, ticks, backend, early, resent, through>>
  BY DEF ExecuteACK
<1>2. m \in Nat /\ DOMAIN acks = 1..m /\ \A i \in 1..m : acks[i] \in Ack /\ acks[i].id \in Nat
  BY <1>0 DEF Typed
<1>3. /\ 1 \in DOMAIN up /\ Head(up) = up[1] /\ \A p : ~Places(1, p)
  BY <1>0, <1>1, Behind DEF Places
\* What follows when the first s of them have run.
<1>4. ASSUME NEW s \in 0..m, DOMAIN acks' = 1..(m - s), \A i \in 1..(m - s) : acks'[i] = acks[i + s] /\ i + s \in 1..m,
             \A i \in 1..m : i \in 1..s \/ (i - s \in 1..(m - s) /\ acks'[i - s] = acks[i]),
             \A i \in 1..(m - s) : acks'[i].id # Head(up).id,
             \A i \in 1..s : acks[i].id <= Head(up).id,
             \E L : lost' = lost \cup L,
             Regular' => \A p \in Positions \ Excepted' : Served(p) => Served(p)',
             Regular' => \A p \in Positions : \A v : Ends(p, v) => Ends(p, v)'
      PROVE  CopyInv'
  <2>1. /\ Ordered' /\ Awaited' /\ (Visible => Visible')
        /\ \A p : Predicted(p) => Predicted(p)'
    BY <1>0, <1>1, <1>2, <1>3, <1>4, FirstHandled
  <2>2. ASSUME Regular'
        PROVE  Loaded' /\ Carried' /\ (~resent' => NothingElse' /\ Visible') /\ \A p \in Positions : Matches(p)'
    <3>1. Loaded /\ Carried /\ (~resent => NothingElse /\ Visible) /\ \A p \in Positions : Matches(p)
      BY <1>1, <2>2 DEF Regular, CopyInv
    <3>2. Loaded'
      BY <1>1, <3>1 DEF Loaded
    <3>3. Carried'
      <4>1. \A p \in DOMAIN batch' : Told(outbox', p)
        BY <1>1, <3>1 DEF Carried
      <4>2. ASSUME NEW i \in DOMAIN acks', NEW k \in DOMAIN down', NEW p \in Positions,
                   down'[k].id = acks'[i].id, Sets(acks'[i], p)
            PROVE  Told(down'[k].packets, p)
        <5>1. i + s \in DOMAIN acks /\ acks'[i] = acks[i + s]
          BY <1>2, <1>4
        <5> QED BY <1>1, <3>1, <4>2, <5>1 DEF Carried
      <4> QED BY <4>1, <4>2 DEF Carried, Sets
    <3>4. ASSUME NothingElse PROVE NothingElse'
      <4>1. \A p \in Positions : Told(outbox', p) => p \in DOMAIN batch'
        BY <1>1, <3>4 DEF NothingElse
      <4>2. ASSUME NEW k \in DOMAIN down', NEW p \in Positions, Told(down'[k].packets, p)
            PROVE  \E i \in DOMAIN acks' : acks'[i].id = down'[k].id /\ Sets(acks'[i], p)
        <5>1. PICK i \in DOMAIN acks : acks[i].id = down[k].id /\ Sets(acks[i], p)
          BY <1>1, <3>4, <4>2 DEF NothingElse
        <5>2. i \notin 1..s
          <6>1. up[1].id < down[k].id
            BY <1>0, <1>1, <1>3 DEF Ordered
          <6>2. up[1].id \in Nat
            <7>1. up[1] \in Click \cup Answer
              BY <1>0, <1>3 DEF Typed
            <7> QED BY <1>1, <1>3, <7>1 DEF Click, Answer
          <6> QED BY <1>2, <1>3, <1>4, <5>1, <6>1, <6>2
        <5>3. i - s \in DOMAIN acks' /\ acks'[i - s] = acks[i]
          BY <1>2, <1>4, <5>2
        <5> QED BY <1>1, <5>1, <5>3
      <4> QED BY <4>1, <4>2 DEF NothingElse, Sets
    <3>5. ASSUME NEW p \in Positions PROVE Matches(p)'
      <4>1. (Silent(p)' <=> Silent(p)) /\ \A v : Arrives(p, v)' <=> Arrives(p, v)
        BY <1>1 DEF Silent, Arrives
      <4>2. ASSUME Agreed(p) PROVE Agreed(p)'
        <5>1. PICK v \in Blocks : /\ Ends(p, v)
                                  /\ \/ Arrives(p, v)
                                     \/ Silent(p) /\ (client[p] = v \/ (v = "air" /\ Predicted(p)))
          BY <4>2 DEF Agreed
        <5>2. Ends(p, v)'
          BY <1>4, <2>2, <5>1
        <5> QED BY <1>1, <2>1, <4>1, <5>1, <5>2 DEF Agreed
      <4>3. p \notin Excepted' => p \notin Excepted
        BY <1>1, <1>4 DEF Excepted
      <4>4. p \notin Excepted' => Served(p)'
        BY <1>4, <2>2, <3>1, <4>3, <3>5 DEF Matches
      <4> QED BY <1>1, <3>1, <3>5, <4>2, <4>3, <4>4 DEF Matches
    <3> QED BY <1>1, <2>1, <3>1, <3>2, <3>3, <3>4, <3>5
  <2> QED BY <2>1, <2>2 DEF CopyInv
<1>5. ASSUME UNCHANGED <<blockUpdates, pending, acks, lost>>, \A n \in DOMAIN acks : acks[n].id # Head(up).id
      PROVE  CopyInv'
  <2>1. \A p : \A v : Ends(p, v) => Ends(p, v)'
    BY <1>1, <1>5 DEF Ends, Block
  <2>2. \A p : Served(p) => Served(p)'
    BY <1>1, <1>5, <2>1 DEF Served, Block
  <2>3. 0 \in 0..m /\ m - 0 = m /\ \A i \in 1..m : i + 0 = i /\ i - 0 = i
    BY <1>2
  <2>4. lost' = lost \cup {} /\ 1..0 = {}
    BY <1>5
  <2> HIDE DEF m
  <2>5. DOMAIN acks' = 1..(m - 0) /\ \A i \in 1..(m - 0) : acks'[i] = acks[i + 0] /\ i + 0 \in 1..m
    BY <1>2, <1>5, <2>3
  <2>6. \A i \in 1..m : i \in 1..0 \/ (i - 0 \in 1..(m - 0) /\ acks'[i - 0] = acks[i])
    BY <1>2, <1>5, <2>3
  <2>7. (\A i \in 1..(m - 0) : acks'[i].id # Head(up).id) /\ \A i \in 1..0 : acks[i].id <= Head(up).id
    BY <1>2, <1>5, <2>3, <2>4
  <2> QED BY <1>4, <2>1, <2>2, <2>3, <2>4, <2>5, <2>6, <2>7
<1>6. ASSUME NEW n \in DOMAIN acks, acks[n].id = Head(up).id, acks' = SubSeq(acks, n + 1, Len(acks)),
             blockUpdates' = RunAll(Executed(n)).set, pending' = RunAll(Executed(n)).pending,
             lost' = lost \cup Lost(RunAll(Executed(n)), acks')
      PROVE  CopyInv'
  <2> DEFINE as == Executed(n)
             r == RunAll(as)
  <2>1. n \in 1..m /\ n \in 0..m /\ n \in Nat
    BY <1>2
  <2>2. DOMAIN as = 1..n /\ \A i \in 1..n : as[i] = acks[i] /\ i \in 1..m
    <3>1. as = [i \in 1..n |-> acks[i]]
      BY <1>0, <1>2, <2>1 DEF Executed, Typed
    <3> QED BY <1>2, <2>1, <3>1
  <2>3. DOMAIN acks' = 1..(m - n) /\ \A i \in 1..(m - n) : acks'[i] = acks[i + n] /\ i + n \in 1..m
    <3>1. n + 1 \in 1..(m + 1) /\ m - n \in Nat
      BY <1>2, <2>1
    <3>2. \A i \in 1..(m - n) : i + n \in 1..m /\ i + (n + 1) - 1 = i + n
      BY <1>2, <2>1
    <3>3. acks' = [i \in 1..(m - n) |-> acks[i + n]]
      <4>1. acks \in Seq(Ack) /\ n \in 1..Len(acks)
        BY <1>0, <2>1 DEF Typed
      <4> QED BY <1>6, <4>1, RestIs
    <3> QED BY <3>2, <3>3
  <2> HIDE DEF m, as
  <2>4. \A i \in 1..m : i \in 1..n \/ (i - n \in 1..(m - n) /\ acks'[i - n] = acks[i])
    <3>1. \A i \in 1..m : i \in 1..n \/ (i - n \in 1..(m - n) /\ (i - n) + n = i)
      BY <1>2, <2>1
    <3> QED BY <2>3, <3>1
  <2>5. \A i \in 1..(m - n) : acks'[i].id # Head(up).id
    <3> TAKE i \in 1..(m - n)
    <3>1. n < i + n /\ i + n \in DOMAIN acks /\ acks'[i] = acks[i + n]
      BY <1>2, <2>1, <2>3
    <3>2. acks[n].id < acks[i + n].id /\ acks[n].id \in Nat
      BY <1>0, <1>2, <2>1, <3>1 DEF Ordered
    <3> QED BY <1>2, <1>6, <3>1, <3>2
  <2>6. \A i \in 1..n : acks[i].id <= Head(up).id
    <3> TAKE i \in 1..n
    <3>1. i = n \/ (i < n /\ i \in DOMAIN acks)
      BY <1>2, <2>1
    <3>2. i = n \/ acks[i].id < acks[n].id
      BY <1>0, <2>1, <3>1 DEF Ordered
    <3> QED BY <1>2, <1>6, <2>1, <2>2, <3>2
  <2>7. \A i \in 1..n : as[i].blocks \in Maps(Update)
    BY <1>2, <2>2 DEF Ack
  <2>8. pending \in Maps(Update) /\ blockUpdates \in Maps(Blocks)
    BY <1>0 DEF Typed
  <2>9. blockUpdates' = r.set /\ pending' = r.pending /\ lost' = lost \cup Lost(r, acks')
    BY <1>6 DEF as
  <2>10. DOMAIN pending' \subseteq DOMAIN pending /\ \A p \in DOMAIN pending' : pending'[p] = pending[p]
    BY <2>1, <2>2, <2>7, <2>8, <2>9, RunAllKeeps
  <2> HIDE DEF r
  <2>11. ASSUME NEW p \in Positions
         PROVE  /\ IF \E i \in 1..n : Sets(as[i], p) THEN LastSet(as, p, Block(p)') ELSE Block(p)' = Block(p)
                /\ p \in DOMAIN pending \ DOMAIN pending' => \E i \in 1..n : Sets(as[i], p)
                /\ (\E i \in 1..n : Sets(as[i], p)) => p \in DOMAIN blockUpdates'
    <3>1. /\ IF \E i \in 1..n : Sets(as[i], p) THEN p \in DOMAIN r.set /\ LastSet(as, p, r.set[p])
             ELSE /\ p \in DOMAIN r.set <=> p \in DOMAIN blockUpdates
                  /\ p \in DOMAIN blockUpdates => r.set[p] = blockUpdates[p]
          /\ p \in DOMAIN pending \ DOMAIN r.pending =>
                    \E i \in 1..n : Sets(as[i], p) /\ as[i].blocks[p].rid = pending[p].rid
      <4>1. DOMAIN as = 1..n
        BY <2>2
      <4> QED BY <2>1, <2>7, <2>8, <2>11, <4>1, RunAllSets DEF r
    <3>2. CASE \E i \in 1..n : Sets(as[i], p)
      <4>1. Block(p)' = r.set[p]
        BY <2>9, <3>1, <3>2 DEF Block
      <4> QED BY <2>9, <3>1, <3>2, <4>1
    <3>3. CASE ~\E i \in 1..n : Sets(as[i], p)
      <4>1. Block(p)' = Block(p)
        BY <1>1, <2>9, <3>1, <3>3 DEF Block
      <4> QED BY <2>9, <3>1, <3>3, <4>1
    <3> QED BY <3>2, <3>3
  <2>12. ASSUME NEW p \in Positions, NEW v, Ends(p, v) PROVE Ends(p, v)'
    <3>1. CASE p \in DOMAIN batch
      BY <1>1, <2>12, <3>1 DEF Ends
    <3>2. ASSUME p \notin DOMAIN batch, LastSet(acks, p, v) PROVE Ends(p, v)'
      <4>1. PICK i \in DOMAIN acks : /\ Sets(acks[i], p) /\ acks[i].blocks[p].rid = v
                                     /\ \A j \in DOMAIN acks : j > i => ~Sets(acks[j], p)
        BY <3>2 DEF LastSet
      <4>2. CASE i \in 1..n
        <5>1. \A j \in DOMAIN acks' : ~Sets(acks'[j], p)
          <6> TAKE j \in DOMAIN acks'
          <6>1. j + n \in DOMAIN acks /\ j + n > i /\ acks'[j] = acks[j + n]
            BY <1>2, <2>1, <2>3, <4>2
          <6> QED BY <4>1, <6>1
        <5>2. LastSet(as, p, v) /\ Sets(as[i], p)
          <6>1. \A j \in DOMAIN as : j \in DOMAIN acks /\ as[j] = acks[j]
            BY <1>2, <2>2
          <6> QED BY <2>2, <4>1, <4>2, <6>1 DEF LastSet
        <5>3. LastSet(as, p, Block(p)')
          BY <2>11, <4>2, <5>2
        <5>4. Block(p)' = v
          BY <2>1, <2>2, <5>2, <5>3, LastSetIs
        <5> QED BY <1>1, <3>2, <5>1, <5>4 DEF Ends, Sets
      <4>3. CASE i \notin 1..n
        <5>1. i - n \in DOMAIN acks' /\ acks'[i - n] = acks[i]
          BY <1>2, <2>3, <2>4, <4>3
        <5>2. \A j \in DOMAIN acks' : j > i - n => ~Sets(acks'[j], p)
          <6> TAKE j \in DOMAIN acks'
          <6>1. j + n \in DOMAIN acks /\ acks'[j] = acks[j + n] /\ (j > i - n => j + n > i)
            BY <1>2, <2>1, <2>3
          <6> QED BY <4>1, <6>1
        <5>3. LastSet(acks', p, v)
          BY <4>1, <5>1, <5>2 DEF LastSet
        <5> QED BY <1>1, <3>2, <5>3 DEF Ends
      <4> QED BY <4>2, <4>3
    <3>3. ASSUME p \notin DOMAIN batch, \A i \in DOMAIN acks : ~Sets(acks[i], p), Block(p) = v PROVE Ends(p, v)'
      <4>1. \A j \in DOMAIN acks' : ~Sets(acks'[j], p)
        BY <1>2, <2>3, <3>3
      <4>2. \A i \in 1..n : ~Sets(as[i], p)
        BY <1>2, <2>2, <3>3
      <4>3. Block(p)' = v
        BY <2>11, <3>3, <4>2
      <4> QED BY <1>1, <3>3, <4>1, <4>3 DEF Ends, Sets
    <3> QED BY <2>12, <3>1, <3>2, <3>3 DEF Ends
  <2>13. ASSUME NEW p \in Positions \ Excepted', Served(p) PROVE Served(p)'
    <3>1. Ends(p, server[p])'
      <4>1. Ends(p, server[p])
        BY <2>13 DEF Served
      <4> DEFINE v == server[p]
      <4>2. Ends(p, v)' /\ v = server'[p]
        <5> HIDE DEF v
        <5>1. p \in Positions /\ Ends(p, v)
          BY <2>13, <4>1 DEF v
        <5> QED BY <1>1, <2>12, <5>1 DEF v
      <4> QED BY <4>2
    <3>2. p \in DOMAIN pending' => pending'[p].rid = server[p]
      BY <2>10, <2>13 DEF Served
    <3>3. ASSUME p \notin DOMAIN pending', p \notin DOMAIN pending
          PROVE  /\ Block(p)' = server[p]
                 /\ p \in DOMAIN batch => batch[p].rid = server[p]
                 /\ \A i \in DOMAIN acks' : Sets(acks'[i], p) => acks'[i].blocks[p].rid = server[p]
      <4>1. /\ Block(p) = server[p]
            /\ p \in DOMAIN batch => batch[p].rid = server[p]
            /\ \A i \in DOMAIN acks : Sets(acks[i], p) => acks[i].blocks[p].rid = server[p]
        BY <2>13, <3>3 DEF Served
      <4>2. Block(p)' = server[p]
        <5>1. CASE \E i \in 1..n : Sets(as[i], p)
          <6>1. LastSet(as, p, Block(p)')
            BY <2>11, <2>13, <5>1
          <6>2. \A i \in DOMAIN as : Sets(as[i], p) => as[i].blocks[p].rid = server[p]
            BY <1>2, <2>2, <4>1
          <6> QED BY <6>1, <6>2 DEF LastSet
        <5>2. CASE ~\E i \in 1..n : Sets(as[i], p)
          BY <2>11, <2>13, <4>1, <5>2
        <5> QED BY <5>1, <5>2
      <4>3. \A i \in DOMAIN acks' : Sets(acks'[i], p) => acks'[i].blocks[p].rid = server[p]
        BY <1>2, <2>3, <4>1
      <4> QED BY <4>1, <4>2, <4>3
    <3>4. ASSUME p \notin DOMAIN pending', p \in DOMAIN pending
          PROVE  /\ Block(p)' = server[p]
                 /\ p \in DOMAIN batch => batch[p].rid = server[p]
                 /\ \A i \in DOMAIN acks' : Sets(acks'[i], p) => acks'[i].blocks[p].rid = server[p]
      <4>1. p \notin Lost(r, acks')
        BY <2>9, <2>13 DEF Excepted
      <4>2. p \in DOMAIN blockUpdates' /\ Block(p)' = r.set[p]
        BY <2>9, <2>11, <2>13, <3>4 DEF Block
      <4>3. /\ p \in DOMAIN batch => batch[p].rid = r.set[p]
            /\ \A i \in DOMAIN acks' : Sets(acks'[i], p) => acks'[i].blocks[p].rid = r.set[p]
        BY <2>9, <3>4, <4>1 DEF Lost, Sets
      <4>4. r.set[p] = server[p]
        <5>1. CASE p \in DOMAIN batch
          BY <1>1, <3>1, <4>3, <5>1 DEF Ends
        <5>2. CASE p \notin DOMAIN batch /\ LastSet(acks', p, server[p]')
          BY <1>1, <4>3, <5>2 DEF LastSet
        <5>3. CASE Block(p)' = server[p]'
          BY <1>1, <4>2, <5>3
        <5> QED BY <1>1, <3>1, <5>1, <5>2, <5>3 DEF Ends
      <4> QED BY <4>2, <4>3, <4>4
    <3> QED BY <1>1, <3>1, <3>2, <3>3, <3>4 DEF Served, Sets
  <2> QED BY <1>4, <2>1, <2>3, <2>4, <2>5, <2>6, <2>9, <2>12, <2>13
<1> QED BY <1>5, <1>6 DEF ExecuteACK

-----------------------------------------------------------------------------
(* the client, and the copy *)

\* A sequence of packets has one last block for a position.
LEMMA TellsOne ==
    ASSUME NEW pks \in Seq(Packet), NEW p, NEW v, NEW w, Tells(pks, p, v), Tells(pks, p, w)
    PROVE  v = w
<1>1. PICK i \in DOMAIN pks : /\ Says(pks[i], p) /\ pks[i].blocks[p] = v
                              /\ \A j \in DOMAIN pks : j > i => ~Says(pks[j], p)
  BY DEF Tells
<1>2. PICK k \in DOMAIN pks : /\ Says(pks[k], p) /\ pks[k].blocks[p] = w
                              /\ \A j \in DOMAIN pks : j > k => ~Says(pks[j], p)
  BY DEF Tells
<1>3. ~(k > i) /\ ~(i > k) /\ i \in Int /\ k \in Int
  BY <1>1, <1>2
<1>4. i = k
  BY <1>3
<1> QED BY <1>1, <1>2, <1>4

\* The packets of the client, and one more.
LEMMA OneMore ==
    ASSUME Typed, NEW c, up' = Append(up, c)
    PROVE  \E u \in Nat : /\ DOMAIN up = 1..u /\ DOMAIN up' = 1..(u + 1) /\ u + 1 \in DOMAIN up' /\ u + 1 \notin DOMAIN up
                          /\ up'[u + 1] = c
                          /\ \A k \in DOMAIN up : k \in DOMAIN up' /\ up'[k] = up[k] /\ k < u + 1 /\ k \in Nat
                          /\ \A k \in DOMAIN up' : k \in DOMAIN up \/ k = u + 1
<1> DEFINE u == Len(up)
<1>1. u \in Nat /\ DOMAIN up = 1..u /\ DOMAIN up' = 1..(u + 1) /\ up'[u + 1] = c /\ \A k \in 1..u : up'[k] = up[k]
  BY DEF Typed
<1> HIDE DEF u
<1>2. u + 1 \in 1..(u + 1) /\ u + 1 \notin 1..u /\ \A k \in 1..(u + 1) : k \in 1..u \/ k = u + 1
  BY <1>1
<1>3. \A k \in 1..u : k \in 1..(u + 1) /\ k < u + 1 /\ k \in Nat
  BY <1>1
<1> QED BY <1>1, <1>2, <1>3

\* A bundle: the client has what it was told last, and answers.
LEMMA ClientReceiveAgrees ==
    ASSUME IInv, CopyInv, ClientReceive
    PROVE  CopyInv'
<1>0. Typed /\ Ordered /\ Awaited
  BY DEF IInv, CopyInv
<1> DEFINE b == down[1]
           pks == b.packets
           n == Len(pks)
           h == CHOOSE g : IsShown(g, client, pks, n)
           answer == [type |-> "ack", id |-> b.id]
           S == World \cup {Unloaded}
<1>1. /\ down # <<>> /\ down' = Tail(down) /\ client' = h[n] /\ up' = Append(up, answer)
      /\ UNCHANGED <<worldVars, server, outbox, copyVars, ticks, backend, early, resent, through, lost>>
  <2>1. Head(down) = b
    BY <1>0 DEF ClientReceive, Typed
  <2> QED BY <2>1 DEF ClientReceive, IsShown
<1>2. /\ b \in Bundle /\ 1 \in DOMAIN down
      /\ \A k \in DOMAIN down' : k + 1 \in DOMAIN down /\ down'[k] = down[k + 1] /\ k + 1 > 1
      /\ \A k \in DOMAIN down : k = 1 \/ (k - 1 \in DOMAIN down' /\ down'[k - 1] = down[k] /\ k > 1)
      /\ (\A k \in DOMAIN down : k \in Nat /\ down[k].id \in Nat) /\ \A k \in DOMAIN down' : k \in Nat
  <2>1. /\ Len(down) \in Nat \ {0} /\ DOMAIN down = 1..Len(down) /\ DOMAIN down' = 1..(Len(down) - 1)
        /\ \A k \in 1..(Len(down) - 1) : down'[k] = down[k + 1]
        /\ \A k \in 1..Len(down) : down[k] \in Bundle
    BY <1>0, <1>1 DEF Typed
  <2>2. 1 \in DOMAIN down /\ b \in Bundle
    BY <2>1
  <2>3. \A k \in 1..(Len(down) - 1) : k + 1 \in 1..Len(down) /\ k + 1 > 1 /\ k \in Nat
    BY <2>1
  <2>4. \A k \in 1..Len(down) : k = 1 \/ (k - 1 \in 1..(Len(down) - 1) /\ (k - 1) + 1 = k /\ k > 1)
    BY <2>1
  <2>5. \A k \in DOMAIN down : k = 1 \/ (k - 1 \in DOMAIN down' /\ down'[k - 1] = down[k] /\ k > 1)
    BY <2>1, <2>4
  <2>6. \A k \in DOMAIN down : k \in Nat /\ down[k].id \in Nat
    BY <2>1 DEF Bundle
  <2> QED BY <2>1, <2>2, <2>3, <2>5, <2>6
<1>3. pks \in Seq(Packet) /\ n \in Nat /\ b.id \in Nat
  BY <1>2 DEF Bundle
<1>4. PICK u \in Nat :
        /\ DOMAIN up = 1..u /\ DOMAIN up' = 1..(u + 1) /\ u + 1 \in DOMAIN up' /\ u + 1 \notin DOMAIN up
        /\ up'[u + 1] = answer
        /\ \A k \in DOMAIN up : k \in DOMAIN up' /\ up'[k] = up[k] /\ k < u + 1 /\ k \in Nat
        /\ \A k \in DOMAIN up' : k \in DOMAIN up \/ k = u + 1
  <2> HIDE DEF answer
  <2> QED BY <1>0, <1>1, OneMore
<1>5. answer.type = "ack" /\ answer.id = b.id
  OBVIOUS
<1>6. IsShown(h, client, pks, n)
  <2>1. client \in S /\ \A k \in 1..n : \A s \in S : Shown(s, pks[k]) \in S
    BY <1>0, <1>3, ShownTyped DEF Typed
  <2> HIDE DEF S, pks, n
  <2>2. \E g : IsShown(g, client, pks, n)
    BY <1>3, <2>1, ShownExists
  <2> QED BY <2>2
<1> HIDE DEF answer, h
<1>7. \A i \in DOMAIN acks : \A k \in DOMAIN up : Answers(k, i)' <=> Answers(k, i)
  BY <1>1, <1>4 DEF Answers, copyVars
<1>8. Ordered'
  <2>1. \A k, l \in DOMAIN down' : k < l => down'[k].id < down'[l].id
    <3> TAKE k, l \in DOMAIN down'
    <3>1. k < l => k + 1 < l + 1
      BY <1>2
    <3> QED BY <1>0, <1>2, <3>1 DEF Ordered
  <2>2. \A k, l \in DOMAIN up' : k < l /\ up'[k].type = "ack" /\ up'[l].type = "ack" => up'[k].id < up'[l].id
    <3> SUFFICES ASSUME NEW k \in DOMAIN up', NEW l \in DOMAIN up', k < l, up'[k].type = "ack", up'[l].type = "ack"
                 PROVE  up'[k].id < up'[l].id
      OBVIOUS
    <3>1. k \in DOMAIN up
      <4>1. k \in 1..(u + 1) /\ l \in 1..(u + 1)
        BY <1>4
      <4>2. k # u + 1
        BY <4>1
      <4> QED BY <1>4, <4>2
    <3>2. CASE l \in DOMAIN up
      BY <1>0, <1>4, <3>1, <3>2 DEF Ordered
    <3>3. CASE l = u + 1
      BY <1>0, <1>2, <1>4, <1>5, <3>1, <3>3 DEF Ordered
    <3> QED BY <1>4, <3>2, <3>3
  <2>3. ASSUME NEW k \in DOMAIN up', up'[k].type = "ack"
        PROVE  up'[k].id <= ticks' /\ \A l \in DOMAIN down' : up'[k].id < down'[l].id
    <3>1. CASE k \in DOMAIN up
      BY <1>0, <1>1, <1>2, <1>4, <2>3, <3>1 DEF Ordered
    <3>2. CASE k = u + 1
      <4>1. \A l \in DOMAIN down' : down[1].id < down[l + 1].id
        BY <1>0, <1>2 DEF Ordered
      <4> QED BY <1>0, <1>1, <1>2, <1>4, <1>5, <3>2, <4>1 DEF Ordered
    <3> QED BY <1>4, <3>1, <3>2
  <2> QED BY <1>0, <1>1, <1>2, <2>1, <2>2, <2>3 DEF Ordered, copyVars
<1>9. Awaited'
  <2> SUFFICES ASSUME NEW i \in DOMAIN acks
               PROVE  (\E k \in DOMAIN down' : down'[k].id = acks[i].id) \/ \E k \in DOMAIN up' : Answers(k, i)'
    BY <1>1 DEF Awaited, copyVars
  <2>1. ASSUME NEW k \in DOMAIN up, Answers(k, i) PROVE \E l \in DOMAIN up' : Answers(l, i)'
    BY <1>4, <1>7, <2>1
  <2>2. ASSUME NEW k \in DOMAIN down, down[k].id = acks[i].id, k # 1 PROVE \E l \in DOMAIN down' : down'[l].id = acks[i].id
    BY <1>2, <2>2
  <2>3. ASSUME b.id = acks[i].id PROVE Answers(u + 1, i)'
    BY <1>1, <1>4, <1>5, <2>3 DEF Answers, copyVars
  <2> QED BY <1>0, <1>4, <2>1, <2>2, <2>3 DEF Awaited
<1>10. ASSUME Regular'
       PROVE  Loaded' /\ Carried' /\ (~resent' => NothingElse' /\ Visible') /\ \A p \in Positions : Matches(p)'
  <2>1. Loaded /\ Carried /\ (~resent => NothingElse /\ Visible) /\ \A p \in Positions : Matches(p)
    BY <1>1, <1>10 DEF Regular, CopyInv
  <2>2. /\ client' \in World
        /\ \A p \in Positions : IF Told(pks, p) THEN Tells(pks, p, client'[p]) ELSE client'[p] = client[p]
    <3>1. client \in World
      BY <1>0, <2>1 DEF Loaded, Typed
    <3>2. \A i \in DOMAIN pks : pks[i].type # "reset"
      BY <1>2, <2>1 DEF Loaded
    <3>3. n = Len(pks)
      OBVIOUS
    <3> HIDE DEF pks, n
    <3>4. h[n] \in World /\ \A p \in Positions : IF Told(pks, p) THEN Tells(pks, p, h[n][p]) ELSE h[n][p] = client[p]
      BY <1>3, <1>6, <3>1, <3>2, <3>3, ShownLast
    <3>5. client' = h[n]
      BY <1>1
    <3> QED BY <3>4, <3>5
  <2>3. Loaded'
    <3>1. client' # Unloaded
      BY <2>2, WorldLoaded
    <3> QED BY <1>1, <1>2, <2>1, <3>1 DEF Loaded, worldVars
  <2>4. Carried'
    BY <1>1, <1>2, <2>1 DEF Carried, copyVars
  <2>5. ASSUME NothingElse PROVE NothingElse'
    BY <1>1, <1>2, <2>5 DEF NothingElse, copyVars
  <2>6. ASSUME NothingElse, Visible PROVE Visible'
    <3> SUFFICES ASSUME NEW k \in DOMAIN up', NEW p \in Positions, Places(k, p)', client'[p] # "stone"
                 PROVE  \E i \in DOMAIN acks : Sets(acks[i], p) /\ \E l \in DOMAIN up' : l > k /\ Answers(l, i)'
      BY <1>1 DEF Visible, copyVars, Sets
    <3>1. k \in DOMAIN up /\ Places(k, p)
      <4>1. k # u + 1
        BY <1>4, <1>5 DEF Places
      <4> QED BY <1>4, <4>1 DEF Places
    <3>2. ASSUME NEW i \in DOMAIN acks, Sets(acks[i], p), \E l \in DOMAIN up : l > k /\ Answers(l, i)
          PROVE  \E j \in DOMAIN acks : Sets(acks[j], p) /\ \E l \in DOMAIN up' : l > k /\ Answers(l, j)'
      BY <1>4, <1>7, <3>2
    <3>3. CASE client[p] = "stone"
      <4>1. Told(pks, p)
        BY <2>2, <3>3
      <4>2. PICK i \in DOMAIN acks : acks[i].id = b.id /\ Sets(acks[i], p)
        BY <1>2, <2>6, <4>1 DEF NothingElse
      <4>3. Answers(u + 1, i)' /\ u + 1 > k
        BY <1>1, <1>4, <1>5, <3>1, <4>2 DEF Answers, copyVars
      <4> QED BY <1>4, <4>2, <4>3
    <3> QED BY <2>6, <3>1, <3>2, <3>3 DEF Visible
  <2>7. ASSUME NEW p \in Positions PROVE Matches(p)'
    <3>1. \A v : Ends(p, v)' <=> Ends(p, v)
      BY <1>1 DEF Ends, Block, copyVars, worldVars
    <3>2. Served(p)' <=> Served(p)
      BY <1>1, <3>1 DEF Served, Block, copyVars, worldVars
    <3>3. ASSUME ~Told(pks, p) PROVE Silent(p) => Silent(p)'
      BY <1>1, <1>2 DEF Silent
    <3>4. ASSUME Agreed(p) PROVE Agreed(p)'
      <4>1. PICK v \in Blocks : /\ Ends(p, v)
                                /\ \/ Arrives(p, v)
                                   \/ Silent(p) /\ (client[p] = v \/ (v = "air" /\ Predicted(p)))
        BY <3>4 DEF Agreed
      <4>2. CASE Tells(outbox, p, v)
        BY <1>1, <3>1, <4>1, <4>2 DEF Agreed, Arrives
      <4>3. ASSUME ~Told(outbox, p), NEW k \in DOMAIN down, Tells(down[k].packets, p, v),
                   \A l \in DOMAIN down : l > k => ~Told(down[l].packets, p)
            PROVE  Agreed(p)'
        <5>1. CASE k = 1
          <6>1. Silent(p)'
            BY <1>1, <1>2, <4>3, <5>1 DEF Silent
          <6>2. Tells(pks, p, v) /\ Told(pks, p) /\ Tells(pks, p, client'[p])
            BY <2>2, <2>7, <4>3, <5>1, TellsIsTold
          <6>3. client'[p] = v
            <7> HIDE DEF pks
            <7> QED BY <1>3, <6>2, TellsOne
          <6> QED BY <3>1, <4>1, <6>1, <6>3 DEF Agreed
        <5>2. CASE k # 1
          <6>1. k - 1 \in DOMAIN down' /\ down'[k - 1] = down[k]
            BY <1>2, <5>2
          <6>2. \A l \in DOMAIN down' : l > k - 1 => ~Told(down'[l].packets, p)
            <7> TAKE l \in DOMAIN down'
            <7>1. l + 1 \in DOMAIN down /\ down'[l] = down[l + 1] /\ (l > k - 1 => l + 1 > k)
              BY <1>2
            <7> QED BY <4>3, <7>1
          <6>3. Arrives(p, v)'
            BY <1>1, <4>3, <6>1, <6>2 DEF Arrives
          <6> QED BY <3>1, <4>1, <6>3 DEF Agreed
        <5> QED BY <5>1, <5>2
      <4>4. ASSUME Silent(p), client[p] = v \/ (v = "air" /\ Predicted(p)) PROVE Agreed(p)'
        <5>1. ~Told(pks, p)
          BY <1>2, <4>4 DEF Silent
        <5>2. client'[p] = client[p]
          BY <2>2, <5>1
        <5>3. ASSUME Predicted(p) PROVE Predicted(p)'
          <6>1. PICK k \in DOMAIN up :
                  /\ Places(k, p)
                  /\ \A i \in DOMAIN acks : Sets(acks[i], p) => \E l \in DOMAIN up : l < k /\ Answers(l, i)
            BY <5>3 DEF Predicted
          <6>2. k \in DOMAIN up' /\ Places(k, p)'
            BY <1>4, <6>1 DEF Places
          <6>3. \A i \in DOMAIN acks : Sets(acks[i], p) => \E l \in DOMAIN up' : l < k /\ Answers(l, i)'
            BY <1>4, <1>7, <6>1
          <6>4. client'[p] = "stone"
            BY <5>2, <5>3 DEF Predicted
          <6> QED BY <1>1, <6>2, <6>3, <6>4 DEF Predicted, copyVars, Sets
        <5> QED BY <3>1, <3>3, <4>1, <4>4, <5>1, <5>2, <5>3 DEF Agreed
      <4> QED BY <4>1, <4>2, <4>3, <4>4 DEF Arrives
    <3> QED BY <1>1, <2>1, <3>2, <3>4 DEF Matches, Excepted
  <2> QED BY <1>1, <2>1, <2>3, <2>4, <2>5, <2>6, <2>7
<1> QED BY <1>8, <1>9, <1>10 DEF CopyInv

\* The client places a block: it shows one it has predicted.
LEMMA ClientPlaceAgrees ==
    ASSUME IInv, CopyInv, NEW pos \in Positions, NEW face \in Faces, ClientPlace(pos, face)
    PROVE  CopyInv'
<1> DEFINE side == Side(pos, face)
           click == [type |-> "click", pos |-> pos, face |-> face]
<1>0. Typed /\ Ordered /\ Awaited
  BY DEF IInv, CopyInv
<1>1. /\ client # Unloaded /\ side \in Positions /\ client[side] = "air"
      /\ client' = [client EXCEPT ![side] = "stone"] /\ up' = Append(up, click)
      /\ UNCHANGED <<worldVars, server, outbox, down, copyVars, ticks, backend, early, resent, through, lost>>
  BY DEF ClientPlace
<1>2. click.type = "click" /\ \A p : Side(click.pos, click.face) = p <=> p = side
  OBVIOUS
<1> HIDE DEF click, side
<1>3. client' \in World /\ client'[side] = "stone" /\ \A p \in Positions : p # side => client'[p] = client[p]
  BY <1>0, <1>1 DEF Typed, World, Blocks
<1>4. PICK u \in Nat :
        /\ DOMAIN up = 1..u /\ DOMAIN up' = 1..(u + 1) /\ u + 1 \in DOMAIN up' /\ u + 1 \notin DOMAIN up
        /\ up'[u + 1] = click
        /\ \A k \in DOMAIN up : k \in DOMAIN up' /\ up'[k] = up[k] /\ k < u + 1 /\ k \in Nat
        /\ \A k \in DOMAIN up' : k \in DOMAIN up \/ k = u + 1
  BY <1>0, <1>1, OneMore
<1>5. \A i \in DOMAIN acks : \A k \in DOMAIN up : Answers(k, i)' <=> Answers(k, i)
  BY <1>1, <1>4 DEF Answers, copyVars
<1>6. Ordered'
  <2>1. \A k \in DOMAIN up' : up'[k].type = "ack" => k \in DOMAIN up /\ up'[k] = up[k]
    BY <1>2, <1>4
  <2> QED BY <1>0, <1>1, <2>1 DEF Ordered, copyVars
<1>7. Awaited'
  <2> SUFFICES ASSUME NEW i \in DOMAIN acks
               PROVE  (\E k \in DOMAIN down : down[k].id = acks[i].id) \/ \E k \in DOMAIN up' : Answers(k, i)'
    BY <1>1 DEF Awaited, copyVars
  <2> QED BY <1>0, <1>4, <1>5 DEF Awaited
<1>8. ASSUME Regular'
      PROVE  Loaded' /\ Carried' /\ (~resent' => NothingElse' /\ Visible') /\ \A p \in Positions : Matches(p)'
  <2>1. Regular /\ Loaded /\ Carried /\ (~resent => NothingElse /\ Visible) /\ \A p \in Positions : Matches(p)
    BY <1>1, <1>8 DEF Regular, CopyInv
  <2>2. Loaded'
    <3>1. client' # Unloaded
      BY <1>3, WorldLoaded
    <3> QED BY <1>1, <2>1, <3>1 DEF Loaded, worldVars
  <2>3. Carried' /\ (NothingElse => NothingElse')
    BY <1>1, <2>1 DEF Carried, NothingElse, copyVars
  <2>4. ASSUME Visible PROVE Visible'
    <3> SUFFICES ASSUME NEW k \in DOMAIN up', NEW p \in Positions, Places(k, p)', client'[p] # "stone"
                 PROVE  \E i \in DOMAIN acks : Sets(acks[i], p) /\ \E l \in DOMAIN up' : l > k /\ Answers(l, i)'
      BY <1>1 DEF Visible, copyVars, Sets
    <3>1. p # side
      BY <1>3
    <3>2. k \in DOMAIN up /\ Places(k, p)
      BY <1>2, <1>4, <3>1 DEF Places
    <3>3. client[p] # "stone"
      BY <1>3, <3>1
    <3>4. PICK i \in DOMAIN acks : Sets(acks[i], p) /\ \E l \in DOMAIN up : l > k /\ Answers(l, i)
      BY <2>4, <3>2, <3>3 DEF Visible
    <3> QED BY <1>4, <1>5, <3>4
  <2>5. ASSUME NEW p \in Positions PROVE Matches(p)'
    <3>1. (Silent(p)' <=> Silent(p)) /\ \A v : (Ends(p, v)' <=> Ends(p, v)) /\ (Arrives(p, v)' <=> Arrives(p, v))
      BY <1>1 DEF Silent, Ends, Arrives, Block, copyVars, worldVars
    <3>2. Served(p)' <=> Served(p)
      BY <1>1, <3>1 DEF Served, Block, copyVars, worldVars
    <3>3. ASSUME Agreed(p) PROVE Agreed(p)'
      <4>1. PICK v \in Blocks : /\ Ends(p, v)
                                /\ \/ Arrives(p, v)
                                   \/ Silent(p) /\ (client[p] = v \/ (v = "air" /\ Predicted(p)))
        BY <3>3 DEF Agreed
      <4>2. CASE Arrives(p, v)
        BY <3>1, <4>1, <4>2 DEF Agreed
      <4>3. ASSUME Silent(p), client[p] = v \/ (v = "air" /\ Predicted(p)), p # side PROVE Agreed(p)'
        <5>1. client'[p] = client[p]
          BY <1>3, <4>3
        <5>2. ASSUME Predicted(p) PROVE Predicted(p)'
          <6>1. PICK k \in DOMAIN up :
                  /\ Places(k, p)
                  /\ \A i \in DOMAIN acks : Sets(acks[i], p) => \E l \in DOMAIN up : l < k /\ Answers(l, i)
            BY <5>2 DEF Predicted
          <6>2. k \in DOMAIN up' /\ Places(k, p)'
            BY <1>4, <6>1 DEF Places
          <6>3. \A i \in DOMAIN acks : Sets(acks[i], p) => \E l \in DOMAIN up' : l < k /\ Answers(l, i)'
            BY <1>4, <1>5, <6>1
          <6>4. client'[p] = "stone"
            BY <5>1, <5>2 DEF Predicted
          <6> QED BY <1>1, <6>2, <6>3, <6>4 DEF Predicted, copyVars, Sets
        <5> QED BY <3>1, <4>1, <4>3, <5>1, <5>2 DEF Agreed
      <4>4. ASSUME Silent(p), client[p] = v \/ (v = "air" /\ Predicted(p)), p = side PROVE Agreed(p)'
        <5>1. v = "air"
          BY <1>1, <4>4
        <5>2. Places(u + 1, p)'
          BY <1>2, <1>4, <4>4 DEF Places
        <5>3. ASSUME NEW i \in DOMAIN acks, Sets(acks[i], p) PROVE \E l \in DOMAIN up' : l < u + 1 /\ Answers(l, i)'
          <6>1. ~\E k \in DOMAIN down : down[k].id = acks[i].id
            BY <2>1, <4>4, <5>3 DEF Carried, Silent
          <6>2. PICK l \in DOMAIN up : Answers(l, i)
            BY <1>0, <6>1 DEF Awaited
          <6> QED BY <1>4, <1>5, <6>2
        <5>4. Predicted(p)'
          BY <1>1, <1>3, <1>4, <4>4, <5>2, <5>3 DEF Predicted, copyVars, Sets
        <5> QED BY <3>1, <4>1, <4>4, <5>1, <5>4 DEF Agreed
      <4> QED BY <4>1, <4>2, <4>3, <4>4
    <3> QED BY <1>1, <2>1, <3>2, <3>3 DEF Matches, Excepted
  <2> QED BY <1>1, <2>1, <2>2, <2>3, <2>4, <2>5
<1> QED BY <1>6, <1>7, <1>8 DEF CopyInv

-----------------------------------------------------------------------------
(* the packets of the client, and the copy *)

\* Sending a block back: the client will have the one the copy has, as it will where an update is on its way.
LEMMA SyncBlocksAgrees ==
    ASSUME Typed, Covered, Regular, Loaded, Carried, NEW D \in SUBSET Positions, NEW side \in D, SyncBlocks(D),
           UNCHANGED <<worldVars, client, server, down, acks, backend, resent, through, lost>>,
           \A p : Predicted(p) => Predicted(p)' \/ (p = side /\ \A i \in DOMAIN acks : ~Sets(acks[i], p))
    PROVE  /\ Loaded' /\ Carried' /\ (NothingElse => NothingElse')
           /\ \A p \in Positions : Matches(p) => Matches(p)'
<1> DEFINE R == D \ DOMAIN pending
           send == [p \in R |-> Block(p)]
<1>1. AddPendingUpdates(send) /\ outbox' = Sent(send)
  BY DEF SyncBlocks
<1>2. send \in Maps(Blocks) /\ DOMAIN send = R /\ (\A p \in R : send[p] = Block(p)) /\ \A p \in R : Block(p) \in Blocks
  <2>1. R \in SUBSET Positions
    OBVIOUS
  <2>2. \A p \in R : Block(p) \in Blocks
    BY BlockTyped DEF Typed
  <2>3. DOMAIN send = R /\ \A p \in R : send[p] = Block(p)
    OBVIOUS
  <2> HIDE DEF R
  <2>4. send \in [R -> Blocks]
    BY <2>2
  <2> QED BY <2>1, <2>2, <2>3, <2>4 DEF Maps
<1> HIDE DEF send
<1>3. PICK us \in Maps(Blocks) :
        AddPendingUpdates(us) /\ outbox' = Sent(us) /\ DOMAIN us = R /\ \A p \in R : us[p] = Block(p)
  BY <1>1, <1>2
<1>4. Loaded' /\ Carried' /\ (NothingElse => NothingElse')
  BY <1>3, AddedInLine
<1>5. ASSUME NEW p \in R, Matches(p) PROVE Matches(p)'
  <2>0. PICK v \in Blocks : v = Block(p)
    BY <1>2
  <2>1. p \in DOMAIN pending' /\ pending'[p].rid = v /\ Ends(p, v)' /\ Arrives(p, v)'
    <3>1. p \in DOMAIN us /\ us[p] = v
      BY <1>3, <2>0
    <3> QED BY <1>3, <3>1, AddedAndTold
  <2>2. Agreed(p)'
    BY <2>1 DEF Agreed
  <2>3. ASSUME Served(p) PROVE Served(p)'
    <3>1. Block(p) = server[p] /\ server'[p] = server[p]
      BY <2>3 DEF Served
    <3>2. v = server'[p]
      BY <2>0, <3>1
    <3> QED BY <2>1, <3>2 DEF Served
  <2> QED BY <1>5, <2>2, <2>3 DEF Matches, Excepted
<1>6. ASSUME NEW p \in Positions, p \notin R, Matches(p) PROVE Matches(p)'
  <2>1. /\ (p \in DOMAIN batch' <=> p \in DOMAIN batch) /\ (p \in DOMAIN batch => batch'[p] = batch[p])
        /\ (p \in DOMAIN pending' <=> p \in DOMAIN pending) /\ (p \in DOMAIN pending => pending'[p] = pending[p])
        /\ (Silent(p)' <=> Silent(p)) /\ Block(p)' = Block(p)
        /\ \A v : (Ends(p, v)' <=> Ends(p, v)) /\ (Arrives(p, v)' <=> Arrives(p, v))
    BY <1>3, <1>6, AddedAndTold
  <2>2. Served(p) => Served(p)'
    BY <2>1 DEF Served
  <2>3. ASSUME Silent(p), Predicted(p) PROVE Predicted(p)'
    <3> SUFFICES ASSUME p = side, \A i \in DOMAIN acks : ~Sets(acks[i], p) PROVE FALSE
      BY <2>3
    <3>1. p \in DOMAIN pending
      BY <1>6
    <3>2. pending[p].from = backend
      <4>1. pending[p] \in Update /\ pending[p].from <= backend
        BY <3>1, MapIs DEF Typed
      <4> QED BY <4>1, WorldAssumption DEF Update, Regular
    <3>3. p \in DOMAIN batch
      BY <3>1, <3>2 DEF Covered, Brings, Sets
    <3> QED BY <2>3, <3>3 DEF Carried, Silent
  <2>4. Agreed(p) => Agreed(p)'
    BY <2>1, <2>3 DEF Agreed
  <2> QED BY <1>6, <2>2, <2>4 DEF Matches, Excepted
<1> QED BY <1>4, <1>5, <1>6

\* A click: the block is placed, or the client is told what is there, unless it will have it anyway.
LEMMA AttemptAgrees ==
    ASSUME IInv, CopyInv, NEW obstacle, AttemptItemInteractionWithBlock(obstacle)
    PROVE  CopyInv'
<1>0. Typed /\ Covered /\ Ordered /\ Awaited
  BY DEF IInv, CopyInv
<1> DEFINE m == Len(acks)
           pos == Head(up).pos
           side == Side(pos, Head(up).face)
<1>1. /\ up # <<>> /\ Head(up).type = "click" /\ up' = Tail(up)
      /\ UNCHANGED <<chunk, client, server, down, ticks, backend, early, resent, lost>>
  BY DEF AttemptItemInteractionWithBlock
<1>2. /\ 1 \in DOMAIN up /\ Head(up) = up[1] /\ \A p : Places(1, p) => p = side
  BY <1>0, <1>1, Behind DEF Places
<1>3. pos \in Positions /\ side \in Positions
  <2>1. up[1] \in Click \cup Answer
    BY <1>0, <1>2 DEF Typed
  <2> QED BY <1>1, <1>2, <2>1 DEF Click, Answer
<1>4. UNCHANGED acks
  BY DEF AttemptItemInteractionWithBlock, PlaceBlock, copyVars
<1>5. /\ Ordered' /\ Awaited' /\ (Visible => Visible')
      /\ \A p : Predicted(p) => Predicted(p)' \/ (p = side /\ \A i \in DOMAIN acks : ~Sets(acks[i], p))
  <2>1. m \in Nat /\ DOMAIN acks = 1..m
    BY <1>0 DEF Typed
  <2>2. 0 \in 0..m /\ m - 0 = m /\ (\A i \in 1..m : i + 0 = i) /\ 1..0 = {}
    BY <2>1
  <2>3. m = Len(acks)
    OBVIOUS
  <2> HIDE DEF m, side
  <2>4. DOMAIN acks' = 1..(m - 0) /\ \A i \in 1..(m - 0) : acks'[i] = acks[i + 0]
    BY <1>4, <2>1, <2>2
  <2>5. /\ Ordered' /\ Awaited' /\ (Visible => Visible')
        /\ \A p : Predicted(p) => Predicted(p)' \/ (Places(1, p) /\ \A i \in DOMAIN acks : ~Sets(acks[i], p))
    BY <1>0, <1>1, <2>2, <2>3, <2>4, FirstHandled
  <2> QED BY <1>2, <2>5
<1> HIDE DEF m, side, pos
<1>6. ASSUME Regular'
      PROVE  /\ Regular /\ Loaded /\ Carried /\ (~resent => NothingElse /\ Visible) /\ \A p \in Positions : Matches(p)
  BY <1>1, <1>6 DEF Regular, CopyInv
\* The client is told what is at some positions.
<1>7. ASSUME NEW D \in SUBSET Positions, side \in D, SyncBlocks(D), UNCHANGED <<blockUpdates, through>> PROVE CopyInv'
  <2>1. ASSUME Regular'
        PROVE  /\ Loaded' /\ Carried' /\ (NothingElse => NothingElse')
               /\ \A p \in Positions : Matches(p) => Matches(p)'
    <3>1. UNCHANGED <<worldVars, client, server, down, acks, backend, resent, through, lost>>
      BY <1>1, <1>4, <1>7 DEF worldVars
    <3> QED BY <1>0, <1>5, <1>6, <1>7, <2>1, <3>1, SyncBlocksAgrees
  <2> QED BY <1>1, <1>5, <1>6, <2>1 DEF CopyInv
\* There is another block, which the client will have.
<1>8. ASSUME Block(side) # "air", UNCHANGED <<blockUpdates, outbox, copyVars, through>> PROVE CopyInv'
  <2>1. ASSUME Regular' PROVE Loaded' /\ Carried' /\ (NothingElse => NothingElse')
    BY <1>1, <1>6, <1>8, <2>1 DEF Loaded, Carried, NothingElse, copyVars
  <2>2. ASSUME Regular', NEW p \in Positions PROVE Matches(p)'
    <3>1. (Silent(p)' <=> Silent(p)) /\ \A v : (Ends(p, v)' <=> Ends(p, v)) /\ (Arrives(p, v)' <=> Arrives(p, v))
      BY <1>1, <1>8 DEF Silent, Ends, Arrives, Block, copyVars
    <3>2. Served(p)' <=> Served(p)
      BY <1>1, <1>8, <3>1 DEF Served, Block, copyVars
    <3>3. ASSUME Silent(p), Predicted(p), Ends(p, "air") PROVE Predicted(p)'
      <4> SUFFICES ASSUME p = side, \A i \in DOMAIN acks : ~Sets(acks[i], p) PROVE FALSE
        BY <1>5, <3>3
      <4>1. p \notin DOMAIN batch
        BY <1>6, <2>2, <3>3 DEF Carried, Silent
      <4> QED BY <1>8, <3>3, <4>1 DEF Ends, LastSet
    <3>4. Agreed(p) => Agreed(p)'
      BY <1>1, <3>1, <3>3 DEF Agreed
    <3> QED BY <1>1, <1>6, <1>8, <2>2, <3>2, <3>4 DEF Matches, Excepted
  <2> QED BY <1>1, <1>5, <1>6, <2>1, <2>2 DEF CopyInv
\* The block is placed.
<1>9. ASSUME blockUpdates' = Put(blockUpdates, side, "stone"), through' = through \cup {side},
             UNCHANGED <<outbox, batch, acks, pending>>
      PROVE  CopyInv'
  <2>1. ASSUME Regular' PROVE Loaded' /\ Carried' /\ (NothingElse => NothingElse')
    BY <1>1, <1>6, <1>9, <2>1 DEF Loaded, Carried, NothingElse
  <2>2. ASSUME NEW p \in Positions
        PROVE  (p = side => Block(p)' = "stone") /\ (p # side => Block(p)' = Block(p))
    <3>1. /\ p = side => p \in DOMAIN blockUpdates' /\ blockUpdates'[p] = "stone"
          /\ p # side => /\ p \in DOMAIN blockUpdates' <=> p \in DOMAIN blockUpdates
                         /\ p \in DOMAIN blockUpdates => blockUpdates'[p] = blockUpdates[p]
      BY <1>9 DEF Put
    <3>2. CASE p = side
      BY <3>1, <3>2 DEF Block
    <3>3. CASE p # side
      <4>1. chunk' = chunk
        BY <1>1
      <4> QED BY <3>1, <3>3, <4>1 DEF Block
    <3> QED BY <3>2, <3>3
  <2>3. ASSUME Regular', NEW p \in Positions PROVE Matches(p)'
    <3>0. /\ Loaded /\ Carried /\ (~resent => NothingElse /\ Visible) /\ Matches(p)
      BY <1>6, <2>3
    <3>1. (Silent(p)' <=> Silent(p)) /\ \A v : Arrives(p, v)' <=> Arrives(p, v)
      BY <1>1, <1>9 DEF Silent, Arrives
    <3>2. CASE p # side
      <4>1. \A v : Ends(p, v)' <=> Ends(p, v)
        BY <1>9, <2>2, <3>2 DEF Ends
      <4>2. Served(p)' <=> Served(p)
        BY <1>1, <1>9, <2>2, <3>2, <4>1 DEF Served
      <4>3. Agreed(p) => Agreed(p)'
        BY <1>1, <1>5, <3>1, <3>2, <4>1 DEF Agreed
      <4> QED BY <1>1, <1>9, <3>0, <3>2, <4>2, <4>3 DEF Matches, Excepted
    <3>3. ASSUME p = side, ~resent PROVE Agreed(p)'
      <4>1. Agreed(p)
        BY <3>0, <3>3 DEF Matches
      <4>2. CASE p \in DOMAIN batch \/ \E i \in DOMAIN acks : Sets(acks[i], p)
        <5>1. \A v : Ends(p, v) => Ends(p, v)'
          BY <1>9, <4>2 DEF Ends
        <5>2. Silent(p) /\ Predicted(p) => Predicted(p)'
          <6>1. Silent(p) => p \notin DOMAIN batch
            BY <3>0 DEF Carried, Silent
          <6> QED BY <1>5, <4>2, <6>1
        <5> QED BY <1>1, <3>1, <4>1, <5>1, <5>2 DEF Agreed
      <4>3. CASE p \notin DOMAIN batch /\ \A i \in DOMAIN acks : ~Sets(acks[i], p)
        <5>1. Ends(p, "stone")'
          BY <1>9, <2>2, <3>3, <4>3 DEF Ends, Sets
        <5>2. Silent(p)
          BY <3>0, <3>3, <4>3 DEF NothingElse, Silent
        <5>3. client[p] = "stone"
          <6>1. Places(1, p)
            BY <1>1, <1>2, <3>3 DEF Places, side, pos
          <6> QED BY <1>2, <3>0, <3>3, <4>3, <6>1 DEF Visible
        <5>4. client'[p] = "stone" /\ "stone" \in Blocks
          BY <1>1, <5>3 DEF Blocks
        <5> QED BY <3>1, <5>1, <5>2, <5>4 DEF Agreed
      <4> QED BY <4>2, <4>3
    <3> QED BY <1>1, <1>9, <3>2, <3>3 DEF Matches, Excepted
  <2> QED BY <1>1, <1>5, <1>6, <2>1, <2>3 DEF CopyInv
<1>10. CASE SyncBlocks({pos, side}) /\ UNCHANGED <<blockUpdates, through>>
  BY <1>3, <1>7, <1>10
<1>11. CASE PlaceBlock(pos, side, Head(up).face, obstacle = "blocked")
  <2>1. CASE Block(side) # "air"
    BY <1>8, <1>11, <2>1 DEF PlaceBlock
  <2>2. CASE Block(side) = "air" /\ obstacle = "blocked"
    <3>1. SyncBlocks({side}) /\ UNCHANGED <<blockUpdates, through>>
      BY <1>11, <2>2 DEF PlaceBlock
    <3> QED BY <1>3, <1>7, <3>1
  <2>3. CASE Block(side) = "air" /\ obstacle # "blocked"
    BY <1>9, <1>11, <2>3 DEF PlaceBlock
  <2> QED BY <2>1, <2>2, <2>3
<1> QED BY <1>10, <1>11 DEF AttemptItemInteractionWithBlock, pos, side

-----------------------------------------------------------------------------
(* the copy and the client *)

\* The copy, the client and the server start with the same blocks.
LEMMA CopyStart == Init => CopyInv
<1> SUFFICES ASSUME Init PROVE CopyInv
  OBVIOUS
<1>1. /\ DOMAIN acks = {} /\ DOMAIN outbox = {} /\ DOMAIN down = {} /\ DOMAIN up = {}
      /\ DOMAIN batch = {} /\ DOMAIN pending = {} /\ DOMAIN blockUpdates = {}
      /\ chunk = Ground /\ client = Ground /\ server = Ground /\ backend = 0
  BY DEF Init, Empty
<1>2. Ground \in World
  BY DEF Ground, World, Blocks
<1>3. Ordered /\ Awaited
  BY <1>1 DEF Ordered, Awaited
<1>4. Loaded /\ Carried /\ NothingElse /\ Visible
  <2>1. Ground # Unloaded
    BY <1>2, WorldLoaded
  <2> QED BY <1>1, <2>1 DEF Loaded, Carried, NothingElse, Visible, Told
<1>5. ASSUME NEW p \in Positions PROVE Matches(p)
  <2>1. Block(p) = server[p] /\ client[p] = server[p] /\ server[p] \in Blocks
    BY <1>1, <1>2, <1>4 DEF Block, World, Loaded
  <2>2. Ends(p, server[p])
    BY <1>1, <2>1 DEF Ends
  <2>3. Silent(p)
    BY <1>1 DEF Silent, Told
  <2> QED BY <1>1, <2>1, <2>2, <2>3 DEF Matches, Agreed, Served
<1> QED BY <1>3, <1>4, <1>5 DEF CopyInv

\* Every step keeps client, copy and server in line.
LEMMA CopyStep == IInv /\ CopyInv /\ [Next]_vars => CopyInv'
<1> SUFFICES ASSUME IInv, CopyInv, [Next]_vars PROVE CopyInv'
  OBVIOUS
<1>1. ASSUME NEW D \in SUBSET (Positions \ {0}) \ {{}}, NEW rid \in Blocks, HandleBlockUpdates([p \in D |-> rid])
      PROVE  CopyInv'
  <2>1. D \in SUBSET Positions
    OBVIOUS
  <2> QED BY <1>1, <2>1, HandleBlockUpdatesAgrees
<1>2. CASE HandleLevelChunk
  BY <1>2, HandleLevelChunkAgrees
<1>3. CASE TransferServerConn
  BY <1>3, TransferServerConnAgrees
<1>4. CASE PlayerTick
  BY <1>4, PlayerTickAgrees
<1>5. CASE ClientTick
  BY <1>5, ClientTickAgrees
<1>6. CASE ExecuteACK
  BY <1>6, ExecuteACKAgrees
<1>7. CASE ClientReceive
  BY <1>7, ClientReceiveAgrees
<1>8. ASSUME NEW pos \in Positions, NEW face \in Faces, ClientPlace(pos, face) PROVE CopyInv'
  BY <1>8, ClientPlaceAgrees
<1>9. ASSUME NEW obstacle \in {"none", "far", "blocked"}, AttemptItemInteractionWithBlock(obstacle) PROVE CopyInv'
  BY <1>9, AttemptAgrees
<1>10. CASE UNCHANGED vars
  <2>1. /\ UNCHANGED <<chunk, blockUpdates, client, server, outbox, down, up, batch, acks, pending, ticks, backend>>
        /\ UNCHANGED <<early, resent, through, lost>>
    BY <1>10 DEF vars
  <2>2. \A p : \A v : (Ends(p, v)' <=> Ends(p, v)) /\ (Arrives(p, v)' <=> Arrives(p, v))
    BY <2>1 DEF Ends, Block, Arrives
  <2>3. \A p : (Silent(p)' <=> Silent(p)) /\ (Predicted(p)' <=> Predicted(p))
    BY <2>1 DEF Silent, Predicted, Places, Answers
  <2>4. \A p : (Agreed(p)' <=> Agreed(p)) /\ (Served(p)' <=> Served(p)) /\ (p \in Excepted' <=> p \in Excepted)
    BY <2>1, <2>2, <2>3 DEF Agreed, Served, Block, Excepted
  <2>5. Ordered' /\ Awaited'
    BY <2>1 DEF CopyInv, Ordered, Awaited, Answers
  <2>6. ASSUME Regular'
        PROVE  Loaded' /\ Carried' /\ (~resent' => NothingElse' /\ Visible') /\ \A p \in Positions : Matches(p)'
    <3>1. Loaded /\ Carried /\ (~resent => NothingElse /\ Visible) /\ \A p \in Positions : Matches(p)
      BY <2>1, <2>6 DEF Regular, CopyInv
    <3>2. Loaded' /\ Carried'
      BY <2>1, <3>1 DEF Loaded, Carried
    <3>3. (NothingElse => NothingElse') /\ (Visible => Visible')
      BY <2>1 DEF NothingElse, Visible, Places, Answers
    <3>4. \A p \in Positions : Matches(p)'
      BY <2>1, <2>4, <3>1 DEF Matches
    <3> QED BY <2>1, <3>1, <3>2, <3>3, <3>4
  <2> QED BY <2>5, <2>6 DEF CopyInv
<1> QED BY <1>1, <1>2, <1>3, <1>4, <1>5, <1>6, <1>7, <1>8, <1>9, <1>10 DEF Next

\* When nothing is on its way everything has run and arrived.
LEMMA QuietAgrees == IInv /\ CopyInv => CopyAgrees
<1> SUFFICES ASSUME IInv, CopyInv, Quiet, Regular, NEW p \in Positions
             PROVE  /\ ~resent => Block(p) = client[p]
                    /\ p \notin through \cup lost => client[p] = server[p]
  BY DEF CopyAgrees, Regular
<1>1. DOMAIN outbox = {} /\ DOMAIN down = {} /\ DOMAIN up = {} /\ DOMAIN batch = {}
  BY EmptyMap DEF Quiet
<1>2. DOMAIN acks = {}
  BY <1>1 DEF CopyInv, Awaited
<1>3. \A v : Ends(p, v) => Block(p) = v
  BY <1>1, <1>2 DEF Ends, LastSet
<1>4. ~Predicted(p) /\ \A v : ~Arrives(p, v)
  BY <1>1 DEF Predicted, Arrives, Tells
<1>5. Agreed(p) => Block(p) = client[p]
  BY <1>3, <1>4 DEF Agreed
<1>6. Served(p) => Block(p) = server[p]
  BY <1>3 DEF Served
<1>7. Matches(p)
  BY DEF CopyInv
<1> QED BY <1>5, <1>6, <1>7 DEF Matches, Excepted

\* When all is answered the copy KillLime keeps shows what the client shows, whatever was placed, refused and
\* updated in between; and where no placement was let through, the client shows the block of the server.  So
\* HandleUpdateBlock may send an update before it is in the copy, ACKComponent.Execute may run any number of
\* acknowledgements at once, and SyncBlock may keep silent where an update is pending.
THEOREM CopyStaysInLine == Spec => []CopyAgrees
<1>1. IInv /\ CopyInv /\ [Next]_vars => CopyInv'
  BY CopyStep
<1> QED BY Invariance, CopyStart, <1>1, QuietAgrees, PTL DEF Spec

=============================================================================
