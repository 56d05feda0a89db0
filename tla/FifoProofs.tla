----------------------------- MODULE FifoProofs -----------------------------
(***************************************************************************)
(* Theorems about PerProtocol: no message is ever in two places or         *)
(* overtakes another of its application, the stack implements the lossy    *)
(* FIFO channel, the counter is never ahead of what was received, and no   *)
(* pipe stalls that could hold the whole traffic, for any applications,    *)
(* messages, capacities, strays and start-up order.                        *)
(***************************************************************************)
EXTENDS PerProtocolProofs, FiniteSetTheorems

-----------------------------------------------------------------------------
(* Where a message can be, and how far along that is                       *)

Holders == Threads \cup {Wire}

\* The rank of a place, by the kind of its holder.
LEMMA RankOf ==
  ASSUME NEW w, NEW i \in Nat
  PROVE  LET off == IF i = 0 THEN 1 ELSE 0 IN
         /\ w[1] = "app" => Rank(<<w, i>>) = 0
         /\ w[1] = "send" => Rank(<<w, i>>) = 9 - 2 * Depth(w[2]) + off
         /\ w[1] = "net" => Rank(<<w, i>>) = 9
         /\ w[1] = "listen" => Rank(<<w, i>>) = 10
         /\ w[1] = "recv" => Rank(<<w, i>>) = 9 + 2 * Depth(w[2]) + off
<1>1. <<w, i>>[1] = w /\ <<w, i>>[2] = i
  OBVIOUS
<1>2. CASE w[1] = "app"
  BY <1>1, <1>2 DEF Rank
<1>3. CASE w[1] = "send"
  BY <1>1, <1>3 DEF Rank
<1>4. CASE w[1] = "net"
  BY <1>1, <1>4 DEF Rank
<1>5. CASE w[1] = "listen"
  BY <1>1, <1>5 DEF Rank
<1>6. CASE w[1] = "recv"
  BY <1>1, <1>6 DEF Rank
<1> QED
  BY <1>2, <1>3, <1>4, <1>5, <1>6

\* The kinds of holders.
LEMMA HolderKinds ==
  ASSUME NEW w \in Holders
  PROVE  \/ \E a \in Apps : w = App(a) /\ w[1] = "app" /\ w[2] = a
         \/ w \in Stages /\ w[1] \in {"send", "recv"} /\ w[2] \in ProtocolIds
         \/ w = Wire /\ w[1] = "net"
         \/ w = Listener /\ w[1] = "listen"
  BY DEF Holders, Threads, Stages, Wire, Listener, App

\* Places of equal rank are with holders of the same kind and depth.
LEMMA SameRank ==
  ASSUME NEW w \in Holders, NEW i \in Nat, NEW v \in Holders, NEW j \in Nat
  PROVE  /\ Rank(<<w, i>>) \in 0..18
         /\ Rank(<<w, i>>) = Rank(<<v, j>>) =>
               /\ w[1] = v[1]
               /\ w \in Stages => /\ v \in Stages /\ Depth(w[2]) = Depth(v[2])
                                  /\ i = 0 <=> j = 0
<1>1. \A p \in ProtocolIds : Depth(p) \in 1..4
  BY DEF Depth
<1>2. \A u \in Holders : u[1] \in {"app", "send", "net", "listen", "recv"} /\
                         (u \in Stages <=> u[1] \in {"send", "recv"}) /\
                         (u \in Stages => Depth(u[2]) \in 1..4)
  <2> TAKE u \in Holders
  <2>1. CASE \E a \in Apps : u = App(a) /\ u[1] = "app"
    BY <2>1 DEF Stages
  <2>2. CASE u \in Stages /\ u[1] \in {"send", "recv"} /\ u[2] \in ProtocolIds
    BY <1>1, <2>2
  <2>3. CASE u = Wire /\ u[1] = "net"
    BY <2>3 DEF Stages
  <2>4. CASE u = Listener /\ u[1] = "listen"
    BY <2>4 DEF Stages
  <2> QED
    BY <2>1, <2>2, <2>3, <2>4, HolderKinds
<1> DEFINE r(u, k) == LET off == IF k = 0 THEN 1 ELSE 0 IN
                      /\ u[1] = "app" => Rank(<<u, k>>) = 0
                      /\ u[1] = "send" => Rank(<<u, k>>) = 9 - 2 * Depth(u[2]) + off
                      /\ u[1] = "net" => Rank(<<u, k>>) = 9
                      /\ u[1] = "listen" => Rank(<<u, k>>) = 10
                      /\ u[1] = "recv" => Rank(<<u, k>>) = 9 + 2 * Depth(u[2]) + off
<1>3. r(w, i) /\ r(v, j)
  BY RankOf
<1> DEFINE dw == Depth(w[2])
           dv == Depth(v[2])
           kw == w[1]
           kv == v[1]
           rw == Rank(<<w, i>>)
           rv == Rank(<<v, j>>)
<1>4. /\ kw \in {"app", "send", "net", "listen", "recv"}
      /\ kv \in {"app", "send", "net", "listen", "recv"}
      /\ kw \in {"send", "recv"} => dw \in 1..4
      /\ kv \in {"send", "recv"} => dv \in 1..4
      /\ w \in Stages <=> kw \in {"send", "recv"}
      /\ v \in Stages <=> kv \in {"send", "recv"}
  BY <1>2
<1>5. LET ow == IF i = 0 THEN 1 ELSE 0
          ov == IF j = 0 THEN 1 ELSE 0 IN
      /\ kw = "app" => rw = 0
      /\ kw = "send" => rw = 9 - 2 * dw + ow
      /\ kw = "net" => rw = 9
      /\ kw = "listen" => rw = 10
      /\ kw = "recv" => rw = 9 + 2 * dw + ow
      /\ kv = "app" => rv = 0
      /\ kv = "send" => rv = 9 - 2 * dv + ov
      /\ kv = "net" => rv = 9
      /\ kv = "listen" => rv = 10
      /\ kv = "recv" => rv = 9 + 2 * dv + ov
  BY <1>3
<1> HIDE DEF dw, dv, kw, kv, rw, rv, r
<1>6. rw \in 0..18
  BY <1>4, <1>5
<1>7. ASSUME rw = rv
      PROVE  /\ kw = kv
             /\ kw \in {"send", "recv"} => dw = dv /\ (i = 0 <=> j = 0)
  <2>1. CASE kw = "send"
    BY <1>4, <1>5, <1>7, <2>1
  <2>2. CASE kw = "recv"
    BY <1>4, <1>5, <1>7, <2>2
  <2>3. CASE kw \in {"app", "net", "listen"}
    BY <1>4, <1>5, <1>7, <2>3
  <2> QED
    BY <1>4, <2>1, <2>2, <2>3
<1>8. rw \in 0..18 /\ (rw = rv => /\ kw = kv
                                  /\ w \in Stages => v \in Stages /\ dw = dv /\ (i = 0 <=> j = 0))
  BY <1>4, <1>6, <1>7
<1> QED
  BY <1>8 DEF dw, dv, kw, kv, rw, rv

-----------------------------------------------------------------------------
(* The order of the messages, by the tags of the places that are filled    *)

TagOf(m) == [app |-> m.app, own |-> Own(m), n |-> IF Own(m) THEN m.n ELSE -m.n]
Tags     == [x \in Places |-> TagOf(MsgAt(x))]

\* How many messages each application has sent, and how many strays have come.
Entered == [own |-> sent, strays |-> strays]

\* Tags of one sequence of numbers.
Alike(t, u) == t.app = u.app /\ t.own = u.own

Placed(T) == \A x \in DOMAIN T : \E w \in Holders, i \in Nat : x = <<w, i>>

Before(x, y) == Rank(x) > Rank(y) \/ (Rank(x) = Rank(y) /\ x[1] = y[1] /\ x[2] < y[2])

Ordered(T) ==
    \A x \in DOMAIN T : \A y \in DOMAIN T \ {x} :
        Alike(T[x], T[y]) => \/ Before(x, y) /\ T[x].n < T[y].n
                             \/ Before(y, x) /\ T[y].n < T[x].n

\* The tags of the messages and strays that s counts.
Known(tag, s) ==
    /\ tag.app \in AppIds
    /\ IF tag.own THEN tag.app \in Apps /\ tag.n \in 1..s.own[tag.app]
                  ELSE tag.n \in 1..s.strays

\* A message of this program is later than those its application has received.
Later(tag, d) == tag.own => \A i \in DOMAIN d[tag.app] : d[tag.app][i] < tag.n

\* Every message is one of those that came in, and later than those received.
InRange(T, s, d) == \A x \in DOMAIN T : Known(T[x], s) /\ Later(T[x], d)

\* Strays of one number are for one application: with Ordered, they are one.
OneStray(T) ==
    \A x, y \in DOMAIN T : ~T[x].own /\ ~T[y].own /\ T[x].n = T[y].n => T[x].app = T[y].app

Orderly(T, s, d) == Ordered(T) /\ InRange(T, s, d) /\ OneStray(T)

\* What may be said of a place.
LEMMA PlaceIs ==
  ASSUME NEW T, Placed(T), NEW x \in DOMAIN T
  PROVE  x[1] \in Holders /\ x[2] \in Nat /\ x = <<x[1], x[2]>> /\ Rank(x) \in 0..18
<1>1. PICK w \in Holders, i \in Nat : x = <<w, i>>
  BY DEF Placed
<1>2. x[1] = w /\ x[2] = i
  BY <1>1
<1> QED
  BY <1>1, <1>2, SameRank

\* One message moves up by one rank, from the front of its place x to behind all
\* of its application at z, and the others keep their rank and their holder.  g
\* gives the place a message was at before.
Moved(T, T2, g, x, z) ==
    /\ \A y \in DOMAIN T2 \ {z} : /\ g[y] \in DOMAIN T \ {x} /\ T2[y] = T[g[y]]
                                /\ Rank(g[y]) = Rank(y) /\ g[y][1] = y[1]
    /\ \A y \in DOMAIN T2 \ {z}, v \in DOMAIN T2 \ {z} :
           y[1] = v[1] /\ Rank(y) = Rank(v) => (g[y][2] < g[v][2] <=> y[2] < v[2])
    /\ z \in DOMAIN T2 =>
           /\ x \in DOMAIN T /\ T2[z] = T[x] /\ Rank(z) = Rank(x) + 1
           /\ \A v \in DOMAIN T : v[1] = x[1] /\ Rank(v) = Rank(x) => ~(v[2] < x[2])
           /\ \A v \in DOMAIN T2 \ {z} : T2[v].app = T2[z].app /\ Rank(v) = Rank(z) =>
                                           v[1] = z[1] /\ v[2] < z[2]

\* The order survives such a move.
LEMMA Carry ==
  ASSUME NEW T, NEW T2, Placed(T), Placed(T2), NEW s, NEW d, Orderly(T, s, d),
         NEW g, NEW x, NEW z, Moved(T, T2, g, x, z)
  PROVE  Orderly(T2, s, d)
<1>0. /\ \A y \in DOMAIN T : y[2] \in Nat /\ Rank(y) \in Int /\ y = <<y[1], y[2]>>
      /\ \A y \in DOMAIN T2 : y[2] \in Nat /\ Rank(y) \in Int /\ y = <<y[1], y[2]>>
  BY PlaceIs
<1>1. ASSUME NEW y \in DOMAIN T2 \ {z}, NEW v \in DOMAIN T2 \ {z, y}, Alike(T2[y], T2[v])
      PROVE  \/ Before(y, v) /\ T2[y].n < T2[v].n
             \/ Before(v, y) /\ T2[v].n < T2[y].n
  <2>1. g[y] # g[v]
    <3>1. CASE Rank(y) = Rank(v) /\ y[1] = v[1]
      <4>1. y[2] # v[2]
        BY <1>0, <3>1
      <4>2. y[2] < v[2] \/ v[2] < y[2]
        BY <1>0, <4>1
      <4>3. g[y][2] < g[v][2] \/ g[v][2] < g[y][2]
        BY <3>1, <4>2 DEF Moved
      <4>4. g[y][2] \in Nat /\ g[v][2] \in Nat
        BY <1>0 DEF Moved
      <4> QED
        BY <4>3, <4>4
    <3>2. CASE ~(Rank(y) = Rank(v) /\ y[1] = v[1])
      BY <3>2 DEF Moved
    <3> QED
      BY <3>1, <3>2
  <2>2. \/ Before(g[y], g[v]) /\ T[g[y]].n < T[g[v]].n
        \/ Before(g[v], g[y]) /\ T[g[v]].n < T[g[y]].n
    <3>1. g[y] \in DOMAIN T /\ g[v] \in DOMAIN T \ {g[y]} /\ Alike(T[g[y]], T[g[v]])
      BY <1>1, <2>1 DEF Moved
    <3> QED
      BY <3>1 DEF Orderly, Ordered
  <2>3. (Before(g[y], g[v]) => Before(y, v)) /\ (Before(g[v], g[y]) => Before(v, y))
    BY DEF Before, Moved
  <2>4. T2[y] = T[g[y]] /\ T2[v] = T[g[v]]
    BY DEF Moved
  <2> QED
    BY <2>2, <2>3, <2>4
<1>2. ASSUME z \in DOMAIN T2, NEW v \in DOMAIN T2 \ {z}, Alike(T2[z], T2[v])
      PROVE  \/ Before(z, v) /\ T2[z].n < T2[v].n
             \/ Before(v, z) /\ T2[v].n < T2[z].n
  <2>1. /\ g[v] \in DOMAIN T \ {x} /\ T2[v] = T[g[v]] /\ Rank(g[v]) = Rank(v) /\ g[v][1] = v[1]
        /\ x \in DOMAIN T /\ T2[z] = T[x] /\ Rank(z) = Rank(x) + 1
    BY <1>2 DEF Moved
  <2>2. \/ Before(x, g[v]) /\ T[x].n < T[g[v]].n
        \/ Before(g[v], x) /\ T[g[v]].n < T[x].n
    BY <1>2, <2>1 DEF Orderly, Ordered
  <2>3. Rank(x) \in Int /\ Rank(v) \in Int /\ Rank(z) \in Int
    BY <1>0, <1>2, <2>1
  <2>4. Before(x, g[v]) => Before(z, v)
    BY <2>1, <2>3 DEF Before
  <2>5. ASSUME Before(g[v], x) PROVE Before(v, z)
    <3>1. Rank(g[v]) > Rank(x)
      BY <1>2, <2>1, <2>5 DEF Before, Moved
    <3>2. CASE Rank(v) = Rank(z)
      BY <1>2, <3>2 DEF Before, Moved, Alike
    <3>3. CASE Rank(v) # Rank(z)
      BY <2>1, <2>3, <3>1, <3>3 DEF Before
    <3> QED
      BY <3>2, <3>3
  <2> QED
    BY <2>1, <2>2, <2>4, <2>5
<1>3. Ordered(T2)
  BY <1>1, <1>2 DEF Ordered, Alike
<1>4. \A y \in DOMAIN T2 : \E v \in DOMAIN T : T2[y] = T[v]
  BY DEF Moved
<1>5. InRange(T2, s, d) /\ OneStray(T2)
  BY <1>4 DEF Orderly, InRange, OneStray
<1> QED
  BY <1>3, <1>5 DEF Orderly

\* A message leaves the hand of t for the end of the queue that w holds.
LEMMA Put ==
  ASSUME NEW T, NEW T2, Placed(T), Placed(T2), NEW s, NEW d, Orderly(T, s, d),
         NEW t, NEW w, NEW k \in Nat \ {0},
         Rank(<<w, k>>) = Rank(<<t, 0>>) + 1,
         \A y \in DOMAIN T2 \ {<<w, k>>} : y \in DOMAIN T \ {<<t, 0>>} /\ T2[y] = T[y],
         <<w, k>> \in DOMAIN T2 => <<t, 0>> \in DOMAIN T /\ T2[<<w, k>>] = T[<<t, 0>>],
         \A v \in DOMAIN T : T[v].app = T[<<t, 0>>].app /\ Rank(v) = Rank(<<w, k>>) =>
                               v[1] = w /\ v[2] < k
  PROVE  Orderly(T2, s, d)
<1> DEFINE x == <<t, 0>>
           z == <<w, k>>
           g == [y \in DOMAIN T2 |-> y]
<1>1. x[1] = t /\ x[2] = 0 /\ z[1] = w /\ z[2] = k
  OBVIOUS
<1>2. Rank(z) = Rank(x) + 1
  OBVIOUS
<1>3. \A y \in DOMAIN T2 \ {z} : y \in DOMAIN T \ {x} /\ T2[y] = T[y]
  OBVIOUS
<1>4. z \in DOMAIN T2 => x \in DOMAIN T /\ T2[z] = T[x]
  OBVIOUS
<1>5. \A v \in DOMAIN T : T[v].app = T[x].app /\ Rank(v) = Rank(z) => v[1] = z[1] /\ v[2] < z[2]
  BY <1>1
<1> HIDE DEF x, z
<1>6. \A y \in DOMAIN T2 \ {z} : /\ g[y] = y /\ g[y] \in DOMAIN T \ {x} /\ T2[y] = T[g[y]]
                               /\ Rank(g[y]) = Rank(y) /\ g[y][1] = y[1]
  BY <1>3
<1>7. \A y \in DOMAIN T2 \ {z}, v \in DOMAIN T2 \ {z} :
          y[1] = v[1] /\ Rank(y) = Rank(v) => (g[y][2] < g[v][2] <=> y[2] < v[2])
  BY <1>6
<1>8. ASSUME z \in DOMAIN T2
      PROVE  /\ x \in DOMAIN T /\ T2[z] = T[x] /\ Rank(z) = Rank(x) + 1
             /\ \A v \in DOMAIN T : v[1] = x[1] /\ Rank(v) = Rank(x) => ~(v[2] < x[2])
             /\ \A v \in DOMAIN T2 \ {z} : T2[v].app = T2[z].app /\ Rank(v) = Rank(z) =>
                                             v[1] = z[1] /\ v[2] < z[2]
  <2>1. x \in DOMAIN T /\ T2[z] = T[x]
    BY <1>4, <1>8
  <2>2. \A v \in DOMAIN T : v[2] \in Nat
    BY PlaceIs
  <2>3. \A v \in DOMAIN T : ~(v[2] < x[2])
    BY <1>1, <2>2
  <2>4. \A v \in DOMAIN T2 \ {z} : v \in DOMAIN T /\ T2[v] = T[v]
    BY <1>6
  <2> QED
    BY <1>2, <1>5, <2>1, <2>3, <2>4
<1> HIDE DEF g
<1>9. \A y \in DOMAIN T2 \ {z} : /\ g[y] \in DOMAIN T \ {x} /\ T2[y] = T[g[y]]
                               /\ Rank(g[y]) = Rank(y) /\ g[y][1] = y[1]
  BY <1>6
<1> QED
  <2>1. Moved(T, T2, g, x, z)
    BY <1>7, <1>8, <1>9, Zenon DEF Moved
  <2> QED
    BY <2>1, Carry

\* The first message of the queue that w holds goes to the empty hand of h.
LEMMA Take ==
  ASSUME NEW T, NEW T2, Placed(T), Placed(T2), NEW s, NEW d, Orderly(T, s, d),
         NEW w \in Holders, NEW h \in Holders,
         Rank(<<h, 0>>) = Rank(<<w, 1>>) + 1,
         \A i \in Nat \ {0} : Rank(<<w, i>>) = Rank(<<w, 1>>),
         <<w, 0>> \notin DOMAIN T,
         \A y \in DOMAIN T2 \ {<<h, 0>>} :
             IF y[1] = w THEN y[2] # 0 /\ <<w, y[2] + 1>> \in DOMAIN T /\ T2[y] = T[<<w, y[2] + 1>>]
                         ELSE y \in DOMAIN T /\ T2[y] = T[y],
         <<h, 0>> \in DOMAIN T2 => <<w, 1>> \in DOMAIN T /\ T2[<<h, 0>>] = T[<<w, 1>>],
         \A v \in DOMAIN T : T[v].app = T[<<w, 1>>].app => Rank(v) # Rank(<<h, 0>>)
  PROVE  Orderly(T2, s, d)
<1> DEFINE x == <<w, 1>>
           z == <<h, 0>>
           g == [y \in DOMAIN T2 |-> IF y[1] = w THEN <<w, y[2] + 1>> ELSE y]
<1>1. x[1] = w /\ x[2] = 1 /\ z[1] = h /\ z[2] = 0
  OBVIOUS
<1>2. /\ \A y \in DOMAIN T2 : y \in DOMAIN T2 /\ y = <<y[1], y[2]>> /\ y[2] \in Nat
      /\ \A y \in DOMAIN T : y \in DOMAIN T /\ y = <<y[1], y[2]>> /\ y[2] \in Nat
  BY PlaceIs
<1>3. ASSUME NEW y \in DOMAIN T2 \ {z}
      PROVE  /\ g[y] \in DOMAIN T \ {x} /\ T2[y] = T[g[y]]
             /\ Rank(g[y]) = Rank(y) /\ g[y][1] = y[1]
             /\ g[y][2] = IF y[1] = w THEN y[2] + 1 ELSE y[2]
  <2>1. CASE y[1] = w
    <3>1. y[2] \in Nat \ {0} /\ <<w, y[2] + 1>> \in DOMAIN T /\ T2[y] = T[<<w, y[2] + 1>>]
      BY <1>2, <2>1
    <3>2. g[y] = <<w, y[2] + 1>> /\ g[y][1] = w /\ g[y][2] = y[2] + 1
      BY <1>2, <2>1
    <3>3. y[2] + 1 \in Nat \ {0} /\ y[2] + 1 # 1
      BY <3>1
    <3>4. Rank(g[y]) = Rank(<<w, 1>>) /\ Rank(y) = Rank(<<w, 1>>)
      <4>1. Rank(<<w, y[2] + 1>>) = Rank(<<w, 1>>) /\ Rank(<<w, y[2]>>) = Rank(<<w, 1>>)
        BY <3>1, <3>3
      <4> QED
        BY <1>2, <2>1, <3>2, <4>1
    <3>5. g[y] \in DOMAIN T /\ g[y] # x
      BY <1>1, <3>1, <3>2, <3>3
    <3> QED
      BY <2>1, <3>1, <3>2, <3>4, <3>5
  <2>2. CASE y[1] # w
    <3>1. g[y] = y /\ y \in DOMAIN T /\ T2[y] = T[y]
      BY <1>2, <2>2
    <3> QED
      BY <1>1, <2>2, <3>1
  <2> QED
    BY <2>1, <2>2
<1>4. \A y \in DOMAIN T2 \ {z}, v \in DOMAIN T2 \ {z} :
          y[1] = v[1] /\ Rank(y) = Rank(v) => (g[y][2] < g[v][2] <=> y[2] < v[2])
  BY <1>2, <1>3
<1>5. ASSUME z \in DOMAIN T2
      PROVE  /\ x \in DOMAIN T /\ T2[z] = T[x] /\ Rank(z) = Rank(x) + 1
             /\ \A v \in DOMAIN T : v[1] = x[1] /\ Rank(v) = Rank(x) => ~(v[2] < x[2])
             /\ \A v \in DOMAIN T2 \ {z} : T2[v].app = T2[z].app /\ Rank(v) = Rank(z) =>
                                             v[1] = z[1] /\ v[2] < z[2]
  <2>1. x \in DOMAIN T /\ T2[z] = T[x] /\ Rank(z) = Rank(x) + 1
    BY <1>5
  <2>2. ASSUME NEW v \in DOMAIN T, v[1] = x[1], v[2] < x[2] PROVE FALSE
    <3>1. v[2] \in Nat /\ v[2] < 1 /\ v = <<v[1], v[2]>> /\ v \in DOMAIN T /\ v[1] = w
      BY <1>1, <1>2, <2>2
    <3>2. v[2] = 0
      BY <3>1
    <3>3. v = <<w, 0>>
      BY <3>1, <3>2
    <3> QED
      BY <3>1, <3>3
  <2>3. \A v \in DOMAIN T2 \ {z} : T2[v].app = T2[z].app => Rank(v) # Rank(z)
    <3>1. \A v \in DOMAIN T : T[v].app = T[x].app => Rank(v) # Rank(z)
      OBVIOUS
    <3> HIDE DEF g, x, z
    <3> QED
      BY <1>3, <2>1, <3>1
  <2> QED
    BY <2>1, <2>2, <2>3
<1> HIDE DEF g, x, z
<1>6. \A y \in DOMAIN T2 \ {z} : /\ g[y] \in DOMAIN T \ {x} /\ T2[y] = T[g[y]]
                               /\ Rank(g[y]) = Rank(y) /\ g[y][1] = y[1]
  BY <1>3
<1> QED
  <2>1. Moved(T, T2, g, x, z)
    BY <1>4, <1>5, <1>6, Zenon DEF Moved
  <2> QED
    BY <2>1, Carry

\* The order survives when messages stay where they are, or are gone.
LEMMA Stay ==
  ASSUME NEW T, NEW T2, NEW s, NEW d, Orderly(T, s, d),
         \A y \in DOMAIN T2 : y \in DOMAIN T /\ T2[y] = T[y]
  PROVE  Orderly(T2, s, d)
  BY DEF Orderly, Ordered, InRange, OneStray

-----------------------------------------------------------------------------
(* The tags of a state                                                     *)

TagsMatch ==
    /\ Placed(Tags)
    /\ \A t \in Threads :
          /\ <<t, 0>> \in DOMAIN Tags <=> hand[t] # <<>> /\ pc[t] # "count"
          /\ <<t, 0>> \in DOMAIN Tags => Tags[<<t, 0>>] = TagOf(hand[t][1].msg)
    /\ \A q \in Pipes, i \in Nat \ {0} :
          /\ <<q, i>> \in DOMAIN Tags <=> i \in 1..Len(pipe[q])
          /\ i \in 1..Len(pipe[q]) => Tags[<<q, i>>] = TagOf(pipe[q][i].msg)
    /\ \A t \in Threads \ Pipes, i \in Nat \ {0} : <<t, i>> \notin DOMAIN Tags
    /\ \A i \in Nat :
          /\ <<Wire, i>> \in DOMAIN Tags <=> i \in 1..Len(net)
          /\ i \in 1..Len(net) => Tags[<<Wire, i>>] = TagOf(net[i])

\* The wire is neither a thread nor a pipe.
LEMMA WireApart == Wire \notin Threads /\ Wire \notin Pipes /\ Pipes \subseteq Threads
  BY DEF Wire, Threads, Pipes, Stages, App, Listener

\* Tags has the tag of every message at its place, and nothing else.
LEMMA TagsOfState == TInv => TagsMatch
<1> SUFFICES ASSUME TInv PROVE TagsMatch
  OBVIOUS
<1>0. /\ \A q \in Pipes : DOMAIN pipe[q] = 1..Len(pipe[q]) /\ Len(pipe[q]) \in Nat
      /\ DOMAIN net = 1..Len(net) /\ Len(net) \in Nat
  BY DEF TInv, TypeOK
<1>1. DOMAIN Tags = Places /\ \A x \in Places : Tags[x] = TagOf(MsgAt(x))
  BY DEF Tags
<1>2. ASSUME NEW w, NEW i
      PROVE  <<w, i>> \in Places <=>
                \/ w \in Pipes /\ i \in DOMAIN pipe[w]
                \/ w \in Threads /\ hand[w] # <<>> /\ pc[w] # "count" /\ i = 0
                \/ w = Wire /\ i \in DOMAIN net
  <2> DEFINE InPipe == UNION {{q} \X DOMAIN pipe[q] : q \in Pipes}
             InHand == {<<t, 0>> : t \in {x \in Threads : hand[x] # <<>> /\ pc[x] # "count"}}
             Buffer == {Wire} \X DOMAIN net
  <2>1. <<w, i>> \in InPipe <=> w \in Pipes /\ i \in DOMAIN pipe[w]
    OBVIOUS
  <2>2. <<w, i>> \in InHand <=> w \in Threads /\ hand[w] # <<>> /\ pc[w] # "count" /\ i = 0
    OBVIOUS
  <2>3. <<w, i>> \in Buffer <=> w = Wire /\ i \in DOMAIN net
    OBVIOUS
  <2>4. Places = InPipe \cup InHand \cup Buffer
    BY DEF Places
  <2> HIDE DEF InPipe, InHand, Buffer
  <2> QED
    BY <2>1, <2>2, <2>3, <2>4
<1>3. ASSUME NEW x \in Places
      PROVE  \E w \in Holders, i \in Nat : x = <<w, i>>
  <2>1. CASE \E q \in Pipes : x \in {q} \X DOMAIN pipe[q]
    <3>1. PICK q \in Pipes : x \in {q} \X DOMAIN pipe[q]
      BY <2>1
    <3>2. PICK i \in DOMAIN pipe[q] : x = <<q, i>>
      BY <3>1
    <3>3. i \in Nat /\ q \in Holders
      BY <1>0, WireApart DEF Holders
    <3> QED
      BY <3>2, <3>3
  <2>2. CASE x \in {<<t, 0>> : t \in {u \in Threads : hand[u] # <<>> /\ pc[u] # "count"}}
    BY <2>2 DEF Holders
  <2>3. CASE x \in {Wire} \X DOMAIN net
    BY <1>0, <2>3 DEF Holders
  <2> QED
    BY <2>1, <2>2, <2>3 DEF Places
<1>4. /\ \A t \in Threads : MsgAt(<<t, 0>>) = hand[t][1].msg
      /\ \A q \in Pipes, i \in Nat \ {0} : MsgAt(<<q, i>>) = pipe[q][i].msg
      /\ \A i \in Nat : MsgAt(<<Wire, i>>) = net[i]
  BY WireApart DEF MsgAt
<1>5. ASSUME NEW t \in Threads
      PROVE  /\ <<t, 0>> \in DOMAIN Tags <=> hand[t] # <<>> /\ pc[t] # "count"
             /\ <<t, 0>> \in DOMAIN Tags => Tags[<<t, 0>>] = TagOf(hand[t][1].msg)
  <2>1. <<t, 0>> \in Places <=> hand[t] # <<>> /\ pc[t] # "count"
    BY <1>0, <1>2, WireApart
  <2> QED
    BY <1>1, <1>4, <2>1
<1>6. ASSUME NEW q \in Pipes, NEW i \in Nat \ {0}
      PROVE  /\ <<q, i>> \in DOMAIN Tags <=> i \in 1..Len(pipe[q])
             /\ i \in 1..Len(pipe[q]) => Tags[<<q, i>>] = TagOf(pipe[q][i].msg)
  <2>1. <<q, i>> \in Places <=> i \in 1..Len(pipe[q])
    BY <1>0, <1>2, WireApart
  <2> QED
    BY <1>1, <1>4, <2>1
<1>7. ASSUME NEW t \in Threads \ Pipes, NEW i \in Nat \ {0} PROVE <<t, i>> \notin DOMAIN Tags
  BY <1>1, <1>2, WireApart
<1>8. ASSUME NEW i \in Nat
      PROVE  /\ <<Wire, i>> \in DOMAIN Tags <=> i \in 1..Len(net)
             /\ i \in 1..Len(net) => Tags[<<Wire, i>>] = TagOf(net[i])
  <2>1. <<Wire, i>> \in Places <=> i \in 1..Len(net)
    BY <1>0, <1>2, WireApart
  <2> QED
    BY <1>1, <1>4, <2>1
<1>9. Placed(Tags)
  BY <1>1, <1>3 DEF Placed
<1> QED
  BY <1>5, <1>6, <1>7, <1>8, <1>9 DEF TagsMatch

\* InOrder is the order of the tags.
LEMMA OrderIsInOrder ==
  Placed(Tags) /\ Ordered(Tags) /\ InRange(Tags, Entered, delivered) => InOrder
<1> SUFFICES ASSUME Placed(Tags), Ordered(Tags), InRange(Tags, Entered, delivered) PROVE InOrder
  OBVIOUS
<1> DEFINE Sent == {x \in Places : Own(MsgAt(x))}
<1>1. /\ Sent \subseteq DOMAIN Tags
      /\ \A x \in Sent : Tags[x].app = MsgAt(x).app /\ Tags[x].n = MsgAt(x).n /\ Tags[x].own
  BY DEF Tags, TagOf
<1>2. \A x \in DOMAIN Tags : x[2] \in Nat /\ Rank(x) \in Int /\ x = <<x[1], x[2]>>
  BY PlaceIs
<1> HIDE DEF Sent
<1>3. ASSUME NEW x \in Sent
      PROVE  /\ MsgAt(x).app \in Apps /\ MsgAt(x).n \in 1..sent[MsgAt(x).app]
             /\ \A i \in DOMAIN delivered[MsgAt(x).app] :
                   delivered[MsgAt(x).app][i] < MsgAt(x).n
  BY <1>1 DEF InRange, Known, Later, Entered
<1>4. ASSUME NEW x \in Sent, NEW y \in Sent \ {x}, MsgAt(y).app = MsgAt(x).app
      PROVE  \/ Rank(x) > Rank(y) /\ MsgAt(x).n < MsgAt(y).n
             \/ Rank(x) < Rank(y) /\ MsgAt(x).n > MsgAt(y).n
             \/ Rank(x) = Rank(y) /\ x[1] = y[1] /\ (x[2] < y[2] <=> MsgAt(x).n < MsgAt(y).n)
                                 /\ MsgAt(x).n # MsgAt(y).n
  <2>0. \A v \in Sent : MsgAt(v).n \in Int
    <3>1. \A v \in Sent : MsgAt(v).n \in 1..sent[MsgAt(v).app]
      BY <1>3
    <3> QED
      BY <3>1
  <2>1. \/ Before(x, y) /\ MsgAt(x).n < MsgAt(y).n
        \/ Before(y, x) /\ MsgAt(y).n < MsgAt(x).n
    BY <1>1, <1>4 DEF Ordered, Alike
  <2>2. x[2] \in Nat /\ y[2] \in Nat /\ Rank(x) \in Int /\ Rank(y) \in Int
    BY <1>1, <1>2
  <2>3. MsgAt(x).n \in Int /\ MsgAt(y).n \in Int
    BY <2>0
  <2>4. CASE Before(x, y) /\ MsgAt(x).n < MsgAt(y).n
    BY <2>2, <2>3, <2>4 DEF Before
  <2>5. CASE Before(y, x) /\ MsgAt(y).n < MsgAt(x).n
    BY <2>2, <2>3, <2>5 DEF Before
  <2> QED
    BY <2>1, <2>4, <2>5
<1> QED
  BY <1>3, <1>4 DEF InOrder, Sent

-----------------------------------------------------------------------------
(* The inductive invariant                                                 *)

Holding == {"lock", "handoff", "write", "count"}

\* A thread has a unit in hand exactly while it works on one.
Full == \A t \in Threads : IF pc[t] \in Holding THEN Len(hand[t]) = 1 ELSE hand[t] = <<>>

\* A holder that a message of an application passes.
Fits(w, app) ==
    /\ w \in Stages => w[2] = Layers(app)[Depth(w[2])]
    /\ \A a \in Apps : w = App(a) => app = a

\* A thread has only messages in hand that pass it.
OwnPath == \A t \in Threads : hand[t] # <<>> => Fits(t, hand[t][1].msg.app)

\* A thread hands on to the next place of the path; only stages have a mutex of
\* their own to lock.
Onward ==
    \A t \in Threads :
        /\ pc[t] \in {"handoff", "write"} =>
              dest[t] \in Pipes /\ Rank(<<dest[t], 1>>) = Rank(<<t, 0>>) + 1
        /\ pc[t] = "lock" => t \in Stages

\* What has been received was sent.
ReceivedSent == \A a \in Apps : \A i \in DOMAIN delivered[a] : delivered[a][i] <= sent[a]

OInv == HInv /\ Full /\ OwnPath /\ Onward /\ ReceivedSent /\ Orderly(Tags, Entered, delivered)

\* On the way of an application's messages, a rank has one holder.
LEMMA OneHolder ==
  ASSUME NEW w \in Holders, NEW v \in Holders, NEW i \in Nat, NEW j \in Nat, NEW app,
         Fits(w, app), Fits(v, app), Rank(<<w, i>>) = Rank(<<v, j>>)
  PROVE  w = v /\ (w \in Stages => (i = 0 <=> j = 0))
<1>1. /\ w[1] = v[1]
      /\ w \in Stages => v \in Stages /\ Depth(w[2]) = Depth(v[2]) /\ (i = 0 <=> j = 0)
  BY SameRank
<1>2. CASE w \in Stages
  <2>1. w[2] = v[2]
    BY <1>1, <1>2 DEF Fits
  <2>2. w = <<w[1], w[2]>> /\ v = <<v[1], v[2]>>
    BY <1>1, <1>2 DEF Stages
  <2> QED
    BY <1>1, <1>2, <2>1, <2>2
<1>3. CASE \E a \in Apps : w = App(a) /\ w[1] = "app" /\ w[2] = a
  <2>1. PICK a \in Apps : w = App(a) /\ w[1] = "app"
    BY <1>3
  <2>2. PICK b \in Apps : v = App(b)
    BY <1>1, <2>1, HolderKinds
  <2>3. a = app /\ b = app
    BY <2>1, <2>2 DEF Fits
  <2>4. w \notin Stages
    BY <2>1, ThreadSets
  <2> QED
    BY <2>1, <2>2, <2>3, <2>4
<1>4. CASE w = Wire /\ w[1] = "net"
  <2>1. v = Wire
    BY <1>1, <1>4, HolderKinds
  <2> QED
    BY <1>4, <2>1, WireApart, ThreadSets
<1>5. CASE w = Listener /\ w[1] = "listen"
  <2>1. v = Listener
    BY <1>1, <1>5, HolderKinds
  <2> QED
    BY <1>5, <2>1, ThreadSets
<1> QED
  BY <1>2, <1>3, <1>4, <1>5, HolderKinds

\* What is good for a stage is on the stage's path.
LEMMA GoodFits ==
  ASSUME NEW q \in Stages, NEW u, Good(q, u)
  PROVE  Fits(q, TagOf(u.msg).app)
<1>1. OnPath(u.msg, q[2])
  BY DEF Good, SendGood, RecvGood
<1> QED
  BY <1>1, ThreadSets DEF Fits, OnPath, TagOf

\* Every message is with a holder that messages of its application pass.
LEMMA TagsFit ==
  ASSUME HInv, OwnPath, TagsMatch, NEW x \in DOMAIN Tags
  PROVE  x[1] \in Holders /\ x[2] \in Nat /\ x = <<x[1], x[2]>> /\ Fits(x[1], Tags[x].app)
<1>1. PICK w \in Holders, i \in Nat : x = <<w, i>>
  BY DEF TagsMatch, Placed
<1>2. x[1] = w /\ x[2] = i
  BY <1>1
<1>3. CASE w \in Pipes /\ i # 0
  <2>1. i \in 1..Len(pipe[w]) /\ Tags[x] = TagOf(pipe[w][i].msg)
    BY <1>1, <1>3 DEF TagsMatch
  <2>2. Good(w, pipe[w][i]) /\ w \in Stages
    BY <1>3, <2>1, ThreadSets DEF HInv, InPipes
  <2> QED
    BY <1>1, <1>2, <2>1, <2>2, GoodFits
<1>4. CASE w \in Threads /\ i = 0
  <2>0. hand[w] # <<>> /\ Tags[x] = TagOf(hand[w][1].msg)
    BY <1>1, <1>4 DEF TagsMatch
  <2>1. hand[w] # <<>> /\ Tags[x].app = hand[w][1].msg.app
    BY <2>0 DEF TagOf
  <2> QED
    BY <1>1, <1>2, <1>4, <2>1 DEF OwnPath
<1>5. CASE w = Wire
  BY <1>1, <1>2, <1>5, WireApart, ThreadSets DEF Fits
<1> QED
  BY <1>1, <1>3, <1>4, <1>5 DEF Holders, TagsMatch

\* A place that a step does not touch.
LEMMA Untouched ==
  ASSUME TagsMatch, TagsMatch', NEW w \in Holders, NEW i \in Nat, <<w, i>> \in DOMAIN Tags',
         w \in Threads /\ i = 0 => hand'[w] = hand[w] /\ pc[w] # "count",
         w \in Pipes /\ i # 0 => pipe'[w] = pipe[w],
         w = Wire => net' = net
  PROVE  <<w, i>> \in DOMAIN Tags /\ Tags'[<<w, i>>] = Tags[<<w, i>>]
<1>1. CASE w \in Threads /\ i = 0
  <2>1. hand'[w] # <<>> /\ Tags'[<<w, i>>] = TagOf(hand'[w][1].msg)
    BY <1>1 DEF TagsMatch
  <2> QED
    BY <1>1, <2>1 DEF TagsMatch
<1>2. CASE w \in Pipes /\ i # 0
  <2>1. i \in 1..Len(pipe'[w]) /\ Tags'[<<w, i>>] = TagOf(pipe'[w][i].msg)
    BY <1>2 DEF TagsMatch
  <2> QED
    BY <1>2, <2>1 DEF TagsMatch
<1>3. CASE w = Wire
  <2>1. i \in 1..Len(net') /\ Tags'[<<w, i>>] = TagOf(net'[i])
    BY <1>3 DEF TagsMatch
  <2> QED
    BY <1>3, <2>1 DEF TagsMatch
<1> QED
  BY <1>1, <1>2, <1>3 DEF Holders, TagsMatch

-----------------------------------------------------------------------------
(* What each step does to the order                                        *)

\* Steps that move no message.
LEMMA OrderStill ==
  ASSUME OInv, TagsMatch, TagsMatch', UNCHANGED <<hand, pipe, net, strays, sent, delivered>>,
         NEW t \in Threads, NEW to, pc' = [pc EXCEPT ![t] = to], pc[t] # "count"
  PROVE  Orderly(Tags', Entered', delivered')
<1>1. \A s \in Threads : hand'[s] # <<>> /\ pc'[s] # "count" => pc[s] # "count"
  BY DEF OInv, HInv, TInv, TypeOK
<1>2. ASSUME NEW y \in DOMAIN Tags' PROVE y \in DOMAIN Tags /\ Tags'[y] = Tags[y]
  <2>1. PICK w \in Holders, i \in Nat : y = <<w, i>>
    BY DEF TagsMatch, Placed
  <2>2. w \in Threads /\ i = 0 => pc[w] # "count"
    BY <1>1, <2>1 DEF TagsMatch
  <2> QED
    BY <2>1, <2>2, Untouched
<1> QED
  BY <1>2, Stay DEF OInv, Entered

\* Steps in which one thread changes what it has in hand, if anything is left in it,
\* to another form of the same message.
LEMMA OrderInHand ==
  ASSUME OInv, TagsMatch, TagsMatch', UNCHANGED <<pipe, net>>, NEW t \in Threads,
         \A s \in Threads \ {t} : hand'[s] = hand[s] /\ pc'[s] = pc[s],
         hand'[t] # <<>> /\ pc'[t] # "count" =>
             /\ hand[t] # <<>> /\ pc[t] # "count"
             /\ TagOf(hand'[t][1].msg) = TagOf(hand[t][1].msg)
  PROVE  Orderly(Tags', Entered, delivered)
<1>1. ASSUME NEW y \in DOMAIN Tags' PROVE y \in DOMAIN Tags /\ Tags'[y] = Tags[y]
  <2>1. PICK w \in Holders, i \in Nat : y = <<w, i>>
    BY DEF TagsMatch, Placed
  <2>2. CASE w = t /\ i = 0
    <3>1. hand'[t] # <<>> /\ pc'[t] # "count" /\ Tags'[<<t, 0>>] = TagOf(hand'[t][1].msg)
      BY <1>1, <2>1, <2>2 DEF TagsMatch
    <3>2. <<t, 0>> \in DOMAIN Tags /\ Tags[<<t, 0>>] = TagOf(hand[t][1].msg)
      BY <3>1 DEF TagsMatch
    <3> QED
      BY <2>1, <2>2, <3>1, <3>2
  <2>3. CASE ~(w = t /\ i = 0)
    <3>1. w \in Threads /\ i = 0 => hand'[w] = hand[w] /\ pc[w] # "count"
      BY <1>1, <2>1, <2>3 DEF TagsMatch
    <3> QED
      BY <2>1, <3>1, Untouched
  <2> QED
    BY <2>2, <2>3
<1> QED
  BY <1>1, Stay DEF OInv

\* A sequence and one element behind it.
LEMMA ConcatOne ==
  ASSUME NEW S, NEW s \in Seq(S), NEW r \in Seq(S), Len(r) = 1
  PROVE  /\ Len(s) \in Nat /\ Len(s \o r) = Len(s) + 1
         /\ (s \o r)[Len(s) + 1] = r[1]
         /\ \A i \in 1..Len(s) : (s \o r)[i] = s[i]
<1>0. Len(s) \in Nat
  OBVIOUS
<1> DEFINE c == s \o r
<1>1. /\ Len(c) = Len(s) + Len(r)
      /\ \A i \in 1..(Len(s) + Len(r)) : c[i] = IF i <= Len(s) THEN s[i] ELSE r[i - Len(s)]
  BY ConcatProperties, Zenon
<1> HIDE DEF c
<1>2. Len(s) + 1 - Len(s) = 1 /\ Len(s) + 1 \in 1..(Len(s) + Len(r)) /\ ~(Len(s) + 1 <= Len(s))
  BY <1>0
<1>3. \A i \in 1..Len(s) : i \in 1..(Len(s) + Len(r)) /\ i <= Len(s)
  BY <1>0
<1>4. Len(c) = Len(s) + 1 /\ c[Len(s) + 1] = r[1] /\ \A i \in 1..Len(s) : c[i] = s[i]
  BY <1>1, <1>2, <1>3
<1> QED
  BY <1>0, <1>4 DEF c

\* A unit is written behind those in the pipe.
LEMMA OrderWrite ==
  ASSUME OInv, TagsMatch, TagsMatch', NEW t \in Threads, Write(t)
  PROVE  Orderly(Tags', Entered', delivered')
<1> DEFINE w == dest[t]
           k == Len(pipe[w]) + 1
           x == <<t, 0>>
           z == <<w, k>>
<1>0. TypeOK /\ HInv
  BY DEF OInv, HInv, TInv
<1>1. /\ pc[t] = "write" /\ pc' = [pc EXCEPT ![t] = "release"]
      /\ pipe' = [pipe EXCEPT ![w] = @ \o hand[t]]
      /\ hand' = [hand EXCEPT ![t] = <<>>]
      /\ UNCHANGED <<net, strays, sent, delivered>>
  BY DEF Write, Goto, LetGo
<1>2. w \in Pipes /\ Rank(<<w, 1>>) = Rank(x) + 1 /\ Len(hand[t]) = 1 /\ hand[t] # <<>>
  BY <1>1 DEF OInv, Onward, Full, Holding
<1>3. /\ pipe[w] \in Seq(Unit) /\ hand[t] \in Seq(Unit) /\ k \in Nat \ {0}
      /\ hand'[t] = <<>> /\ \A s \in Threads \ {t} : hand'[s] = hand[s] /\ pc'[s] = pc[s]
      /\ \A q \in Pipes \ {w} : pipe'[q] = pipe[q]
      /\ pipe'[w] = pipe[w] \o hand[t]
  BY <1>0, <1>1, <1>2 DEF TypeOK
<1>4. /\ Len(pipe'[w]) = k /\ pipe'[w][k] = hand[t][1]
      /\ \A i \in 1..(k - 1) : pipe'[w][i] = pipe[w][i]
      /\ Len(pipe[w]) = k - 1
  <2>1. Len(pipe[w]) \in Nat /\ Len(pipe[w]) = k - 1
    BY <1>3, ConcatOne
  <2> DEFINE s == pipe[w]
             r == hand[t]
  <2>2. s \in Seq(Unit) /\ r \in Seq(Unit) /\ Len(r) = 1
    BY <1>2, <1>3
  <2> HIDE DEF s, r
  <2>3. /\ Len(s \o r) = Len(s) + 1 /\ (s \o r)[Len(s) + 1] = r[1]
        /\ \A i \in 1..Len(s) : (s \o r)[i] = s[i]
    BY <2>2, ConcatOne
  <2>4. pipe'[w] = s \o r /\ pipe[w] = s /\ hand[t] = r
    BY <1>3 DEF s, r
  <2>5. k = Len(s) + 1 /\ Len(s) \in Nat
    BY <2>1 DEF s
  <2> HIDE DEF w, k
  <2>6. k - 1 = Len(s)
    BY <2>5
  <2> QED
    BY <2>3, <2>4, <2>5, <2>6
<1>5. w \in Holders /\ w \in Stages /\ t \in Holders
  BY <1>2, ThreadSets DEF Holders
<1> HIDE DEF w, k
<1>6. Rank(z) = Rank(x) + 1
  <2>1. Rank(z) = Rank(<<w, 1>>)
    <3>1. w[1] \in {"send", "recv"}
      BY <1>5 DEF Stages
    <3> QED
      BY <1>3, <3>1, RankOf, 1 \in Nat
  <2> QED
    BY <1>2, <2>1
<1>7. ASSUME NEW y \in DOMAIN Tags' \ {z} PROVE y \in DOMAIN Tags \ {x} /\ Tags'[y] = Tags[y]
  <2>1. PICK v \in Holders, i \in Nat : y = <<v, i>>
    BY DEF TagsMatch, Placed
  <2>2. ~(v = t /\ i = 0)
    BY <1>3, <1>7, <2>1 DEF TagsMatch
  <2>3. CASE v = w /\ i # 0
    <3>1. i \in 1..Len(pipe'[w]) /\ i # k /\ Tags'[y] = TagOf(pipe'[w][i].msg)
      BY <1>2, <1>7, <2>1, <2>3 DEF TagsMatch
    <3>2. i \in 1..(k - 1) /\ i \in 1..Len(pipe[w])
      BY <1>3, <1>4, <3>1
    <3>3. y \in DOMAIN Tags /\ Tags[y] = TagOf(pipe[w][i].msg)
      BY <1>2, <2>1, <2>3, <3>2 DEF TagsMatch
    <3> QED
      BY <1>4, <2>1, <2>3, <3>1, <3>2, <3>3
  <2>4. CASE ~(v = w /\ i # 0)
    <3>1. v \in Threads /\ i = 0 => hand'[v] = hand[v] /\ pc[v] # "count"
      BY <1>3, <1>7, <2>1, <2>2 DEF TagsMatch
    <3>2. v \in Pipes /\ i # 0 => pipe'[v] = pipe[v]
      BY <1>3, <2>4
    <3>3. y \in DOMAIN Tags /\ Tags'[y] = Tags[y]
      BY <1>1, <2>1, <3>1, <3>2, Untouched
    <3> QED
      BY <2>1, <2>2, <3>3
  <2> QED
    BY <2>3, <2>4
<1>8. x \in DOMAIN Tags /\ Tags[x] = TagOf(hand[t][1].msg)
  BY <1>1, <1>2 DEF TagsMatch
<1>9. z \in DOMAIN Tags' => Tags'[z] = Tags[x]
  <2>1. k \in 1..Len(pipe'[w])
    BY <1>3, <1>4
  <2>2. Tags'[z] = TagOf(pipe'[w][k].msg)
    BY <1>2, <1>3, <2>1 DEF TagsMatch
  <2> QED
    BY <1>4, <1>8, <2>2
<1>10. ASSUME NEW v \in DOMAIN Tags, Tags[v].app = Tags[x].app, Rank(v) = Rank(z)
       PROVE  v[1] = w /\ v[2] < k
  <2>1. v \in DOMAIN Tags /\ v[1] \in Holders /\ v[2] \in Nat /\ v = <<v[1], v[2]>>
        /\ Fits(v[1], Tags[x].app)
    BY <1>0, <1>10, TagsFit DEF OInv
  <2>2. Fits(w, Tags[x].app)
    <3>1. Good(w, hand[t][1])
      BY <1>0, <1>1, <1>2 DEF HInv, Carried, w
    <3> QED
      BY <1>5, <1>8, <3>1, GoodFits
  <2>3. v[1] = w /\ v[2] # 0
    <3>1. Rank(<<w, k>>) = Rank(<<v[1], v[2]>>)
      BY <1>10, <2>1
    <3> QED
      BY <1>3, <1>5, <2>1, <2>2, <3>1, OneHolder
  <2>4. v[2] \in 1..Len(pipe[w])
    BY <1>2, <2>1, <2>3 DEF TagsMatch
  <2> QED
    BY <1>3, <1>4, <2>3, <2>4
<1> HIDE DEF x, z
<1>11. Orderly(Tags', Entered, delivered)
  BY <1>3, <1>6, <1>7, <1>8, <1>9, <1>10, Put DEF x, z, OInv, TagsMatch
<1> QED
  BY <1>1, <1>11 DEF Entered

\* A stage reads the first unit of its pipe.
LEMMA OrderRead ==
  ASSUME OInv, TagsMatch, TagsMatch', NEW t \in Stages, Read(t)
  PROVE  Orderly(Tags', Entered', delivered')
<1> DEFINE x == <<t, 1>>
           z == <<t, 0>>
<1>0. TypeOK /\ HInv /\ t \in Threads /\ t \in Pipes /\ t \in Holders
  BY ThreadSets DEF OInv, HInv, TInv, Holders
<1>1. /\ pc[t] = "read" /\ pc' = [pc EXCEPT ![t] = "lock"] /\ pipe[t] # <<>>
      /\ pipe' = [pipe EXCEPT ![t] = Tail(@)]
      /\ hand' = [hand EXCEPT ![t] = <<Head(pipe[t])>>]
      /\ UNCHANGED <<net, strays, sent, delivered>>
  BY DEF Read, Goto, TakeFrom
<1>2. /\ pipe[t] \in Seq(Unit) /\ pipe'[t] = Tail(pipe[t]) /\ hand'[t][1] = pipe[t][1]
      /\ 1 \in 1..Len(pipe[t])
      /\ \A i \in 1..Len(pipe'[t]) : pipe'[t][i] = pipe[t][i + 1] /\ i + 1 \in 1..Len(pipe[t])
  <2>1. pipe[t] \in Seq(Unit) /\ pipe'[t] = Tail(pipe[t]) /\ hand'[t] = <<Head(pipe[t])>>
    BY <1>0, <1>1 DEF TypeOK
  <2>2. /\ 1 \in 1..Len(pipe[t]) /\ Head(pipe[t]) = pipe[t][1]
        /\ \A i \in 1..Len(Tail(pipe[t])) :
              Tail(pipe[t])[i] = pipe[t][i + 1] /\ i + 1 \in 1..Len(pipe[t])
    BY <1>1, <2>1, TailShape
  <2> QED
    BY <2>1, <2>2
<1>3. /\ \A s \in Threads \ {t} : hand'[s] = hand[s] /\ pc'[s] = pc[s]
      /\ \A q \in Pipes \ {t} : pipe'[q] = pipe[q]
  BY <1>0, <1>1 DEF TypeOK
<1>4. z \notin DOMAIN Tags
  <2>1. hand[t] = <<>>
    BY <1>0, <1>1 DEF OInv, Full, Holding
  <2> QED
    BY <1>0, <2>1 DEF TagsMatch
<1>5. /\ Rank(z) = Rank(x) + 1
      /\ \A i \in Nat \ {0} : Rank(<<t, i>>) = Rank(x)
  <2>1. t[1] \in {"send", "recv"} /\ t[2] \in ProtocolIds
    BY DEF Stages
  <2>2. Depth(t[2]) \in Nat
    BY <2>1 DEF Depth
  <2>3. \A i \in Nat : Rank(<<t, i>>) = (IF t[1] = "send" THEN 9 - 2 * Depth(t[2])
                                         ELSE 9 + 2 * Depth(t[2]))
                                        + (IF i = 0 THEN 1 ELSE 0)
    BY <2>1, <2>2, RankOf
  <2>4. 0 \in Nat /\ 1 \in Nat
    OBVIOUS
  <2> QED
    BY <2>1, <2>2, <2>3, <2>4
<1>6. x \in DOMAIN Tags /\ Tags[x] = TagOf(pipe[t][1].msg)
  BY <1>0, <1>2 DEF TagsMatch
<1>7. z \in DOMAIN Tags' => Tags'[z] = Tags[x]
  <2>1. z \in DOMAIN Tags' => Tags'[z] = TagOf(hand'[t][1].msg)
    BY <1>0 DEF TagsMatch
  <2> QED
    BY <1>2, <1>6, <2>1
<1>8. ASSUME NEW y \in DOMAIN Tags' \ {z}
      PROVE  IF y[1] = t THEN /\ y[2] # 0 /\ <<t, y[2] + 1>> \in DOMAIN Tags
                              /\ Tags'[y] = Tags[<<t, y[2] + 1>>]
                         ELSE y \in DOMAIN Tags /\ Tags'[y] = Tags[y]
  <2>1. PICK v \in Holders, i \in Nat : y = <<v, i>>
    BY DEF TagsMatch, Placed
  <2>2. y[1] = v /\ y[2] = i
    BY <2>1
  <2>3. CASE v = t
    <3>1. i # 0
      BY <1>8, <2>1, <2>3
    <3>2. i \in 1..Len(pipe'[t]) /\ Tags'[y] = TagOf(pipe'[t][i].msg)
      BY <1>0, <1>8, <2>1, <2>3, <3>1 DEF TagsMatch
    <3>3. i + 1 \in 1..Len(pipe[t]) /\ pipe'[t][i] = pipe[t][i + 1] /\ i + 1 \in Nat \ {0}
      BY <1>2, <3>2
    <3>4. <<t, i + 1>> \in DOMAIN Tags /\ Tags[<<t, i + 1>>] = TagOf(pipe[t][i + 1].msg)
      BY <1>0, <3>3 DEF TagsMatch
    <3> QED
      BY <2>2, <2>3, <3>1, <3>2, <3>3, <3>4
  <2>4. CASE v # t
    <3>1. v \in Threads /\ i = 0 => hand'[v] = hand[v] /\ pc[v] # "count"
      BY <1>3, <1>8, <2>1, <2>4 DEF TagsMatch
    <3>2. v \in Pipes /\ i # 0 => pipe'[v] = pipe[v]
      BY <1>3, <2>4
    <3>3. y \in DOMAIN Tags /\ Tags'[y] = Tags[y]
      BY <1>1, <1>8, <2>1, <3>1, <3>2, Untouched
    <3> QED
      BY <2>2, <2>4, <3>3
  <2> QED
    BY <2>3, <2>4
<1>9. ASSUME NEW v \in DOMAIN Tags, Tags[v].app = Tags[x].app, Rank(v) = Rank(z)
      PROVE  FALSE
  <2>1. v \in DOMAIN Tags /\ v[1] \in Holders /\ v[2] \in Nat /\ v = <<v[1], v[2]>>
        /\ Fits(v[1], Tags[x].app)
    BY <1>0, <1>9, TagsFit DEF OInv
  <2>2. Fits(t, Tags[x].app)
    <3>1. Good(t, pipe[t][1])
      BY <1>0, <1>2 DEF HInv, InPipes
    <3> QED
      BY <1>6, <3>1, GoodFits
  <2>3. v[1] = t /\ v[2] = 0
    <3>1. Rank(<<t, 0>>) = Rank(<<v[1], v[2]>>)
      BY <1>9, <2>1
    <3> QED
      BY <1>0, <2>1, <2>2, <3>1, OneHolder, 0 \in Nat
  <2> QED
    BY <1>4, <2>1, <2>3
<1>10. Placed(Tags) /\ Placed(Tags') /\ Orderly(Tags, Entered, delivered)
  BY DEF OInv, TagsMatch
<1>11. Orderly(Tags', Entered, delivered)
  BY <1>0, <1>4, <1>5, <1>6, <1>7, <1>8, <1>9, <1>10, Take
<1> QED
  BY <1>1, <1>11 DEF Entered

\* The listener takes the first datagram of the socket's buffer.
LEMMA OrderReceive ==
  ASSUME OInv, TagsMatch, TagsMatch', Receive
  PROVE  Orderly(Tags', Entered', delivered')
<1> DEFINE t == Listener
           x == <<Wire, 1>>
           z == <<t, 0>>
<1>0. TypeOK /\ HInv /\ t \in Threads /\ t \in Holders /\ Wire \in Holders
      /\ t \notin Stages /\ t \notin Pipes /\ t # Wire
  BY ThreadSets, WireApart DEF OInv, HInv, TInv, Holders
<1>1. /\ pc[t] = "recvfrom" /\ pc' = [pc EXCEPT ![t] = "handoff"] /\ net # <<>>
      /\ net' = Tail(net)
      /\ hand' = [hand EXCEPT ![t] = <<[id |-> 0, msg |-> Head(net)]>>]
      /\ UNCHANGED <<pipe, strays, sent, delivered>>
  BY DEF Receive, Goto, Hold
<1>2. /\ net \in Seq(Message) /\ hand'[t][1].msg = net[1]
      /\ 1 \in 1..Len(net)
      /\ \A i \in 1..Len(net') : net'[i] = net[i + 1] /\ i + 1 \in 1..Len(net)
  <2>1. net \in Seq(Message) /\ hand'[t] = <<[id |-> 0, msg |-> Head(net)]>>
    BY <1>0, <1>1 DEF TypeOK
  <2> QED
    BY <1>1, <2>1, TailShape
<1>3. \A s \in Threads \ {t} : hand'[s] = hand[s] /\ pc'[s] = pc[s]
  BY <1>0, <1>1 DEF TypeOK
<1>4. z \notin DOMAIN Tags
  <2>1. hand[t] = <<>>
    BY <1>0, <1>1 DEF OInv, Full, Holding
  <2> QED
    BY <1>0, <2>1 DEF TagsMatch
<1>5. /\ Rank(z) = Rank(x) + 1
      /\ \A i \in Nat \ {0} : Rank(<<Wire, i>>) = Rank(x)
  <2>1. \A i \in Nat : Rank(<<Wire, i>>) = 9
    BY RankOf DEF Wire
  <2>2. Rank(z) = 10
    BY RankOf, 0 \in Nat DEF Listener
  <2> QED
    BY <2>1, <2>2
<1>6. x \in DOMAIN Tags /\ Tags[x] = TagOf(net[1])
  BY <1>2 DEF TagsMatch
<1>7. z \in DOMAIN Tags' => Tags'[z] = Tags[x]
  <2>1. z \in DOMAIN Tags' => Tags'[z] = TagOf(hand'[t][1].msg)
    BY <1>0 DEF TagsMatch
  <2> QED
    BY <1>2, <1>6, <2>1
<1>8. ASSUME NEW y \in DOMAIN Tags' \ {z}
      PROVE  IF y[1] = Wire THEN /\ y[2] # 0 /\ <<Wire, y[2] + 1>> \in DOMAIN Tags
                                 /\ Tags'[y] = Tags[<<Wire, y[2] + 1>>]
                            ELSE y \in DOMAIN Tags /\ Tags'[y] = Tags[y]
  <2>1. PICK v \in Holders, i \in Nat : y = <<v, i>>
    BY DEF TagsMatch, Placed
  <2>2. y[1] = v /\ y[2] = i
    BY <2>1
  <2>3. CASE v = Wire
    <3>1. i \in 1..Len(net') /\ Tags'[y] = TagOf(net'[i])
      BY <1>8, <2>1, <2>3 DEF TagsMatch
    <3>2. i + 1 \in 1..Len(net) /\ net'[i] = net[i + 1] /\ i + 1 \in Nat /\ i # 0
      BY <1>2, <3>1
    <3>3. <<Wire, i + 1>> \in DOMAIN Tags /\ Tags[<<Wire, i + 1>>] = TagOf(net[i + 1])
      BY <3>2 DEF TagsMatch
    <3> QED
      BY <2>2, <2>3, <3>1, <3>2, <3>3
  <2>4. CASE v # Wire
    <3>1. v \in Threads /\ i = 0 => hand'[v] = hand[v] /\ pc[v] # "count"
      BY <1>3, <1>8, <2>1, <2>4 DEF TagsMatch
    <3>2. y \in DOMAIN Tags /\ Tags'[y] = Tags[y]
      BY <1>1, <1>8, <2>1, <2>4, <3>1, Untouched
    <3> QED
      BY <2>2, <2>4, <3>2
  <2> QED
    BY <2>3, <2>4
<1>9. ASSUME NEW v \in DOMAIN Tags, Rank(v) = Rank(z) PROVE FALSE
  <2>1. v \in DOMAIN Tags /\ v[1] \in Holders /\ v[2] \in Nat /\ v = <<v[1], v[2]>>
    BY <1>0, <1>9, TagsFit DEF OInv
  <2>2. v[1][1] = "listen"
    <3>1. Rank(<<t, 0>>) = Rank(<<v[1], v[2]>>) /\ t[1] = "listen"
      BY <1>9, <2>1 DEF Listener
    <3> QED
      BY <1>0, <2>1, <3>1, SameRank, 0 \in Nat
  <2>3. v[1] = t
    BY <2>1, <2>2, HolderKinds
  <2>4. v[2] = 0
    BY <1>0, <2>1, <2>3 DEF TagsMatch
  <2> QED
    BY <1>4, <2>1, <2>3, <2>4
<1>10. Placed(Tags) /\ Placed(Tags') /\ Orderly(Tags, Entered, delivered)
  BY DEF OInv, TagsMatch
<1>11. <<Wire, 0>> \notin DOMAIN Tags
  BY DEF TagsMatch
<1> HIDE DEF t
<1>12. Orderly(Tags', Entered, delivered)
  BY <1>0, <1>4, <1>5, <1>6, <1>7, <1>8, <1>9, <1>10, <1>11, Take
<1> QED
  BY <1>1, <1>12 DEF Entered

\* Encapsulating and stripping leave a message's tag alone.
LEMMA SameTag ==
  ASSUME NEW p, NEW u
  PROVE  /\ TagOf(Encapsulate(p, u).msg) = TagOf(u.msg)
         /\ TagOf(Strip(p, u).msg) = TagOf(u.msg)
  BY DEF TagOf, Own, Encapsulate, Strip, AddHeader, StripHeader

\* The last stage puts its message on the wire, or loses it.
LEMMA OrderEthSend ==
  ASSUME OInv, TagsMatch, TagsMatch', EthSend
  PROVE  Orderly(Tags', Entered', delivered')
<1> DEFINE t == <<"send", ETHERNET_ID>>
           u == hand[t][1]
           m == Encapsulate(ETHERNET_ID, u).msg
           k == Len(net) + 1
           x == <<t, 0>>
           z == <<Wire, k>>
<1>0. TypeOK /\ HInv /\ t \in Stages /\ t \in Threads /\ t \in Holders /\ Wire \in Holders
  <2>1. ETHERNET_ID \in ProtocolIds
    BY DEF ETHERNET_ID, ProtocolIds
  <2> QED
    BY <2>1, ThreadSets DEF OInv, HInv, TInv, Holders
<1>1. /\ pc[t] = "lock" /\ pc' = [pc EXCEPT ![t] = "unlock"]
      /\ hand' = [hand EXCEPT ![t] = <<>>]
      /\ net' = (IF Len(net) < NetCap THEN Append(net, m) ELSE net)
      /\ UNCHANGED <<pipe, strays, sent, delivered>>
  BY DEF EthSend, LockOwn, Goto, LetGo
<1>2. /\ hand'[t] = <<>> /\ \A s \in Threads \ {t} : hand'[s] = hand[s] /\ pc'[s] = pc[s]
      /\ hand[t] # <<>> /\ hand[t] \in Seq(Unit) /\ u \in Unit
  <2>1. hand[t] # <<>> /\ hand[t] \in Seq(Unit)
    BY <1>0, <1>1 DEF HInv, TInv, HasUnit, TypeOK
  <2> QED
    BY <1>0, <1>1, <2>1 DEF TypeOK
<1>3. CASE net' = net
  <2>1. Orderly(Tags', Entered, delivered)
    BY <1>0, <1>1, <1>2, <1>3, OrderInHand
  <2> QED
    BY <1>1, <2>1 DEF Entered
<1>4. CASE net' = Append(net, m)
  <2>1. net \in Seq(Message) /\ m \in Message /\ TagOf(m) = TagOf(u.msg)
    <3>1. ETHERNET_ID \in ProtocolIds
      BY DEF ETHERNET_ID, ProtocolIds
    <3>2. m \in Message
      BY <1>2, <3>1, EncapsulateType DEF Unit
    <3> QED
      BY <1>0, <3>2, SameTag DEF TypeOK
  <2> HIDE DEF m
  <2>2. /\ Len(net') = k /\ net'[k] = m /\ k \in Nat \ {0} /\ Len(net) = k - 1
        /\ \A i \in 1..(k - 1) : net'[i] = net[i]
    BY <1>4, <2>1
  <2>3. Rank(z) = Rank(x) + 1
    <3>1. Rank(z) = 9
      BY <2>2, RankOf DEF Wire
    <3>2. Rank(x) = 9 - 2 * Depth(ETHERNET_ID) + 1
      BY RankOf, 0 \in Nat
    <3>3. Depth(ETHERNET_ID) = 1
      BY DEF Depth, ETHERNET_ID, IP_ID, TCP_ID, UDP_ID
    <3> HIDE DEF x, z
    <3> QED
      BY <3>1, <3>2, <3>3
  <2> HIDE DEF k
  <2>4. ASSUME NEW y \in DOMAIN Tags' \ {z} PROVE y \in DOMAIN Tags \ {x} /\ Tags'[y] = Tags[y]
    <3>1. PICK v \in Holders, i \in Nat : y = <<v, i>>
      BY DEF TagsMatch, Placed
    <3>2. ~(v = t /\ i = 0)
      BY <1>0, <1>2, <2>4, <3>1 DEF TagsMatch
    <3>3. CASE v = Wire
      <4>1. i \in 1..Len(net') /\ i # k /\ Tags'[y] = TagOf(net'[i])
        BY <2>4, <3>1, <3>3 DEF TagsMatch
      <4>2. i \in 1..(k - 1) /\ i \in 1..Len(net)
        BY <2>2, <4>1
      <4>3. y \in DOMAIN Tags /\ Tags[y] = TagOf(net[i])
        BY <3>1, <3>3, <4>2 DEF TagsMatch
      <4> QED
        BY <2>2, <3>1, <3>2, <4>1, <4>2, <4>3
    <3>4. CASE v # Wire
      <4>1. v \in Threads /\ i = 0 => hand'[v] = hand[v] /\ pc[v] # "count"
        BY <1>2, <2>4, <3>1, <3>2 DEF TagsMatch
      <4>2. y \in DOMAIN Tags /\ Tags'[y] = Tags[y]
        BY <1>1, <2>4, <3>1, <3>4, <4>1, Untouched
      <4> QED
        BY <3>1, <3>2, <4>2
    <3> QED
      BY <3>3, <3>4
  <2>5. x \in DOMAIN Tags /\ Tags[x] = TagOf(u.msg)
    BY <1>0, <1>1, <1>2 DEF TagsMatch
  <2>6. z \in DOMAIN Tags' => Tags'[z] = Tags[x]
    <3>1. k \in 1..Len(net')
      BY <2>2
    <3>2. Tags'[z] = TagOf(net'[k])
      BY <2>2, <3>1 DEF TagsMatch
    <3> QED
      BY <2>1, <2>2, <2>5, <3>2
  <2>7. ASSUME NEW v \in DOMAIN Tags, Tags[v].app = Tags[x].app, Rank(v) = Rank(z)
        PROVE  v[1] = Wire /\ v[2] < k
    <3>1. v \in DOMAIN Tags /\ v[1] \in Holders /\ v[2] \in Nat /\ v = <<v[1], v[2]>>
      BY <1>0, <2>7, TagsFit DEF OInv
    <3>2. v[1][1] = "net"
      <4>1. Rank(<<Wire, k>>) = Rank(<<v[1], v[2]>>) /\ Wire[1] = "net"
        BY <2>7, <3>1 DEF Wire
      <4> QED
        BY <1>0, <2>2, <3>1, <4>1, SameRank
    <3>3. v[1] = Wire
      BY <3>1, <3>2, HolderKinds
    <3>4. v[2] \in 1..Len(net)
      BY <3>1, <3>3 DEF TagsMatch
    <3> QED
      BY <2>2, <3>3, <3>4
  <2> HIDE DEF x, z
  <2>8. Orderly(Tags', Entered, delivered)
    BY <2>2, <2>3, <2>4, <2>5, <2>6, <2>7, Put DEF x, z, OInv, TagsMatch
  <2> QED
    BY <1>1, <2>8 DEF Entered
<1> QED
  BY <1>1, <1>3, <1>4

\* What an application is about to receive: one of its own messages, sent before
\* and later than all it received, or one of a stray whose headers were all valid.
LEMMA AtApplication ==
  ASSUME OInv, TagsMatch, NEW a \in AppIds, pc[<<"recv", a>>] = "lock"
  PROVE  LET x == <<<<"recv", a>>, 0>>
             m == hand[<<"recv", a>>][1].msg IN
         /\ x \in DOMAIN Tags /\ Tags[x].app = a /\ (Tags[x].own <=> Own(m))
         /\ Own(m) => /\ Tags[x].n = m.n /\ Number(m) = m.n
                      /\ a \in Apps /\ m.n \in 1..sent[a]
                      /\ \A i \in DOMAIN delivered[a] : delivered[a][i] < m.n
         /\ ~Own(m) => Number(m) = 0 /\ <<a, 4>> \in Strays
<1> DEFINE t == <<"recv", a>>
           m == hand[t][1].msg
           x == <<t, 0>>
<1>1. t \in Stages /\ t \in Threads /\ a \in ProtocolIds
  BY ThreadSets, GraphTypes
<1>2. hand[t] # <<>> /\ m \in Message /\ Good(t, hand[t][1])
  <2>1. hand[t] # <<>> /\ hand[t] \in Seq(Unit)
    BY <1>1 DEF OInv, HInv, TInv, HasUnit, TypeOK
  <2>2. hand[t][1] \in Unit
    BY <2>1
  <2> QED
    BY <1>1, <2>1, <2>2 DEF Unit, OInv, HInv, AtHand
<1>3. x \in DOMAIN Tags /\ Tags[x] = TagOf(m)
  BY <1>1, <1>2 DEF TagsMatch
<1>4. RecvGood(a, hand[t][1])
  BY <1>2 DEF Good
<1>5. m.app = a /\ Depth(a) = 4
  <2>1. a = Layers(m.app)[Depth(a)] /\ m.app \in AppIds /\ Depth(a) \in 1..4
    BY <1>1, <1>2, <1>4, OnPathLayer DEF RecvGood, OnPath, Message
  <2>2. Depth(a) = 4
    BY <2>1, LayerGraph
  <2> QED
    BY <2>1, <2>2, LayerGraph
<1>6. ASSUME ~Own(m) PROVE <<a, 4>> \in Strays
  <2>1. StrayFrom(m, 4) /\ <<m.app, 4 + Len(m.hdrs) - 1>> \in Strays
    BY <1>4, <1>5, <1>6 DEF RecvGood, FromLayer
  <2>2. Len(m.hdrs) = 1
    <3> DEFINE l == Len(m.hdrs)
    <3>1. l \in Nat /\ 4 + l - 1 \in 1..4
      <4>1. 4 + l - 1 \in 1..4
        BY <2>1, PerProtocolAssumption
      <4> QED
        BY <1>2, <4>1 DEF Message
    <3>2. m.hdrs # <<>> /\ m.hdrs \in Seq(Header)
      BY <1>2, <2>1 DEF StrayFrom, Message
    <3>3. l # 0
      BY <3>2
    <3> HIDE DEF l
    <3>4. l = 1
      BY <3>1, <3>3
    <3> QED
      BY <3>4 DEF l
  <2>3. 4 + 1 - 1 = 4
    OBVIOUS
  <2> QED
    BY <1>5, <2>1, <2>2, <2>3
<1> HIDE DEF m, x
<1>7. /\ x \in DOMAIN Tags /\ Tags[x].app = a /\ (Tags[x].own <=> Own(m))
      /\ Own(m) => Tags[x].n = m.n
  BY <1>3, <1>5 DEF TagOf
<1>8. Known(Tags[x], Entered) /\ Later(Tags[x], delivered)
  BY <1>7 DEF OInv, Orderly, InRange
<1>9. ASSUME Own(m)
      PROVE  /\ a \in Apps /\ m.n \in 1..sent[a]
             /\ \A i \in DOMAIN delivered[a] : delivered[a][i] < m.n
  BY <1>7, <1>8, <1>9 DEF Known, Later, Entered
<1>10. Number(m) = IF Own(m) THEN m.n ELSE 0
  BY DEF Number
<1> QED
  BY <1>6, <1>7, <1>9, <1>10 DEF m, x

\* An application receives its message, which leaves the order.
LEMMA OrderAppReceive ==
  ASSUME OInv, TagsMatch, TagsMatch', NEW a \in AppIds, AppReceive(a)
  PROVE  Orderly(Tags', Entered', delivered')
<1> DEFINE t == <<"recv", a>>
           m == hand[t][1].msg
           n == Number(m)
           x == <<t, 0>>
<1>0. TypeOK /\ HInv /\ t \in Stages /\ t \in Threads
  BY ThreadSets, GraphTypes DEF OInv, HInv, TInv
<1>1. /\ pc[t] = "lock" /\ pc' = [pc EXCEPT ![t] = "count"]
      /\ \E s : hand' = [hand EXCEPT ![t] = s]
      /\ delivered' = [delivered EXCEPT ![a] = Append(@, n)]
      /\ UNCHANGED <<net, pipe, strays, sent>>
  BY DEF AppReceive, LockOwn, Goto, Hold
<1>2. pc'[t] = "count" /\ \A s \in Threads \ {t} : hand'[s] = hand[s] /\ pc'[s] = pc[s]
  BY <1>0, <1>1 DEF TypeOK
<1>3. Orderly(Tags', Entered, delivered)
  BY <1>0, <1>1, <1>2, OrderInHand
<1>4. /\ x \in DOMAIN Tags /\ Tags[x].app = a /\ (Tags[x].own <=> Own(m))
      /\ Own(m) => Tags[x].n = n /\ a \in Apps /\ n \in 1..sent[a]
      /\ ~Own(m) => n = 0
  BY <1>1, AtApplication
<1>5. ASSUME NEW y \in DOMAIN Tags', Tags'[y].app = a, Tags'[y].own PROVE n < Tags'[y].n
  <2>1. PICK w \in Holders, i \in Nat : y = <<w, i>>
    BY DEF TagsMatch, Placed
  <2>2. ~(w = t /\ i = 0)
    BY <1>0, <1>2, <2>1 DEF TagsMatch
  <2>3. w \in Threads /\ i = 0 => hand'[w] = hand[w] /\ pc[w] # "count"
    BY <1>2, <2>1, <2>2 DEF TagsMatch
  <2>4. y \in DOMAIN Tags /\ Tags'[y] = Tags[y]
    BY <1>1, <2>1, <2>3, Untouched
  <2>5. CASE ~Own(m)
    <3>1. Known(Tags[y], Entered)
      BY <2>4 DEF OInv, Orderly, InRange
    <3>2. Tags[y].n \in 1..sent[Tags[y].app]
      BY <1>5, <2>4, <3>1 DEF Known, Entered
    <3>3. n = 0
      BY <1>4, <2>5
    <3> HIDE DEF n
    <3> QED
      BY <2>4, <3>2, <3>3
  <2>6. CASE Own(m)
    <3>1. y \in DOMAIN Tags \ {x} /\ Alike(Tags[y], Tags[x])
      BY <1>4, <1>5, <2>1, <2>2, <2>4, <2>6, Zenon DEF Alike
    <3>2. \/ Before(x, y) /\ Tags[x].n < Tags[y].n
          \/ Before(y, x) /\ Tags[y].n < Tags[x].n
      BY <1>4, <3>1 DEF OInv, Orderly, Ordered, Alike
    <3>3. ~Before(y, x)
      <4>1. Rank(y) \in 0..18 /\ y[1] = w /\ y[2] = i
        BY <2>1, SameRank
      <4>2. Rank(x) = 18
        <5>1. Rank(x) = 9 + 2 * Depth(a) + 1
          BY RankOf, 0 \in Nat
        <5>2. Depth(a) = 4
          BY DEF Depth, AppIds, FTP_ID, TELNET_ID, RDP_ID, DNS_ID, ETHERNET_ID, IP_ID, TCP_ID, UDP_ID
        <5> HIDE DEF x
        <5> QED
          BY <5>1, <5>2
      <4>3. x[2] = 0
        OBVIOUS
      <4> HIDE DEF x
      <4> QED
        BY <4>1, <4>2, <4>3 DEF Before
    <3>4. Tags[x].n = n
      BY <1>4, <2>6
    <3> HIDE DEF n, x
    <3> QED
      BY <2>4, <3>2, <3>3, <3>4
  <2> QED
    BY <2>5, <2>6
<1>6. ASSUME NEW y \in DOMAIN Tags'
      PROVE  Known(Tags'[y], Entered) /\ Later(Tags'[y], delivered')
  <2> DEFINE b == Tags'[y].app
             j == Tags'[y].n
  <2>1. Known(Tags'[y], Entered) /\ b \in AppIds /\ Later(Tags'[y], delivered)
    BY <1>3 DEF Orderly, InRange, Known
  <2>2. b = a /\ Tags'[y].own => n < j
    BY <1>5
  <2>3. delivered \in [AppIds -> Seq(Nat)] /\ b \in AppIds /\ n \in Nat
    <3>1. n = 0 \/ (a \in Apps /\ n \in 1..sent[a])
      BY <1>4
    <3>2. n \in Nat
      <4> HIDE DEF n
      <4> QED
        BY <3>1
    <3> QED
      BY <1>0, <2>1, <3>2 DEF TypeOK
  <2>4. ASSUME Tags'[y].own, NEW i \in DOMAIN delivered'[b] PROVE delivered'[b][i] < j
    <3>0. \A k \in DOMAIN delivered[b] : delivered[b][k] < j
      BY <2>1, <2>4 DEF Later
    <3> HIDE DEF b, j, n
    <3>1. CASE b = a
      <4> DEFINE d == delivered[a]
      <4>1. d \in Seq(Nat) /\ delivered'[b] = Append(d, n)
        BY <1>1, <2>3, <3>1
      <4>2. \A k \in DOMAIN d : d[k] < j
        BY <3>0, <3>1
      <4> HIDE DEF d
      <4>3. /\ DOMAIN Append(d, n) = 1..(Len(d) + 1) /\ DOMAIN d = 1..Len(d) /\ Len(d) \in Nat
            /\ \A k \in 1..(Len(d) + 1) : Append(d, n)[k] = IF k <= Len(d) THEN d[k] ELSE n
        BY <2>3, <4>1
      <4>4. \A k \in DOMAIN Append(d, n) : Append(d, n)[k] < j
        BY <2>2, <2>4, <3>1, <4>2, <4>3
      <4> QED
        BY <2>4, <4>1, <4>4
    <3>2. CASE b # a
      <4>1. delivered'[b] = delivered[b]
        BY <1>1, <2>3, <3>2
      <4> QED
        BY <2>4, <3>0, <4>1
    <3> QED
      BY <3>1, <3>2
  <2> QED
    BY <2>1, <2>4 DEF Later
<1>7. Orderly(Tags', Entered, delivered')
  BY <1>3, <1>6 DEF Orderly, InRange
<1> QED
  BY <1>1, <1>7 DEF Entered

\* A message comes in at z, behind all of its sequence.
LEMMA Enters ==
  ASSUME NEW T, NEW T2, NEW s, NEW s2, NEW d, Orderly(T, s, d), NEW z,
         \A y \in DOMAIN T2 \ {z} : y \in DOMAIN T /\ T2[y] = T[y] /\ Known(T[y], s2),
         z \in DOMAIN T2 =>
             /\ Known(T2[z], s2) /\ Later(T2[z], d)
             /\ \A y \in DOMAIN T2 \ {z} :
                   /\ Alike(T2[y], T2[z]) => Before(y, z) /\ T2[y].n < T2[z].n
                   /\ ~T2[y].own /\ ~T2[z].own => T2[y].n # T2[z].n
  PROVE  Orderly(T2, s2, d)
<1>1. Ordered(T2)
  <2>1. ASSUME NEW x \in DOMAIN T2 \ {z}, NEW y \in DOMAIN T2 \ {x, z}, Alike(T2[x], T2[y])
        PROVE  \/ Before(x, y) /\ T2[x].n < T2[y].n
               \/ Before(y, x) /\ T2[y].n < T2[x].n
    <3>1. /\ x \in DOMAIN T /\ y \in DOMAIN T \ {x} /\ Alike(T[x], T[y])
          /\ T2[x] = T[x] /\ T2[y] = T[y]
      BY <2>1
    <3> QED
      BY <3>1 DEF Orderly, Ordered
  <2>2. ASSUME z \in DOMAIN T2, NEW y \in DOMAIN T2 \ {z}, Alike(T2[y], T2[z]) \/ Alike(T2[z], T2[y])
        PROVE  Before(y, z) /\ T2[y].n < T2[z].n
    BY <2>2 DEF Alike
  <2> QED
    BY <2>1, <2>2 DEF Ordered
<1>2. ASSUME NEW y \in DOMAIN T2 PROVE Known(T2[y], s2) /\ Later(T2[y], d)
  BY DEF Orderly, InRange
<1>3. OneStray(T2)
  <2>1. ASSUME NEW x \in DOMAIN T2 \ {z}, NEW y \in DOMAIN T2 \ {z},
               ~T2[x].own, ~T2[y].own, T2[x].n = T2[y].n
        PROVE  T2[x].app = T2[y].app
    <3>1. x \in DOMAIN T /\ y \in DOMAIN T /\ T2[x] = T[x] /\ T2[y] = T[y]
      OBVIOUS
    <3> QED
      BY <2>1, <3>1 DEF Orderly, OneStray
  <2>2. ASSUME NEW x \in DOMAIN T2, NEW y \in DOMAIN T2, x = z \/ y = z,
               ~T2[x].own, ~T2[y].own, T2[x].n = T2[y].n
        PROVE  T2[x].app = T2[y].app
    BY <2>2
  <2> QED
    BY <2>1, <2>2 DEF OneStray
<1> QED
  BY <1>1, <1>2, <1>3 DEF Orderly, InRange

\* A new message is behind all others of its application.
LEMMA OrderCompose ==
  ASSUME OInv, TagsMatch, TagsMatch', NEW a \in Apps, Compose(a)
  PROVE  Orderly(Tags', Entered', delivered')
<1> DEFINE t == App(a)
           z == <<t, 0>>
           n == sent[a] + 1
<1>0. TypeOK /\ HInv /\ t \in Threads /\ t \in Holders /\ t \notin Stages
  BY ThreadSets DEF OInv, HInv, TInv, Holders
<1>1. /\ pc[t] = "compose" /\ pc' = [pc EXCEPT ![t] = "handoff"]
      /\ \E id : hand' = [hand EXCEPT ![t] = <<[id |-> id, msg |-> NewMessage(a, n)]>>]
      /\ sent' = [sent EXCEPT ![a] = n]
      /\ UNCHANGED <<net, pipe, strays, delivered>>
  BY DEF Compose, Goto, Hold
<1>2. /\ \A s \in Threads \ {t} : hand'[s] = hand[s] /\ pc'[s] = pc[s]
      /\ hand'[t][1].msg = NewMessage(a, n)
      /\ sent'[a] = n /\ n \in Nat \ {0} /\ sent \in [Apps -> Nat]
      /\ \A b \in Apps : sent'[b] \in Nat /\ sent[b] \in Nat /\ sent[b] <= sent'[b]
  BY <1>0, <1>1 DEF TypeOK
<1>3. z \notin DOMAIN Tags
  <2>1. hand[t] = <<>>
    BY <1>0, <1>1 DEF OInv, Full, Holding
  <2> QED
    BY <1>0, <2>1 DEF TagsMatch
<1>4. z \in DOMAIN Tags' => Tags'[z].app = a /\ Tags'[z].own /\ Tags'[z].n = n
  <2>1. z \in DOMAIN Tags' => Tags'[z] = TagOf(NewMessage(a, n))
    BY <1>0, <1>2 DEF TagsMatch
  <2>2. NewMessage(a, n).app = a /\ NewMessage(a, n).n = n /\ Own(NewMessage(a, n))
    <3>1. NewMessage(a, n).app = a /\ NewMessage(a, n).n = n
      BY DEF NewMessage
    <3>2. n > 0
      BY <1>2
    <3> HIDE DEF n
    <3> QED
      BY <3>1, <3>2 DEF Own
  <2> QED
    BY <2>1, <2>2 DEF TagOf
<1>5. ASSUME NEW y \in DOMAIN Tags' \ {z}
      PROVE  y \in DOMAIN Tags /\ Tags'[y] = Tags[y] /\ Known(Tags[y], Entered)
  <2>1. PICK w \in Holders, i \in Nat : y = <<w, i>>
    BY DEF TagsMatch, Placed
  <2>2. w \in Threads /\ i = 0 => hand'[w] = hand[w] /\ pc[w] # "count"
    BY <1>2, <1>5, <2>1 DEF TagsMatch
  <2>3. y \in DOMAIN Tags /\ Tags'[y] = Tags[y]
    BY <1>1, <2>1, <2>2, Untouched
  <2> QED
    BY <2>3 DEF OInv, Orderly, InRange
<1>6. ASSUME NEW y \in DOMAIN Tags' \ {z}, Tags[y].app = a, z \in DOMAIN Tags' PROVE Before(y, z)
  <2>1. y \in DOMAIN Tags /\ y[1] \in Holders /\ y[2] \in Nat /\ y = <<y[1], y[2]>>
        /\ Fits(y[1], a)
    BY <1>0, <1>5, <1>6, TagsFit DEF OInv
  <2>2. Rank(z) = 0
    BY RankOf, 0 \in Nat DEF App
  <2>3. Rank(y) \in 0..18
    BY <2>1, SameRank
  <2>4. Rank(y) # 0
    <3>1. ASSUME Rank(y) = 0 PROVE FALSE
      <4>1. Fits(t, a)
        BY <1>0, ThreadSets DEF Fits, App
      <4>2. Rank(<<t, 0>>) = Rank(<<y[1], y[2]>>)
        BY <2>1, <2>2, <3>1
      <4>3. y[1] = t
        BY <1>0, <2>1, <4>1, <4>2, OneHolder, 0 \in Nat
      <4>4. y[2] = 0
        BY <1>0, <2>1, <4>3, ThreadSets DEF TagsMatch
      <4> QED
        BY <1>3, <2>1, <4>3, <4>4
    <3> QED
      BY <3>1
  <2> HIDE DEF z
  <2> QED
    BY <2>2, <2>3, <2>4 DEF Before
<1>7. ASSUME NEW y \in DOMAIN Tags' \ {z}, Tags[y].app = a, Tags[y].own PROVE Tags[y].n < n
  <2>1. Tags[y].n \in 1..sent[a]
    BY <1>5, <1>7 DEF Known, Entered
  <2> QED
    BY <1>2, <2>1
<1>8. ASSUME NEW y \in DOMAIN Tags' \ {z} PROVE Known(Tags[y], Entered')
  <2>1. Known(Tags[y], Entered)
    BY <1>5
  <2>2. CASE Tags[y].own
    <3>1. Tags[y].app \in AppIds /\ Tags[y].app \in Apps /\ Tags[y].n \in 1..sent[Tags[y].app]
      BY <2>1, <2>2 DEF Known, Entered
    <3>2. Tags[y].n \in 1..sent'[Tags[y].app]
      BY <1>2, <3>1
    <3> QED
      BY <2>2, <3>1, <3>2 DEF Known, Entered
  <2>3. CASE ~Tags[y].own
    BY <1>1, <2>1, <2>3 DEF Known, Entered
  <2> QED
    BY <2>2, <2>3
<1>9. ASSUME z \in DOMAIN Tags'
      PROVE  Known(Tags'[z], Entered') /\ Later(Tags'[z], delivered)
  <2>1. n \in 1..sent'[a]
    BY <1>2
  <2>2. \A i \in DOMAIN delivered[a] : delivered[a][i] < n
    <3>1. /\ delivered[a] \in Seq(Nat) /\ sent[a] \in Nat
          /\ \A i \in DOMAIN delivered[a] : delivered[a][i] <= sent[a]
      BY <1>0, PerProtocolAssumption DEF OInv, ReceivedSent, TypeOK
    <3>2. \A i \in DOMAIN delivered[a] : delivered[a][i] \in Nat
      BY <3>1
    <3> QED
      BY <3>1, <3>2
  <2> HIDE DEF n, z
  <2> QED
    BY <1>4, <1>9, <2>1, <2>2, PerProtocolAssumption DEF Known, Later, Entered
<1> HIDE DEF z, n, t
<1>10. ASSUME z \in DOMAIN Tags', NEW y \in DOMAIN Tags' \ {z}
       PROVE  /\ Alike(Tags'[y], Tags'[z]) => Before(y, z) /\ Tags'[y].n < Tags'[z].n
              /\ ~(~Tags'[y].own /\ ~Tags'[z].own)
  BY <1>4, <1>5, <1>6, <1>7, <1>10 DEF Alike
<1>11. Orderly(Tags', Entered', delivered)
  BY <1>5, <1>8, <1>9, <1>10, Enters DEF OInv
<1> QED
  BY <1>1, <1>11

\* Messages still to go on the wire are of this program.
LEMMA DownIsOwn ==
  ASSUME OInv, TagsMatch, NEW y \in DOMAIN Tags, y[1][1] \in {"app", "send"}
  PROVE  Tags[y].own
<1>0. TypeOK /\ HInv
  BY DEF OInv, HInv, TInv
<1>1. PICK w \in Holders, i \in Nat : y = <<w, i>>
  BY DEF TagsMatch, Placed
<1>2. w[1] \in {"app", "send"} /\ w # Wire
  BY <1>1 DEF Wire
<1>3. \A m : TagOf(m).own <=> Own(m)
  BY DEF TagOf
<1>4. CASE w \in Pipes /\ i # 0
  <2>1. i \in 1..Len(pipe[w]) /\ Tags[y] = TagOf(pipe[w][i].msg)
    BY <1>1, <1>4 DEF TagsMatch
  <2>2. Good(w, pipe[w][i]) /\ w[1] = "send"
    BY <1>0, <1>2, <1>4, <2>1 DEF HInv, InPipes, Pipes, Stages
  <2> QED
    BY <1>3, <2>1, <2>2 DEF Good, SendGood
<1>5. CASE w \in Threads /\ i = 0
  <2>1. hand[w] # <<>> /\ Tags[y] = TagOf(hand[w][1].msg)
    BY <1>1, <1>5 DEF TagsMatch
  <2>2. pc[w] \in Holding /\ pc[w] # "count"
    BY <1>1, <1>5, <2>1 DEF OInv, Full, TagsMatch
  <2>3. Own(hand[w][1].msg)
    <3>1. CASE pc[w] = "lock"
      <4>1. w \in Stages
        BY <1>5, <3>1 DEF OInv, Onward
      <4>2. w[1] = "send" /\ Good(w, hand[w][1])
        BY <1>0, <1>2, <3>1, <4>1 DEF HInv, AtHand, Stages
      <4> QED
        BY <4>2 DEF Good, SendGood
    <3>2. CASE pc[w] \in {"handoff", "write"}
      <4>1. dest[w] \in Pipes /\ Rank(<<dest[w], 1>>) = Rank(<<w, 0>>) + 1
        BY <1>5, <3>2 DEF OInv, Onward
      <4>2. dest[w][1] = "send"
        <5>1. Rank(<<w, 0>>) < 9
          <6>1. CASE w[1] = "app"
            BY <6>1, RankOf
          <6>2. CASE w[1] = "send"
            <7> DEFINE e == Depth(w[2])
            <7>1. Rank(<<w, 0>>) = 9 - 2 * e + 1
              BY <6>2, RankOf, 0 \in Nat
            <7>2. e \in 1..4
              BY DEF Depth
            <7> HIDE DEF e
            <7> QED
              BY <7>1, <7>2
          <6> QED
            BY <1>2, <6>1, <6>2
        <5>2. dest[w][1] = "recv" => Rank(<<dest[w], 1>>) > 9 + 1
          <6> DEFINE e == Depth(dest[w][2])
          <6>1. dest[w][1] = "recv" => Rank(<<dest[w], 1>>) = 9 + 2 * e + 0
            <7>1. 1 \in Nat /\ 1 # 0
              OBVIOUS
            <7>2. \A q : q[1] = "recv" => Rank(<<q, 1>>) = 9 + 2 * Depth(q[2]) + 0
              BY <7>1, RankOf
            <7> QED
              BY <7>2
          <6>2. e \in 1..4
            BY DEF Depth
          <6> HIDE DEF e
          <6> QED
            BY <6>1, <6>2
        <5>3. dest[w][1] \in {"send", "recv"}
          BY <4>1 DEF Pipes, Stages
        <5>4. Rank(<<w, 0>>) \in 0..18
          BY <1>5, SameRank, 0 \in Nat DEF Holders
        <5> DEFINE rw == Rank(<<w, 0>>)
        <5> HIDE DEF rw
        <5>5. dest[w][1] # "recv"
          <6>1. rw \in 0..18 /\ rw < 9
            BY <5>1, <5>4 DEF rw
          <6>2. dest[w][1] = "recv" => rw + 1 > 10
            BY <4>1, <5>2 DEF rw
          <6> QED
            BY <6>1, <6>2
        <5> QED
          BY <5>3, <5>5
      <4>3. Len(hand[w]) = 1
        BY <1>5, <2>2 DEF OInv, Full
      <4>4. Good(dest[w], hand[w][1])
        BY <1>0, <1>5, <3>2, <4>3 DEF HInv, Carried
      <4> QED
        BY <4>2, <4>4 DEF Good, SendGood
    <3> QED
      BY <2>2, <3>1, <3>2 DEF Holding
  <2> QED
    BY <1>3, <2>1, <2>3
<1> QED
  BY <1>1, <1>2, <1>4, <1>5 DEF Holders, TagsMatch

\* A stray comes in behind everything in the socket's buffer, and the other strays
\* are there or further.
LEMMA OrderIntrude ==
  ASSUME OInv, TagsMatch, TagsMatch', NEW x \in Strays, Intrude(x[1], x[2])
  PROVE  Orderly(Tags', Entered', delivered')
<1> DEFINE n == strays + 1
           m == Stray(x[1], x[2], n)
           k == Len(net) + 1
           z == <<Wire, k>>
<1>0. TypeOK /\ HInv /\ Wire \in Holders /\ x[1] \in AppIds /\ x[2] \in 1..4
  BY PerProtocolAssumption DEF OInv, HInv, TInv, Holders
<1>1. /\ net' = Append(net, m) /\ strays' = n
      /\ UNCHANGED <<pc, hand, pipe, sent, delivered>>
  BY DEF Intrude
<1>2. /\ net \in Seq(Message) /\ strays \in Nat /\ n \in Nat \ {0} /\ n > strays
  BY <1>0 DEF TypeOK
<1>3. m.app = x[1] /\ ~Own(m) /\ -m.n = n
  <2>1. m.app = x[1] /\ m.n = -n
    BY DEF Stray
  <2> HIDE DEF m, n
  <2> QED
    BY <1>2, <2>1 DEF Own
<1> HIDE DEF m, n
<1>4. /\ Len(net') = k /\ net'[k] = m /\ k \in Nat \ {0} /\ Len(net) = k - 1
      /\ \A i \in 1..(k - 1) : net'[i] = net[i]
  BY <1>1, <1>2
<1> HIDE DEF k
<1>5. z \in DOMAIN Tags' => Tags'[z].app = x[1] /\ ~Tags'[z].own /\ Tags'[z].n = n
  <2>1. k \in 1..Len(net')
    BY <1>4
  <2>2. Tags'[z] = TagOf(m)
    BY <1>4, <2>1 DEF TagsMatch
  <2> QED
    BY <1>3, <2>2 DEF TagOf
<1>6. ASSUME NEW y \in DOMAIN Tags' \ {z}
      PROVE  y \in DOMAIN Tags /\ Tags'[y] = Tags[y] /\ Known(Tags[y], Entered)
             /\ (y[1] = Wire => y[2] < k)
  <2>1. PICK v \in Holders, i \in Nat : y = <<v, i>>
    BY DEF TagsMatch, Placed
  <2>2. CASE v = Wire
    <3>1. i \in 1..Len(net') /\ i # k /\ Tags'[y] = TagOf(net'[i])
      BY <1>6, <2>1, <2>2 DEF TagsMatch
    <3>2. i \in 1..(k - 1) /\ i \in 1..Len(net) /\ i < k
      BY <1>4, <3>1
    <3>3. y \in DOMAIN Tags /\ Tags[y] = TagOf(net[i])
      BY <2>1, <2>2, <3>2 DEF TagsMatch
    <3> QED
      BY <1>4, <2>1, <3>1, <3>2, <3>3 DEF OInv, Orderly, InRange
  <2>3. CASE v # Wire
    <3>1. v \in Threads /\ i = 0 => pc[v] # "count"
      BY <1>1, <1>6, <2>1 DEF TagsMatch
    <3>2. y \in DOMAIN Tags /\ Tags'[y] = Tags[y]
      BY <1>1, <1>6, <2>1, <2>3, <3>1, Untouched
    <3> QED
      BY <2>1, <2>3, <3>2 DEF OInv, Orderly, InRange
  <2> QED
    BY <2>2, <2>3
<1>7. Rank(z) = 9
  BY <1>4, RankOf DEF Wire
<1>8. ASSUME NEW y \in DOMAIN Tags' \ {z}, ~Tags[y].own PROVE Before(y, z) /\ Tags[y].n < n
  <2>1. y \in DOMAIN Tags /\ y[1] \in Holders /\ y[2] \in Nat /\ y = <<y[1], y[2]>>
    BY <1>0, <1>6, TagsFit DEF OInv
  <2>2. y[1][1] \notin {"app", "send"}
    BY <1>8, <2>1, DownIsOwn
  <2>3. ASSUME y[1] = Wire PROVE Before(y, z)
    <3>1. Rank(y) = 9 /\ y[2] < k
      BY <1>6, <2>1, <2>3, RankOf DEF Wire
    <3> QED
      BY <1>7, <2>3, <3>1 DEF Before
  <2>4. ASSUME y[1] = Listener PROVE Before(y, z)
    <3>1. Rank(y) = 10
      BY <2>1, <2>4, RankOf DEF Listener
    <3> HIDE DEF z
    <3> QED
      BY <1>7, <3>1 DEF Before
  <2>5. ASSUME y[1] \in Stages PROVE Before(y, z)
    <3> DEFINE e == Depth(y[1][2])
    <3>1. y[1][1] = "recv" /\ y[1][2] \in ProtocolIds
      BY <2>2, <2>5 DEF Stages
    <3>2. e \in 1..4 /\ Rank(y) = 9 + 2 * e + (IF y[2] = 0 THEN 1 ELSE 0)
      BY <2>1, <3>1, RankOf DEF Depth
    <3> HIDE DEF z, e
    <3>3. Rank(y) > 9
      BY <3>2
    <3> QED
      BY <1>7, <3>3 DEF Before
  <2>6. Before(y, z)
    BY <2>1, <2>2, <2>3, <2>4, <2>5, HolderKinds
  <2>7. Tags[y].n \in 1..strays
    BY <1>6, <1>8 DEF Known, Entered
  <2> QED
    BY <1>2, <2>6, <2>7
<1>9. ASSUME NEW y \in DOMAIN Tags' \ {z} PROVE Known(Tags[y], Entered')
  <2>1. Known(Tags[y], Entered)
    BY <1>6
  <2>2. CASE Tags[y].own
    BY <1>1, <2>1, <2>2 DEF Known, Entered
  <2>3. CASE ~Tags[y].own
    <3>1. Tags[y].app \in AppIds /\ Tags[y].n \in 1..strays
      BY <2>1, <2>3 DEF Known, Entered
    <3>2. Tags[y].n \in 1..strays'
      BY <1>1, <1>2, <3>1
    <3> QED
      BY <2>3, <3>1, <3>2 DEF Known, Entered
  <2> QED
    BY <2>2, <2>3
<1>10. ASSUME z \in DOMAIN Tags'
       PROVE  Known(Tags'[z], Entered') /\ Later(Tags'[z], delivered)
  <2>1. n \in 1..strays'
    BY <1>1, <1>2
  <2> HIDE DEF z
  <2> QED
    BY <1>0, <1>5, <1>10, <2>1 DEF Known, Later, Entered
<1> HIDE DEF z
<1>11. ASSUME z \in DOMAIN Tags', NEW y \in DOMAIN Tags' \ {z}
       PROVE  /\ Alike(Tags'[y], Tags'[z]) => Before(y, z) /\ Tags'[y].n < Tags'[z].n
              /\ ~Tags'[y].own /\ ~Tags'[z].own => Tags'[y].n # Tags'[z].n
  <2>1. CASE Tags'[y].own
    BY <1>5, <1>11, <2>1 DEF Alike
  <2>2. CASE ~Tags'[y].own
    <3>1. Before(y, z) /\ Tags'[y].n < n /\ Tags'[y].n \in Int
      <4>1. Tags[y].n \in 1..strays
        BY <1>6, <2>2 DEF Known, Entered
      <4> QED
        BY <1>6, <1>8, <2>2, <4>1
    <3>2. Tags'[y].n # n
      BY <1>2, <3>1
    <3> QED
      BY <1>5, <1>11, <3>1, <3>2
  <2> QED
    BY <2>1, <2>2
<1>12. Orderly(Tags', Entered', delivered)
  BY <1>6, <1>9, <1>10, <1>11, Enters DEF OInv
<1> QED
  BY <1>1, <1>12

-----------------------------------------------------------------------------
(* The invariant is inductive                                              *)

\* The next place of a path, down and up.
LEMMA NextDepth ==
  ASSUME NEW p \in ProtocolIds
  PROVE  /\ Depth(p) \in 1..4
         /\ p # ETHERNET_ID => Lower(p) \in ProtocolIds /\ Depth(Lower(p)) = Depth(p) - 1
         /\ \A h \in Accepts(p) : h \in ProtocolIds /\ Depth(h) = Depth(p) + 1
  BY DEF Depth, Lower, Accepts, ProtocolIds, ETHERNET_ID, IP_ID, TCP_ID, UDP_ID,
         FTP_ID, TELNET_ID, RDP_ID, DNS_ID

\* A pipe is one rank further than the hand of the thread that writes to it.
LEMMA NextRank ==
  /\ \A p \in ProtocolIds \ {ETHERNET_ID} :
        Rank(<<<<"send", Lower(p)>>, 1>>) = Rank(<<<<"send", p>>, 0>>) + 1
  /\ \A p \in ProtocolIds : \A h \in Accepts(p) :
        Rank(<<<<"recv", h>>, 1>>) = Rank(<<<<"recv", p>>, 0>>) + 1
  /\ \A a \in AppIds : Rank(<<<<"send", a>>, 1>>) = Rank(<<App(a), 0>>) + 1
  /\ Rank(<<<<"recv", ETHERNET_ID>>, 1>>) = Rank(<<Listener, 0>>) + 1
<1>1. \A p \in ProtocolIds : /\ Rank(<<<<"send", p>>, 1>>) = 9 - 2 * Depth(p)
                             /\ Rank(<<<<"send", p>>, 0>>) = 9 - 2 * Depth(p) + 1
                             /\ Rank(<<<<"recv", p>>, 1>>) = 9 + 2 * Depth(p)
                             /\ Rank(<<<<"recv", p>>, 0>>) = 9 + 2 * Depth(p) + 1
                             /\ Depth(p) \in Nat
  BY RankOf, NextDepth, 0 \in Nat, 1 \in Nat
<1>2. Rank(<<Listener, 0>>) = 10 /\ \A a \in AppIds : Rank(<<App(a), 0>>) = 0
  BY RankOf, 0 \in Nat DEF Listener, App
<1>3. /\ \A a \in AppIds : a \in ProtocolIds /\ Depth(a) = 4
      /\ ETHERNET_ID \in ProtocolIds /\ Depth(ETHERNET_ID) = 1
  BY DEF AppIds, Depth, ProtocolIds, ETHERNET_ID, IP_ID, TCP_ID, UDP_ID,
         FTP_ID, TELNET_ID, RDP_ID, DNS_ID
<1>4. ASSUME NEW p \in ProtocolIds \ {ETHERNET_ID}
      PROVE  Rank(<<<<"send", Lower(p)>>, 1>>) = Rank(<<<<"send", p>>, 0>>) + 1
  <2>1. Lower(p) \in ProtocolIds /\ Depth(Lower(p)) = Depth(p) - 1
    BY NextDepth
  <2>2. /\ Rank(<<<<"send", Lower(p)>>, 1>>) = 9 - 2 * Depth(Lower(p))
        /\ Rank(<<<<"send", p>>, 0>>) = 9 - 2 * Depth(p) + 1 /\ Depth(p) \in Nat
    BY <1>1, <2>1
  <2> QED
    BY <2>1, <2>2
<1>5. ASSUME NEW p \in ProtocolIds, NEW h \in Accepts(p)
      PROVE  Rank(<<<<"recv", h>>, 1>>) = Rank(<<<<"recv", p>>, 0>>) + 1
  <2>1. h \in ProtocolIds /\ Depth(h) = Depth(p) + 1
    BY NextDepth
  <2>2. /\ Rank(<<<<"recv", h>>, 1>>) = 9 + 2 * Depth(h)
        /\ Rank(<<<<"recv", p>>, 0>>) = 9 + 2 * Depth(p) + 1 /\ Depth(p) \in Nat
    BY <1>1, <2>1
  <2> QED
    BY <2>1, <2>2
<1>6. ASSUME NEW a \in AppIds PROVE Rank(<<<<"send", a>>, 1>>) = Rank(<<App(a), 0>>) + 1
  <2>1. Rank(<<<<"send", a>>, 1>>) = 9 - 2 * Depth(a) /\ Depth(a) = 4
    BY <1>1, <1>3
  <2> QED
    BY <1>2, <2>1
<1>7. Rank(<<<<"recv", ETHERNET_ID>>, 1>>) = Rank(<<Listener, 0>>) + 1
  <2>1. Rank(<<<<"recv", ETHERNET_ID>>, 1>>) = 9 + 2 * Depth(ETHERNET_ID)
    BY <1>1, <1>3
  <2> QED
    BY <1>2, <1>3, <2>1
<1> QED
  BY <1>4, <1>5, <1>6, <1>7

Hands == Full /\ OwnPath /\ Onward

\* One thread moves, with what it has in hand.
LEMMA HandsMove ==
  ASSUME TypeOK, Hands, NEW t \in Threads, NEW to, pc' = [pc EXCEPT ![t] = to],
         \A s \in Threads \ {t} : hand'[s] = hand[s] /\ dest'[s] = dest[s],
         IF to \in Holding THEN Len(hand'[t]) = 1 ELSE hand'[t] = <<>>,
         hand'[t] # <<>> => Fits(t, hand'[t][1].msg.app),
         to \in {"handoff", "write"} =>
             dest'[t] \in Pipes /\ Rank(<<dest'[t], 1>>) = Rank(<<t, 0>>) + 1,
         to = "lock" => t \in Stages
  PROVE  Hands'
<1>1. \A s \in Threads : pc'[s] = IF s = t THEN to ELSE pc[s]
  BY DEF TypeOK
<1>2. Full'
  BY <1>1 DEF Hands, Full
<1>3. OwnPath'
  BY DEF Hands, OwnPath
<1>4. Onward'
  BY <1>1 DEF Hands, Onward
<1> QED
  BY <1>2, <1>3, <1>4 DEF Hands

\* What every thread has in hand after a step of the specification.
LEMMA HandsStep == OInv /\ [Next]_vars => Hands'
<1> SUFFICES ASSUME OInv, [Next]_vars PROVE Hands'
  OBVIOUS
<1>0. TypeOK /\ HInv /\ Hands
  BY DEF OInv, HInv, TInv, Hands
<1>1. ASSUME NEW t \in Threads, LockNext(t) PROVE Hands'
  <2>1. UNCHANGED <<hand, dest>> /\ pc[t] = "handoff" /\ pc' = [pc EXCEPT ![t] = "write"]
    BY <1>1 DEF LockNext, Goto
  <2>2. Len(hand[t]) = 1 /\ (hand[t] # <<>> => Fits(t, hand[t][1].msg.app))
        /\ dest[t] \in Pipes /\ Rank(<<dest[t], 1>>) = Rank(<<t, 0>>) + 1
    BY <2>1 DEF OInv, Full, Holding, OwnPath, Onward
  <2> QED
    BY <1>0, <2>1, <2>2, HandsMove DEF Holding
<1>2. ASSUME NEW t \in Threads, Write(t) PROVE Hands'
  <2>1. /\ UNCHANGED dest /\ pc' = [pc EXCEPT ![t] = "release"]
        /\ hand' = [hand EXCEPT ![t] = <<>>]
    BY <1>2 DEF Write, Goto, LetGo
  <2>2. hand'[t] = <<>> /\ \A s \in Threads \ {t} : hand'[s] = hand[s]
    BY <1>0, <2>1 DEF TypeOK
  <2> QED
    BY <1>0, <2>1, <2>2, HandsMove DEF Holding
<1>3. ASSUME NEW t \in Threads, Release(t) PROVE Hands'
  <2>1. /\ UNCHANGED hand /\ dest' = [dest EXCEPT ![t] = NoPipe] /\ pc[t] = "release"
        /\ pc' = [pc EXCEPT ![t] = Resume(t)] /\ Resume(t) \notin Holding
    BY <1>3 DEF Release, Goto, Aim, Resume, Holding
  <2>2. hand[t] = <<>>
    BY <2>1 DEF OInv, Full, Holding
  <2>3. \A s \in Threads \ {t} : dest'[s] = dest[s]
    BY <1>0, <2>1 DEF TypeOK
  <2>4. Resume(t) \notin {"handoff", "write", "lock"}
    BY <2>1 DEF Holding
  <2> QED
    BY <1>0, <2>1, <2>2, <2>3, <2>4, HandsMove
<1>4. ASSUME NEW t \in Stages, Unlock(t) PROVE Hands'
  <2>1. /\ UNCHANGED <<hand, dest>> /\ pc' = [pc EXCEPT ![t] = "read"] /\ t \in Threads
        /\ pc[t] \in {"start", "unlock"}
    BY <1>4, ThreadSets DEF Unlock, Goto
  <2>2. hand[t] = <<>>
    BY <2>1 DEF OInv, Full, Holding
  <2> QED
    BY <1>0, <2>1, <2>2, HandsMove DEF Holding
<1>5. ASSUME NEW t \in Stages, Read(t) PROVE Hands'
  <2>1. /\ UNCHANGED dest /\ pc' = [pc EXCEPT ![t] = "lock"] /\ pipe[t] # <<>>
        /\ hand' = [hand EXCEPT ![t] = <<Head(pipe[t])>>] /\ t \in Threads /\ t \in Pipes
    BY <1>5, ThreadSets DEF Read, Goto, TakeFrom
  <2>2. hand'[t] = <<Head(pipe[t])>> /\ \A s \in Threads \ {t} : hand'[s] = hand[s]
    BY <1>0, <2>1 DEF TypeOK
  <2>3. Good(t, pipe[t][1]) /\ Head(pipe[t]) = pipe[t][1]
    <3>1. pipe[t] \in Seq(Unit)
      BY <1>0, <2>1 DEF TypeOK
    <3>2. 1 \in 1..Len(pipe[t]) /\ Head(pipe[t]) = pipe[t][1]
      BY <2>1, <3>1, TailShape
    <3> QED
      BY <1>0, <2>1, <3>2 DEF HInv, InPipes
  <2>4. Fits(t, hand'[t][1].msg.app) /\ Len(hand'[t]) = 1
    <3>1. hand'[t][1] = pipe[t][1] /\ Len(hand'[t]) = 1
      BY <2>2, <2>3
    <3>2. OnPath(pipe[t][1].msg, t[2])
      BY <2>3 DEF Good, SendGood, RecvGood
    <3> QED
      BY <3>1, <3>2, ThreadSets DEF Fits, OnPath
  <2> QED
    BY <1>0, <2>1, <2>2, <2>4, HandsMove DEF Holding
<1>6. ASSUME NEW p \in ProtocolIds, SendDown(p) PROVE Hands'
  <2> DEFINE t == <<"send", p>>
             u == hand[t][1]
             q == <<"send", Lower(p)>>
  <2>1. /\ p # ETHERNET_ID /\ pc[t] = "lock" /\ pc' = [pc EXCEPT ![t] = "handoff"]
        /\ hand' = [hand EXCEPT ![t] = <<Encapsulate(p, u)>>] /\ dest' = [dest EXCEPT ![t] = q]
        /\ t \in Stages /\ t \in Threads
    BY <1>6, ThreadSets DEF SendDown, LockOwn, Goto, Hold, Aim
  <2>2. /\ hand'[t] = <<Encapsulate(p, u)>> /\ dest'[t] = q
        /\ \A s \in Threads \ {t} : hand'[s] = hand[s] /\ dest'[s] = dest[s]
    BY <1>0, <2>1 DEF TypeOK
  <2>3. Fits(t, hand'[t][1].msg.app) /\ Len(hand'[t]) = 1
    <3>1. hand[t] # <<>>
      BY <1>0, <2>1 DEF HInv, TInv, HasUnit
    <3>2. hand'[t][1].msg.app = u.msg.app
      BY <2>2 DEF Encapsulate, AddHeader
    <3> QED
      BY <2>1, <2>2, <3>1, <3>2 DEF OInv, OwnPath
  <2>4. q \in Pipes /\ Rank(<<q, 1>>) = Rank(<<t, 0>>) + 1
    BY <2>1, NextRank, NextDepth, ThreadSets
  <2> HIDE DEF t, q
  <2> QED
    BY <1>0, <2>1, <2>2, <2>3, <2>4, HandsMove DEF Holding
<1>7. ASSUME NEW p \in ProtocolIds, PassUp(p) PROVE Hands'
  <2> DEFINE t == <<"recv", p>>
             u == hand[t][1]
             h == u.msg.hdrs[1].hlp
             q == <<"recv", h>>
  <2>1. t \in Stages /\ t \in Threads /\ pc[t] = "lock"
    BY <1>7, ThreadSets DEF PassUp, LockOwn
  <2>2. CASE h \in Accepts(p)
    <3>1. /\ pc' = [pc EXCEPT ![t] = "handoff"]
          /\ hand' = [hand EXCEPT ![t] = <<Strip(p, u)>>] /\ dest' = [dest EXCEPT ![t] = q]
      BY <1>7, <2>2 DEF PassUp, Goto, Hold, Aim
    <3>2. /\ hand'[t] = <<Strip(p, u)>> /\ dest'[t] = q
          /\ \A s \in Threads \ {t} : hand'[s] = hand[s] /\ dest'[s] = dest[s]
      BY <1>0, <2>1, <3>1 DEF TypeOK
    <3>3. Fits(t, hand'[t][1].msg.app) /\ Len(hand'[t]) = 1
      <4>1. hand[t] # <<>>
        BY <1>0, <2>1 DEF HInv, TInv, HasUnit
      <4>2. hand'[t][1].msg.app = u.msg.app
        BY <3>2 DEF Strip, StripHeader
      <4> QED
        BY <2>1, <3>2, <4>1, <4>2 DEF OInv, OwnPath
    <3>4. q \in Pipes /\ Rank(<<q, 1>>) = Rank(<<t, 0>>) + 1
      <4> HIDE DEF h
      <4> QED
        BY <2>2, NextRank, NextDepth, ThreadSets
    <3> HIDE DEF t, q
    <3> QED
      BY <1>0, <2>1, <3>1, <3>2, <3>3, <3>4, HandsMove DEF Holding
  <2>3. CASE h \notin Accepts(p)
    <3>1. /\ pc' = [pc EXCEPT ![t] = "unlock"]
          /\ hand' = [hand EXCEPT ![t] = <<>>] /\ UNCHANGED dest
      BY <1>7, <2>3 DEF PassUp, Goto, LetGo
    <3>2. hand'[t] = <<>> /\ \A s \in Threads \ {t} : hand'[s] = hand[s]
      BY <1>0, <2>1, <3>1 DEF TypeOK
    <3> HIDE DEF t
    <3> QED
      BY <1>0, <2>1, <3>1, <3>2, HandsMove DEF Holding
  <2> QED
    BY <2>2, <2>3
<1>8. ASSUME NEW a \in AppIds, AppReceive(a) PROVE Hands'
  <2> DEFINE t == <<"recv", a>>
             u == hand[t][1]
  <2>1. /\ t \in Stages /\ t \in Threads /\ UNCHANGED dest /\ pc[t] = "lock"
        /\ pc' = [pc EXCEPT ![t] = "count"] /\ hand' = [hand EXCEPT ![t] = <<Strip(a, u)>>]
    BY <1>8, ThreadSets, GraphTypes DEF AppReceive, LockOwn, Goto, Hold
  <2>2. hand'[t] = <<Strip(a, u)>> /\ \A s \in Threads \ {t} : hand'[s] = hand[s]
    BY <1>0, <2>1 DEF TypeOK
  <2>3. Fits(t, hand'[t][1].msg.app) /\ Len(hand'[t]) = 1
    <3>1. hand[t] # <<>>
      BY <1>0, <2>1 DEF HInv, TInv, HasUnit
    <3>2. hand'[t][1].msg.app = u.msg.app
      BY <2>2 DEF Strip, StripHeader
    <3> QED
      BY <2>1, <2>2, <3>1, <3>2 DEF OInv, OwnPath
  <2> HIDE DEF t
  <2> QED
    BY <1>0, <2>1, <2>2, <2>3, HandsMove DEF Holding
<1>9. ASSUME NEW a \in AppIds, Count(a) PROVE Hands'
  <2> DEFINE t == <<"recv", a>>
  <2>1. /\ t \in Threads /\ UNCHANGED dest
        /\ pc' = [pc EXCEPT ![t] = "unlock"] /\ hand' = [hand EXCEPT ![t] = <<>>]
    BY <1>9, ThreadSets, GraphTypes DEF Count, Goto, LetGo
  <2>2. hand'[t] = <<>> /\ \A s \in Threads \ {t} : hand'[s] = hand[s]
    BY <1>0, <2>1 DEF TypeOK
  <2> HIDE DEF t
  <2> QED
    BY <1>0, <2>1, <2>2, HandsMove DEF Holding
<1>10. ASSUME NEW a \in Apps, Compose(a) PROVE Hands'
  <2> DEFINE t == App(a)
             q == <<"send", a>>
  <2>1. /\ t \in Threads /\ a \in AppIds /\ pc' = [pc EXCEPT ![t] = "handoff"]
        /\ \E id : hand' = [hand EXCEPT ![t] = <<[id |-> id, msg |-> NewMessage(a, sent[a] + 1)]>>]
        /\ dest' = [dest EXCEPT ![t] = q]
    BY <1>10, ThreadSets, PerProtocolAssumption DEF Compose, Goto, Hold, Aim
  <2>2. /\ dest'[t] = q /\ \A s \in Threads \ {t} : hand'[s] = hand[s] /\ dest'[s] = dest[s]
        /\ \E id : hand'[t] = <<[id |-> id, msg |-> NewMessage(a, sent[a] + 1)]>>
    BY <1>0, <2>1 DEF TypeOK
  <2>3. Fits(t, hand'[t][1].msg.app) /\ Len(hand'[t]) = 1
    <3>1. hand'[t][1].msg.app = a /\ Len(hand'[t]) = 1
      BY <2>2 DEF NewMessage
    <3>2. Fits(t, a)
      BY ThreadSets DEF Fits, App
    <3> QED
      BY <3>1, <3>2
  <2>4. q \in Pipes /\ Rank(<<q, 1>>) = Rank(<<t, 0>>) + 1
    BY <2>1, NextRank, GraphTypes, ThreadSets
  <2> HIDE DEF t, q
  <2> QED
    BY <1>0, <2>1, <2>2, <2>3, <2>4, HandsMove DEF Holding
<1>11. ASSUME EthSend PROVE Hands'
  <2> DEFINE t == <<"send", ETHERNET_ID>>
  <2>1. /\ t \in Threads /\ UNCHANGED dest
        /\ pc' = [pc EXCEPT ![t] = "unlock"] /\ hand' = [hand EXCEPT ![t] = <<>>]
    BY <1>11, ThreadSets DEF EthSend, Goto, LetGo, ETHERNET_ID, ProtocolIds
  <2>2. hand'[t] = <<>> /\ \A s \in Threads \ {t} : hand'[s] = hand[s]
    BY <1>0, <2>1 DEF TypeOK
  <2> HIDE DEF t
  <2> QED
    BY <1>0, <2>1, <2>2, HandsMove DEF Holding
<1>12. ASSUME Receive PROVE Hands'
  <2> DEFINE t == Listener
             q == <<"recv", ETHERNET_ID>>
  <2>1. /\ t \in Threads /\ pc' = [pc EXCEPT ![t] = "handoff"]
        /\ hand' = [hand EXCEPT ![t] = <<[id |-> 0, msg |-> Head(net)]>>]
        /\ dest' = [dest EXCEPT ![t] = q]
    BY <1>12, ThreadSets DEF Receive, Goto, Hold, Aim
  <2>2. /\ dest'[t] = q /\ \A s \in Threads \ {t} : hand'[s] = hand[s] /\ dest'[s] = dest[s]
        /\ hand'[t] = <<[id |-> 0, msg |-> Head(net)]>>
    BY <1>0, <2>1 DEF TypeOK
  <2>3. \A m : Fits(t, m)
    BY ThreadSets DEF Fits, Listener, App
  <2>4. q \in Pipes /\ Rank(<<q, 1>>) = Rank(<<t, 0>>) + 1
    BY NextRank, ThreadSets DEF ETHERNET_ID, ProtocolIds
  <2> HIDE DEF t, q
  <2> QED
    BY <1>0, <2>1, <2>2, <2>3, <2>4, HandsMove DEF Holding
<1>13. CASE UNCHANGED vars
  BY <1>0, <1>13 DEF vars, Hands, Full, OwnPath, Onward
<1>14. ASSUME NEW x \in Strays, Intrude(x[1], x[2]) PROVE Hands'
  BY <1>0, <1>14 DEF Intrude, Hands, Full, OwnPath, Onward
<1> QED
  BY <1>1, <1>2, <1>3, <1>4, <1>5, <1>6, <1>7, <1>8, <1>9, <1>10, <1>11, <1>12, <1>13, <1>14
     DEF Next, Step, Writer, Stage, Wait

\* The tags of the next state.
LEMMA TagsOfNext == TInv' => TagsMatch'
  BY TagsOfState, PTL

\* The initial states satisfy the invariant: there are no messages yet.
LEMMA OInvInit == Init => OInv
<1> SUFFICES ASSUME Init PROVE OInv
  OBVIOUS
<1>1. HInv /\ TagsMatch
  BY HInvInit, TagsOfState DEF HInv
<1>2. /\ \A t \in Threads : hand[t] = <<>> /\ pc[t] \notin Holding
      /\ \A q \in Pipes : pipe[q] = <<>>
      /\ net = <<>>
  BY DEF Init, Holding
<1>3. Full /\ OwnPath
  BY <1>2 DEF Full, OwnPath
<1>4. Onward
  BY <1>2 DEF Onward, Holding
<1>5. ReceivedSent
  <2>1. \A a \in Apps : delivered[a] = <<>>
    BY PerProtocolAssumption DEF Init
  <2> QED
    BY <2>1 DEF ReceivedSent
<1>6. ASSUME NEW x \in DOMAIN Tags PROVE FALSE
  <2>1. PICK w \in Holders, i \in Nat : x = <<w, i>>
    BY <1>1 DEF TagsMatch, Placed
  <2>2. CASE w \in Threads /\ i = 0
    BY <1>1, <1>2, <2>1, <2>2 DEF TagsMatch
  <2>3. CASE w \in Pipes /\ i # 0
    <3>1. i \in 1..Len(pipe[w]) /\ pipe[w] = <<>>
      BY <1>1, <1>2, <2>1, <2>3 DEF TagsMatch
    <3> QED
      BY <3>1
  <2>4. CASE w = Wire
    <3>1. i \in 1..Len(net) /\ net = <<>>
      BY <1>1, <1>2, <2>1, <2>4 DEF TagsMatch
    <3> QED
      BY <3>1
  <2> QED
    BY <1>1, <2>1, <2>2, <2>3, <2>4 DEF Holders, TagsMatch
<1>7. Orderly(Tags, Entered, delivered)
  BY <1>6 DEF Orderly, Ordered, InRange, OneStray
<1> QED
  BY <1>1, <1>3, <1>4, <1>5, <1>7 DEF OInv

\* The order of the messages after a step.
LEMMA OrderStep ==
  ASSUME OInv, TagsMatch, TagsMatch', [Next]_vars
  PROVE  Orderly(Tags', Entered', delivered')
<1>0. TypeOK /\ HInv
  BY DEF OInv, HInv, TInv
<1>1. ASSUME NEW t \in Threads, LockNext(t) PROVE Orderly(Tags', Entered', delivered')
  BY <1>1, OrderStill DEF LockNext, Goto
<1>2. ASSUME NEW t \in Threads, Write(t) PROVE Orderly(Tags', Entered', delivered')
  BY <1>2, OrderWrite
<1>3. ASSUME NEW t \in Threads, Release(t) PROVE Orderly(Tags', Entered', delivered')
  BY <1>3, OrderStill DEF Release, Goto
<1>4. ASSUME NEW t \in Stages, Unlock(t) PROVE Orderly(Tags', Entered', delivered')
  <2>1. /\ UNCHANGED <<hand, pipe, net, strays, sent, delivered>> /\ t \in Threads
        /\ pc' = [pc EXCEPT ![t] = "read"] /\ pc[t] # "count"
    BY <1>4, ThreadSets DEF Unlock, Goto
  <2> QED
    BY <2>1, OrderStill
<1>5. ASSUME NEW t \in Stages, Read(t) PROVE Orderly(Tags', Entered', delivered')
  BY <1>5, OrderRead
<1>6. ASSUME NEW p \in ProtocolIds, SendDown(p) PROVE Orderly(Tags', Entered', delivered')
  <2> DEFINE t == <<"send", p>>
  <2>1. /\ pc[t] = "lock" /\ pc' = [pc EXCEPT ![t] = "handoff"]
        /\ hand' = [hand EXCEPT ![t] = <<Encapsulate(p, hand[t][1])>>]
        /\ UNCHANGED <<pipe, net, strays, sent, delivered>> /\ t \in Stages /\ t \in Threads
    BY <1>6, ThreadSets DEF SendDown, LockOwn, Goto, Hold
  <2>2. /\ hand'[t] = <<Encapsulate(p, hand[t][1])>> /\ hand[t] # <<>> /\ pc[t] # "count"
        /\ \A s \in Threads \ {t} : hand'[s] = hand[s] /\ pc'[s] = pc[s]
    BY <1>0, <2>1 DEF HInv, TInv, HasUnit, TypeOK
  <2>3. TagOf(hand'[t][1].msg) = TagOf(hand[t][1].msg)
    BY <2>2, SameTag
  <2> HIDE DEF t
  <2>4. Orderly(Tags', Entered, delivered)
    BY <2>1, <2>2, <2>3, OrderInHand
  <2> QED
    BY <2>1, <2>4 DEF Entered
<1>7. ASSUME NEW p \in ProtocolIds, PassUp(p) PROVE Orderly(Tags', Entered', delivered')
  <2> DEFINE t == <<"recv", p>>
  <2>1. /\ pc[t] = "lock" /\ \E to : pc' = [pc EXCEPT ![t] = to]
        /\ \/ hand' = [hand EXCEPT ![t] = <<Strip(p, hand[t][1])>>]
           \/ hand' = [hand EXCEPT ![t] = <<>>]
        /\ UNCHANGED <<pipe, net, strays, sent, delivered>> /\ t \in Stages /\ t \in Threads
    BY <1>7, ThreadSets DEF PassUp, LockOwn, Goto, Hold, LetGo
  <2>2. /\ hand'[t] = <<Strip(p, hand[t][1])>> \/ hand'[t] = <<>>
        /\ hand[t] # <<>> /\ pc[t] # "count"
        /\ \A s \in Threads \ {t} : hand'[s] = hand[s] /\ pc'[s] = pc[s]
    BY <1>0, <2>1 DEF HInv, TInv, HasUnit, TypeOK
  <2>3. hand'[t] # <<>> => TagOf(hand'[t][1].msg) = TagOf(hand[t][1].msg)
    BY <2>2, SameTag
  <2> HIDE DEF t
  <2>4. Orderly(Tags', Entered, delivered)
    BY <2>1, <2>2, <2>3, OrderInHand
  <2> QED
    BY <2>1, <2>4 DEF Entered
<1>8. ASSUME NEW a \in AppIds, AppReceive(a) PROVE Orderly(Tags', Entered', delivered')
  BY <1>8, OrderAppReceive
<1>9. ASSUME NEW a \in AppIds, Count(a) PROVE Orderly(Tags', Entered', delivered')
  <2> DEFINE t == <<"recv", a>>
  <2>1. /\ pc' = [pc EXCEPT ![t] = "unlock"] /\ hand' = [hand EXCEPT ![t] = <<>>]
        /\ UNCHANGED <<pipe, net, strays, sent, delivered>> /\ t \in Threads
    BY <1>9, ThreadSets, GraphTypes DEF Count, Goto, LetGo
  <2>2. hand'[t] = <<>> /\ \A s \in Threads \ {t} : hand'[s] = hand[s] /\ pc'[s] = pc[s]
    BY <1>0, <2>1 DEF TypeOK
  <2> HIDE DEF t
  <2>3. Orderly(Tags', Entered, delivered)
    BY <2>1, <2>2, OrderInHand
  <2> QED
    BY <2>1, <2>3 DEF Entered
<1>10. ASSUME NEW a \in Apps, Compose(a) PROVE Orderly(Tags', Entered', delivered')
  BY <1>10, OrderCompose
<1>11. ASSUME EthSend PROVE Orderly(Tags', Entered', delivered')
  BY <1>11, OrderEthSend
<1>12. ASSUME Receive PROVE Orderly(Tags', Entered', delivered')
  BY <1>12, OrderReceive
<1>13. CASE UNCHANGED vars
  <2>1. Tags' = Tags
    BY <1>13 DEF vars, Tags, Places, MsgAt
  <2> QED
    BY <1>13, <2>1 DEF vars, OInv, Entered
<1>14. ASSUME NEW x \in Strays, Intrude(x[1], x[2]) PROVE Orderly(Tags', Entered', delivered')
  BY <1>14, OrderIntrude
<1> QED
  BY <1>1, <1>2, <1>3, <1>4, <1>5, <1>6, <1>7, <1>8, <1>9, <1>10, <1>11, <1>12, <1>13, <1>14
     DEF Next, Step, Writer, Stage, Wait

\* The steps that change what was sent or received.
LEMMA Counts ==
  ASSUME [Next]_vars
  PROVE  \/ UNCHANGED <<sent, delivered>>
         \/ \E a \in Apps : Compose(a)
         \/ \E a \in AppIds : AppReceive(a)
<1>1. ASSUME NEW t \in Threads, Writer(t) PROVE UNCHANGED <<sent, delivered>>
  BY <1>1 DEF Writer, LockNext, Write, Release
<1>2. ASSUME NEW t \in Stages, Stage(t) PROVE UNCHANGED <<sent, delivered>>
  BY <1>2 DEF Stage, Unlock, Read
<1>3. ASSUME NEW p \in ProtocolIds, SendDown(p) \/ PassUp(p) PROVE UNCHANGED <<sent, delivered>>
  BY <1>3 DEF SendDown, PassUp, LockOwn
<1>4. ASSUME NEW a \in AppIds, Count(a) PROVE UNCHANGED <<sent, delivered>>
  BY <1>4 DEF Count
<1>5. EthSend \/ Receive \/ Wait \/ UNCHANGED vars => UNCHANGED <<sent, delivered>>
  BY DEF EthSend, Receive, LockOwn, Wait, vars
<1>6. ASSUME NEW x \in Strays, Intrude(x[1], x[2]) PROVE UNCHANGED <<sent, delivered>>
  BY <1>6 DEF Intrude
<1> QED
  BY <1>1, <1>2, <1>3, <1>4, <1>5, <1>6 DEF Next, Step

\* What the channel of the applications has accepted from each.
Acc == [a \in AppIds |-> IF a \in Apps THEN sent[a] ELSE 0]

\* To compose a message is to have one more accepted.
LEMMA ComposeAccepts ==
  ASSUME OInv, NEW a \in Apps, Compose(a)
  PROVE  /\ a \in AppIds /\ sent' = [sent EXCEPT ![a] = @ + 1] /\ UNCHANGED delivered
         /\ Acc' = [Acc EXCEPT ![a] = @ + 1]
<1>1. a \in AppIds /\ sent' = [sent EXCEPT ![a] = @ + 1] /\ UNCHANGED delivered
  BY PerProtocolAssumption DEF Compose
<1>2. sent \in [Apps -> Nat]
  BY DEF OInv, HInv, TInv, TypeOK
<1> QED
  BY <1>1, <1>2 DEF Acc

\* What an application receives was sent, and later than all it received before,
\* unless it is text of another program.
Takes(a, n) ==
    \/ a \in Apps /\ n \in 1..sent[a] /\ \A i \in DOMAIN delivered[a] : delivered[a][i] < n
    \/ n = 0 /\ <<a, 4>> \in Strays

LEMMA AppReceiveTakes ==
  ASSUME OInv, TagsMatch, NEW a \in AppIds, AppReceive(a)
  PROVE  \E n \in Nat :
            /\ Takes(a, n) /\ UNCHANGED sent
            /\ delivered' = [delivered EXCEPT ![a] = Append(@, n)]
<1> DEFINE m == hand[<<"recv", a>>][1].msg
           n == Number(m)
<1>1. /\ pc[<<"recv", a>>] = "lock" /\ UNCHANGED sent
      /\ delivered' = [delivered EXCEPT ![a] = Append(@, n)]
  BY DEF AppReceive, LockOwn, Goto
<1>2. /\ Own(m) => /\ n = m.n /\ a \in Apps /\ n \in 1..sent[a]
                   /\ \A i \in DOMAIN delivered[a] : delivered[a][i] < n
      /\ ~Own(m) => n = 0 /\ <<a, 4>> \in Strays
  BY <1>1, AtApplication
<1>3. Takes(a, n)
  BY <1>2 DEF Takes
<1>4. n \in Nat
  <2> HIDE DEF n
  <2> QED
    BY <1>3 DEF Takes
<1> QED
  BY <1>1, <1>3, <1>4

\* What has been received was sent, after a step as before.
LEMMA ReceivedSentStep ==
  ASSUME OInv, TagsMatch, [Next]_vars
  PROVE  ReceivedSent'
<1>0. TypeOK /\ ReceivedSent
  BY DEF OInv, HInv, TInv
<1>1. CASE UNCHANGED <<sent, delivered>>
  BY <1>0, <1>1 DEF ReceivedSent
<1>2. ASSUME NEW a \in Apps, Compose(a) PROVE ReceivedSent'
  <2>1. sent' = [sent EXCEPT ![a] = @ + 1] /\ UNCHANGED delivered
    BY <1>2, ComposeAccepts
  <2>2. ASSUME NEW b \in Apps, NEW i \in DOMAIN delivered[b] PROVE delivered[b][i] <= sent'[b]
    <3>1. sent[b] \in Nat /\ sent'[b] \in Nat /\ sent[b] <= sent'[b]
      BY <1>0, <2>1 DEF TypeOK
    <3>2. delivered[b] \in Seq(Nat) /\ delivered[b][i] <= sent[b]
      BY <1>0, PerProtocolAssumption DEF TypeOK, ReceivedSent
    <3>3. delivered[b][i] \in Nat
      BY <3>2
    <3> QED
      BY <3>1, <3>2, <3>3
  <2> QED
    BY <2>1, <2>2 DEF ReceivedSent
<1>3. ASSUME NEW a \in AppIds, AppReceive(a) PROVE ReceivedSent'
  <2>1. PICK n \in Nat : /\ Takes(a, n) /\ UNCHANGED sent
                         /\ delivered' = [delivered EXCEPT ![a] = Append(@, n)]
    BY <1>3, AppReceiveTakes
  <2>2. ASSUME NEW b \in Apps, NEW i \in DOMAIN delivered'[b] PROVE delivered'[b][i] <= sent[b]
    <3>0. delivered \in [AppIds -> Seq(Nat)] /\ b \in AppIds /\ sent[b] \in Nat
      BY <1>0, PerProtocolAssumption DEF TypeOK
    <3>1. CASE b = a
      <4>1. delivered[a] \in Seq(Nat) /\ delivered'[b] = Append(delivered[a], n)
        BY <2>1, <3>0, <3>1
      <4>2. CASE i \in DOMAIN delivered[a]
        <5>1. delivered'[b][i] = delivered[a][i]
          BY <3>0, <4>1, <4>2
        <5> QED
          BY <1>0, <3>1, <4>2, <5>1 DEF ReceivedSent
      <4>3. CASE i \notin DOMAIN delivered[a]
        <5>1. delivered'[b][i] = n
          BY <2>2, <3>0, <4>1, <4>3
        <5>2. n <= sent[b]
          BY <2>1, <3>0, <3>1 DEF Takes
        <5> QED
          BY <5>1, <5>2
      <4> QED
        BY <4>2, <4>3
    <3>2. CASE b # a
      <4>1. delivered'[b] = delivered[b]
        BY <2>1, <3>0, <3>2
      <4> QED
        BY <1>0, <2>2, <4>1 DEF ReceivedSent
    <3> QED
      BY <3>1, <3>2
  <2> QED
    BY <2>1, <2>2 DEF ReceivedSent
<1> QED
  BY <1>1, <1>2, <1>3, Counts

\* Every step keeps the invariant.
LEMMA OInvStep == OInv /\ [Next]_vars => OInv'
<1> SUFFICES ASSUME OInv, [Next]_vars PROVE OInv'
  OBVIOUS
<1>1. HInv' /\ TagsMatch /\ TagsMatch'
  <2>1. HInv'
    BY HInvStep DEF OInv
  <2> QED
    BY <2>1, TagsOfState, TagsOfNext DEF OInv, HInv
<1>2. Hands'
  BY HandsStep
<1>3. Orderly(Tags', Entered', delivered')
  BY <1>1, OrderStep
<1>4. ReceivedSent'
  BY <1>1, ReceivedSentStep
<1> QED
  BY <1>1, <1>2, <1>3, <1>4 DEF OInv, Hands

\* The invariant holds throughout.
LEMMA OInvariant == Spec => []OInv
  BY OInvInit, OInvStep, PTL DEF Spec

-----------------------------------------------------------------------------
(* The theorems                                                            *)

\* No message is in two places, none overtakes another of its application on the
\* way down, on the wire or on the way up, and all in flight are later than those
\* the application has received.
THEOREM OrderKept == Spec => []InOrder
<1>1. OInv => InOrder
  BY TagsOfState, OrderIsInOrder DEF OInv, HInv, TagsMatch, Orderly
<1> QED
  BY <1>1, OInvariant, PTL

\* For its applications the stack is a channel that may lose messages but invents,
\* repeats and reorders none; text of another program comes only where datagrams
\* of its with four valid headers lead.
THEOREM StackIsLossyFifo == Spec => ImplementsLossyFifo
<1>1. Init => Fifo!Init
  <2> SUFFICES ASSUME Init PROVE Fifo!Init
    OBVIOUS
  <2>1. Acc = [a \in AppIds |-> 0]
    BY DEF Init, Acc
  <2> QED
    BY <2>1 DEF Init, Fifo!Init, Acc
<1>2. OInv /\ [Next]_vars => [Fifo!Next]_(Fifo!vars)
  <2> SUFFICES ASSUME OInv, [Next]_vars PROVE Fifo!Next \/ UNCHANGED Fifo!vars
    OBVIOUS
  <2>0. TagsMatch
    BY TagsOfState DEF OInv, HInv
  <2>1. CASE UNCHANGED <<sent, delivered>>
    BY <2>1 DEF Fifo!vars
  <2>2. ASSUME NEW a \in Apps, Compose(a) PROVE Fifo!Next
    <3>1. a \in AppIds /\ UNCHANGED delivered /\ Acc' = [Acc EXCEPT ![a] = @ + 1]
      BY <2>2, ComposeAccepts
    <3>2. Fifo!Accept(a)
      BY <3>1 DEF Fifo!Accept, Acc
    <3> QED
      BY <3>1, <3>2 DEF Fifo!Next
  <2>3. ASSUME NEW a \in AppIds, AppReceive(a) PROVE Fifo!Next
    <3>1. PICK n \in Nat : /\ Takes(a, n) /\ UNCHANGED sent
                           /\ delivered' = [delivered EXCEPT ![a] = Append(@, n)]
      BY <2>0, <2>3, AppReceiveTakes
    <3>2. Acc' = Acc
      BY <3>1 DEF Acc
    <3>3. CASE /\ a \in Apps /\ n \in 1..sent[a]
               /\ \A i \in DOMAIN delivered[a] : delivered[a][i] < n
      <4>1. n \in 1..Acc[a]
        BY <3>3 DEF Acc
      <4>2. Fifo!Receive(a, n)
        BY <3>1, <3>2, <3>3, <4>1 DEF Fifo!Receive, Acc
      <4> QED
        BY <4>1, <4>2 DEF Fifo!Next, Acc
    <3>4. CASE n = 0 /\ <<a, 4>> \in Strays
      <4>1. Fifo!Intrude(a)
        BY <3>1, <3>2, <3>4 DEF Fifo!Intrude, Acc
      <4> QED
        BY <3>4, <4>1 DEF Fifo!Next
    <3> QED
      BY <3>1, <3>3, <3>4 DEF Takes
  <2> QED
    BY <2>1, <2>2, <2>3, Counts
<1> QED
  BY <1>1, <1>2, OInvariant, PTL DEF Spec, ImplementsLossyFifo, Fifo!Spec
-----------------------------------------------------------------------------
(* The counter                                                             *)

\* The threads between the load of mCounter and the store.
AtCount(a) == pc[<<"recv", a>>] = "count"

\* Only AppReceive and Count have to do with the counter.
LEMMA CountersStay ==
  ASSUME TypeOK, [Next]_vars, \A a \in AppIds : ~AppReceive(a) /\ ~Count(a)
  PROVE  UNCHANGED <<mCounter, reg, delivered>> /\ \A a \in AppIds : AtCount(a)' <=> AtCount(a)
<1>1. ASSUME NEW t \in Threads, NEW from, NEW to, from # "count", to # "count", Goto(t, from, to)
      PROVE  \A a \in AppIds : AtCount(a)' <=> AtCount(a)
  <2>1. pc \in [Threads -> PCs] /\ pc' = [pc EXCEPT ![t] = to] /\ pc[t] = from
    BY <1>1 DEF TypeOK, Goto
  <2> QED
    BY <1>1, <2>1, ThreadSets, GraphTypes DEF AtCount
<1>2. ASSUME NEW t \in Threads, Writer(t)
      PROVE  UNCHANGED <<mCounter, reg, delivered>> /\ \A a \in AppIds : AtCount(a)' <=> AtCount(a)
  BY <1>1, <1>2 DEF Writer, LockNext, Write, Release, Resume
<1>3. ASSUME NEW t \in Stages, Stage(t)
      PROVE  UNCHANGED <<mCounter, reg, delivered>> /\ \A a \in AppIds : AtCount(a)' <=> AtCount(a)
  BY <1>1, <1>3, ThreadSets DEF Stage, Unlock, Read
<1>4. ASSUME NEW p \in ProtocolIds, SendDown(p) \/ PassUp(p)
      PROVE  UNCHANGED <<mCounter, reg, delivered>> /\ \A a \in AppIds : AtCount(a)' <=> AtCount(a)
  <2>1. <<"send", p>> \in Threads /\ <<"recv", p>> \in Threads
    BY ThreadSets
  <2> QED
    BY <1>1, <1>4, <2>1 DEF SendDown, PassUp
<1>5. ASSUME NEW a \in Apps, Compose(a)
      PROVE  UNCHANGED <<mCounter, reg, delivered>> /\ \A b \in AppIds : AtCount(b)' <=> AtCount(b)
  BY <1>1, <1>5, ThreadSets DEF Compose
<1>6. ASSUME EthSend \/ Receive
      PROVE  UNCHANGED <<mCounter, reg, delivered>> /\ \A a \in AppIds : AtCount(a)' <=> AtCount(a)
  <2>1. <<"send", ETHERNET_ID>> \in Threads /\ Listener \in Threads
    BY ThreadSets DEF ProtocolIds, ETHERNET_ID
  <2> QED
    BY <1>1, <1>6, <2>1 DEF EthSend, Receive
<1>7. ASSUME Wait \/ UNCHANGED vars
      PROVE  UNCHANGED <<mCounter, reg, delivered>> /\ \A a \in AppIds : AtCount(a)' <=> AtCount(a)
  BY <1>7 DEF Wait, vars, AtCount
<1>8. ASSUME NEW x \in Strays, Intrude(x[1], x[2])
      PROVE  UNCHANGED <<mCounter, reg, delivered>> /\ \A a \in AppIds : AtCount(a)' <=> AtCount(a)
  BY <1>8 DEF Intrude, AtCount
<1> QED
  BY <1>2, <1>3, <1>4, <1>5, <1>6, <1>7, <1>8 DEF Next, Step

\* What the two do, in the state OInv describes.
LEMMA CounterSteps ==
  ASSUME OInv, NEW a \in AppIds
  PROVE  /\ AppReceive(a) =>
              /\ a \in Apps \/ <<a, 4>> \in Strays
              /\ ~AtCount(a) /\ AtCount(a)'
              /\ \A b \in AppIds \ {a} : AtCount(b)' <=> AtCount(b)
              /\ reg' = [reg EXCEPT ![a] = mCounter] /\ UNCHANGED mCounter
              /\ Len(delivered'[a]) = Len(delivered[a]) + 1
              /\ \A b \in AppIds \ {a} : delivered'[b] = delivered[b]
         /\ Count(a) =>
              /\ AtCount(a) /\ ~AtCount(a)'
              /\ \A b \in AppIds \ {a} : AtCount(b)' <=> AtCount(b)
              /\ mCounter' = reg[a] + 1 /\ reg' = [reg EXCEPT ![a] = 0]
              /\ UNCHANGED delivered
<1>1. /\ pc \in [Threads -> PCs] /\ delivered \in [AppIds -> Seq(Nat)]
      /\ \A b \in AppIds : <<"recv", b>> \in Threads
  BY ThreadSets, GraphTypes DEF OInv, HInv, TInv, TypeOK
<1>2. \A b \in AppIds \ {a} : <<"recv", b>> # <<"recv", a>>
  OBVIOUS
<1>3. ASSUME AppReceive(a)
      PROVE  /\ a \in Apps \/ <<a, 4>> \in Strays
             /\ ~AtCount(a) /\ AtCount(a)'
             /\ \A b \in AppIds \ {a} : AtCount(b)' <=> AtCount(b)
             /\ reg' = [reg EXCEPT ![a] = mCounter] /\ UNCHANGED mCounter
             /\ Len(delivered'[a]) = Len(delivered[a]) + 1
             /\ \A b \in AppIds \ {a} : delivered'[b] = delivered[b]
  <2>1. /\ pc[<<"recv", a>>] = "lock" /\ pc' = [pc EXCEPT ![<<"recv", a>>] = "count"]
        /\ reg' = [reg EXCEPT ![a] = mCounter] /\ UNCHANGED mCounter
    BY <1>3 DEF AppReceive, Goto
  <2>2. /\ ~AtCount(a) /\ AtCount(a)'
        /\ \A b \in AppIds \ {a} : AtCount(b)' <=> AtCount(b)
    BY <1>1, <1>2, <2>1 DEF AtCount
  <2>3. TagsMatch
    BY TagsOfState DEF OInv, HInv
  <2>4. PICK n \in Nat : Takes(a, n) /\ delivered' = [delivered EXCEPT ![a] = Append(@, n)]
    BY <1>3, <2>3, AppReceiveTakes
  <2>5. delivered[a] \in Seq(Nat) /\ delivered'[a] = Append(delivered[a], n)
    BY <1>1, <2>4
  <2>6. Len(delivered'[a]) = Len(delivered[a]) + 1
    BY <2>5
  <2> QED
    BY <1>1, <2>1, <2>2, <2>4, <2>6 DEF Takes
<1>4. ASSUME Count(a)
      PROVE  /\ AtCount(a) /\ ~AtCount(a)'
             /\ \A b \in AppIds \ {a} : AtCount(b)' <=> AtCount(b)
             /\ mCounter' = reg[a] + 1 /\ reg' = [reg EXCEPT ![a] = 0]
             /\ UNCHANGED delivered
  <2>1. /\ pc[<<"recv", a>>] = "count" /\ pc' = [pc EXCEPT ![<<"recv", a>>] = "unlock"]
        /\ mCounter' = reg[a] + 1 /\ reg' = [reg EXCEPT ![a] = 0] /\ UNCHANGED delivered
    BY <1>4 DEF Count, Goto
  <2> QED
    BY <1>1, <1>2, <2>1 DEF AtCount
<1> QED
  BY <1>3, <1>4

\* The four applications are four.
LEMMA AppsDiffer ==
  /\ AppIds = {FTP_ID, TELNET_ID, RDP_ID, DNS_ID}
  /\ FTP_ID # TELNET_ID /\ FTP_ID # RDP_ID /\ FTP_ID # DNS_ID
  /\ TELNET_ID # RDP_ID /\ TELNET_ID # DNS_ID /\ RDP_ID # DNS_ID
  BY DEF AppIds, FTP_ID, TELNET_ID, RDP_ID, DNS_ID

\* The number of messages received goes up by one when an application receives.
LEMMA ReceivedMore ==
  ASSUME OInv, OInv', NEW a \in AppIds,
         Len(delivered'[a]) = Len(delivered[a]) + 1,
         \A b \in AppIds \ {a} : delivered'[b] = delivered[b]
  PROVE  Received \in Nat /\ Received' = Received + 1
<1>1. \A b \in AppIds : Len(delivered[b]) \in Nat
  <2>1. \A b \in AppIds : delivered[b] \in Seq(Nat)
    BY DEF OInv, HInv, TInv, TypeOK
  <2> QED
    BY <2>1
<1>2. \A b \in AppIds \ {a} : Len(delivered'[b]) = Len(delivered[b])
  OBVIOUS
<1> DEFINE f == Len(delivered[FTP_ID])
           t == Len(delivered[TELNET_ID])
           r == Len(delivered[RDP_ID])
           d == Len(delivered[DNS_ID])
           f2 == Len(delivered'[FTP_ID])
           t2 == Len(delivered'[TELNET_ID])
           r2 == Len(delivered'[RDP_ID])
           d2 == Len(delivered'[DNS_ID])
<1>3. Received = f + t + r + d /\ Received' = f2 + t2 + r2 + d2
  BY DEF Received
<1>4. f \in Nat /\ t \in Nat /\ r \in Nat /\ d \in Nat
  BY <1>1 DEF AppIds
<1>5. \/ f2 = f + 1 /\ t2 = t /\ r2 = r /\ d2 = d
      \/ f2 = f /\ t2 = t + 1 /\ r2 = r /\ d2 = d
      \/ f2 = f /\ t2 = t /\ r2 = r + 1 /\ d2 = d
      \/ f2 = f /\ t2 = t /\ r2 = r /\ d2 = d + 1
  <2>1. a = FTP_ID \/ a = TELNET_ID \/ a = RDP_ID \/ a = DNS_ID
    BY DEF AppIds
  <2> QED
    BY <1>2, <2>1, AppsDiffer
<1> HIDE DEF f, t, r, d, f2, t2, r2, d2
<1> QED
  BY <1>3, <1>4, <1>5

\* The counter, and the value any thread is about to store, stand for messages
\* that have been received.
NotAhead ==
    /\ mCounter <= Received
    /\ \A a \in AppIds : AtCount(a) => reg[a] + 1 <= Received

\* However the increments of the four application threads interleave, mCounter
\* never exceeds the number of messages received: main, which waits for it to reach
\* a threshold, never goes on too early.
THEOREM CounterNotAhead == Spec => []NotAhead
<1>1. Init => NotAhead
  <2> SUFFICES ASSUME Init PROVE NotAhead
    OBVIOUS
  <2>1. Received = 0 /\ mCounter = 0
    BY DEF Init, Received, AppIds
  <2>2. \A a \in AppIds : ~AtCount(a)
    BY ThreadSets, GraphTypes DEF Init, AtCount
  <2> QED
    BY <2>1, <2>2 DEF NotAhead
<1>2. OInv /\ OInv' /\ NotAhead /\ [Next]_vars => NotAhead'
  <2> SUFFICES ASSUME OInv, OInv', NotAhead, [Next]_vars PROVE NotAhead'
    OBVIOUS
  <2>0. mCounter \in Nat /\ reg \in [AppIds -> Nat] /\ TypeOK
    BY DEF OInv, HInv, TInv, TypeOK
  <2>1. ASSUME NEW a \in AppIds, AppReceive(a) PROVE NotAhead'
    <3>1. /\ reg' = [reg EXCEPT ![a] = mCounter] /\ UNCHANGED mCounter
          /\ \A b \in AppIds \ {a} : AtCount(b)' <=> AtCount(b)
          /\ Received \in Nat /\ Received' = Received + 1
      BY <2>1, CounterSteps, ReceivedMore
    <3>2. ASSUME NEW b \in AppIds, AtCount(b)' PROVE reg'[b] + 1 <= Received'
      <4>1. CASE b = a
        BY <2>0, <3>1, <4>1 DEF NotAhead
      <4>2. CASE b # a
        <5>1. reg'[b] = reg[b] /\ reg[b] + 1 <= Received /\ reg[b] \in Nat
          BY <2>0, <3>1, <3>2, <4>2 DEF NotAhead
        <5> QED
          BY <3>1, <5>1
      <4> QED
        BY <4>1, <4>2
    <3> QED
      BY <2>0, <3>1, <3>2 DEF NotAhead
  <2>2. ASSUME NEW a \in AppIds, Count(a) PROVE NotAhead'
    <3>1. /\ AtCount(a) /\ ~AtCount(a)' /\ \A b \in AppIds \ {a} : AtCount(b)' <=> AtCount(b)
          /\ mCounter' = reg[a] + 1 /\ reg' = [reg EXCEPT ![a] = 0] /\ UNCHANGED delivered
      BY <2>2, CounterSteps
    <3>2. Received' = Received
      BY <3>1 DEF Received
    <3>3. \A b \in AppIds : AtCount(b)' => b # a /\ AtCount(b) /\ reg'[b] = reg[b]
      BY <2>0, <3>1
    <3> QED
      BY <3>1, <3>2, <3>3 DEF NotAhead
  <2>3. CASE \A a \in AppIds : ~AppReceive(a) /\ ~Count(a)
    <3>1. UNCHANGED <<mCounter, reg, delivered>> /\ \A a \in AppIds : AtCount(a)' <=> AtCount(a)
      BY <2>0, <2>3, CountersStay
    <3> QED
      BY <3>1 DEF NotAhead, Received
  <2> QED
    BY <2>1, <2>2, <2>3
<1>3. Spec => []OInv
  BY OInvariant
<1> QED
  BY <1>1, <1>2, <1>3, PTL DEF Spec

\* With one application there is one thread that counts, and it misses nothing.
Lone(a) ==
    /\ \A b \in AppIds \ {a} : delivered[b] = <<>> /\ ~AtCount(b)
    /\ IF AtCount(a) THEN reg[a] = mCounter /\ mCounter + 1 = Len(delivered[a])
                     ELSE mCounter = Len(delivered[a])

\* Nothing is counted or received at first.
LEMMA LoneInit == ASSUME NEW a \in AppIds, Init PROVE Lone(a)
<1>1. mCounter = 0 /\ \A b \in AppIds : delivered[b] = <<>>
  BY DEF Init
<1>2. \A b \in AppIds : ~AtCount(b)
  BY ThreadSets, GraphTypes DEF Init, AtCount
<1> QED
  BY <1>1, <1>2 DEF Lone

\* Every step keeps it, as no stray is for another application.
LEMMA LoneStep ==
  ASSUME NEW a \in AppIds, Apps = {a}, \A x \in Strays : x[2] = 4 => x[1] = a,
         OInv, Lone(a), [Next]_vars
  PROVE  Lone(a)'
<1>0. mCounter \in Nat /\ reg \in [AppIds -> Nat] /\ TypeOK /\ Len(delivered[a]) \in Nat
  <2>1. delivered[a] \in Seq(Nat)
    BY DEF OInv, HInv, TInv, TypeOK
  <2> QED
    BY <2>1 DEF OInv, HInv, TInv, TypeOK
<1>1. ASSUME NEW b \in AppIds, AppReceive(b) PROVE Lone(a)'
  <2>1. b = a
    BY <1>1, CounterSteps, <<b, 4>>[1] = b, <<b, 4>>[2] = 4
  <2>2. /\ ~AtCount(a) /\ AtCount(a)'
        /\ \A c \in AppIds \ {a} : (AtCount(c)' <=> AtCount(c)) /\ delivered'[c] = delivered[c]
        /\ reg' = [reg EXCEPT ![a] = mCounter] /\ UNCHANGED mCounter
        /\ Len(delivered'[a]) = Len(delivered[a]) + 1
    BY <1>1, <2>1, CounterSteps
  <2> QED
    BY <1>0, <2>2 DEF Lone
<1>2. ASSUME NEW b \in AppIds, Count(b) PROVE Lone(a)'
  <2>1. b = a
    BY <1>2, CounterSteps DEF Lone
  <2>2. /\ AtCount(a) /\ ~AtCount(a)' /\ \A c \in AppIds \ {a} : AtCount(c)' <=> AtCount(c)
        /\ mCounter' = reg[a] + 1 /\ UNCHANGED delivered
    BY <1>2, <2>1, CounterSteps
  <2> QED
    BY <1>0, <2>2 DEF Lone
<1>3. CASE \A b \in AppIds : ~AppReceive(b) /\ ~Count(b)
  <2>1. UNCHANGED <<mCounter, reg, delivered>> /\ \A b \in AppIds : AtCount(b)' <=> AtCount(b)
    BY <1>0, <1>3, CountersStay
  <2> QED
    BY <2>1 DEF Lone
<1> QED
  BY <1>1, <1>2, <1>3

\* Once the traffic of one application has drained, mCounter is the number of
\* messages received, whatever order the threads of the stack ran in and however
\* many strays came in, as long as none of them gets as far as another application.
\* With two, stores of one thread undo those of another.
THEOREM AllCounted ==
  ASSUME NEW CONSTANT a, Apps = {a}, \A x \in Strays : x[2] = 4 => x[1] = a
  PROVE  Spec => []CountedAll
<1>0. a \in AppIds
  BY PerProtocolAssumption
<1>1. Init => Lone(a)
  BY <1>0, LoneInit
<1>2. OInv /\ Lone(a) /\ [Next]_vars => Lone(a)'
  BY <1>0, LoneStep
<1>3. OInv /\ Lone(a) => CountedAll
  <2> SUFFICES ASSUME OInv, Lone(a), Quiescent PROVE mCounter = Received
    BY DEF CountedAll
  <2>1. ~AtCount(a)
    BY <1>0, ThreadSets, GraphTypes DEF Quiescent, AtCount
  <2>2. mCounter = Len(delivered[a]) /\ mCounter \in Nat
    BY <2>1 DEF Lone, OInv, HInv, TInv, TypeOK
  <2>3. \A b \in AppIds \ {a} : Len(delivered[b]) = 0
    BY DEF Lone
  <2> DEFINE f == Len(delivered[FTP_ID])
             t == Len(delivered[TELNET_ID])
             r == Len(delivered[RDP_ID])
             d == Len(delivered[DNS_ID])
  <2>4. \/ f = mCounter /\ t = 0 /\ r = 0 /\ d = 0
        \/ f = 0 /\ t = mCounter /\ r = 0 /\ d = 0
        \/ f = 0 /\ t = 0 /\ r = mCounter /\ d = 0
        \/ f = 0 /\ t = 0 /\ r = 0 /\ d = mCounter
    <3>1. a = FTP_ID \/ a = TELNET_ID \/ a = RDP_ID \/ a = DNS_ID
      BY <1>0, AppsDiffer
    <3> QED
      BY <2>2, <2>3, <3>1, AppsDiffer
  <2>5. Received = f + t + r + d
    BY DEF Received
  <2> HIDE DEF f, t, r, d
  <2> QED
    BY <2>2, <2>4, <2>5
<1> QED
  BY <1>1, <1>2, <1>3, OInvariant, PTL DEF Spec
-----------------------------------------------------------------------------
(* Pipes that are large enough never stall                                 *)

\* As many messages as there can be at a time.
MostInFlight == Cardinality(Apps) * MaxMsgs + MaxStrays

\* A pipe has room for all of them, with one in the hand of its reader, one in
\* that of a writer, and all but one of the units of a page slot spent.
EnoughRoom == MostInFlight <= (PipeSlots - 1) * SlotUnits + 2

\* The limits of the two counters.
Limits ==
    /\ \A a \in Apps : sent[a] <= MaxMsgs
    /\ \A q \in Pipes : spent[q] < SlotUnits

\* They hold at first, and every step keeps them.
LEMMA LimitsInit == Init => Limits
  BY PerProtocolAssumption DEF Init, Limits

\* No step goes beyond the limits.
LEMMA LimitsStep ==
  ASSUME TypeOK, Limits, [Next]_vars
  PROVE  Limits'
<1>0. /\ MaxMsgs \in Nat /\ SlotUnits \in Nat \ {0}
      /\ sent \in [Apps -> Nat] /\ spent \in [Pipes -> Nat]
  BY PerProtocolAssumption DEF TypeOK
<1>1. CASE UNCHANGED <<sent, spent>>
  BY <1>1 DEF Limits
<1>2. ASSUME NEW a \in Apps, Compose(a) PROVE Limits'
  <2>1. sent[a] < MaxMsgs /\ sent' = [sent EXCEPT ![a] = @ + 1] /\ UNCHANGED spent
    BY <1>2 DEF Compose
  <2>2. \A b \in Apps : sent'[b] = IF b = a THEN sent[a] + 1 ELSE sent[b]
    BY <1>0, <2>1
  <2>3. sent[a] + 1 <= MaxMsgs
    BY <1>0, <2>1
  <2> QED
    BY <2>1, <2>2, <2>3 DEF Limits
<1>3. ASSUME NEW t \in Stages, Read(t) PROVE Limits'
  <2>1. /\ UNCHANGED sent
        /\ spent' = [spent EXCEPT ![t] = IF Len(pipe[t]) = 1 THEN 0 ELSE (@ + 1) % SlotUnits]
    BY <1>3 DEF Read, TakeFrom
  <2>2. \A q \in Pipes \ {t} : spent'[q] = spent[q]
    BY <1>0, <2>1
  <2>3. spent'[t] < SlotUnits
    <3>1. spent[t] \in Nat /\ (spent'[t] = 0 \/ spent'[t] = (spent[t] + 1) % SlotUnits)
      BY <1>0, <2>1, ThreadSets
    <3>2. (spent[t] + 1) % SlotUnits < SlotUnits
      BY <1>0, <3>1
    <3> QED
      BY <1>0, <3>1, <3>2
  <2> QED
    BY <2>1, <2>2, <2>3 DEF Limits
<1>4. \/ UNCHANGED <<sent, spent>>
      \/ \E a \in Apps : Compose(a)
      \/ \E t \in Stages : Read(t)
  <2>1. ASSUME NEW t \in Threads, Writer(t) PROVE UNCHANGED <<sent, spent>>
    BY <2>1 DEF Writer, LockNext, Write, Release
  <2>2. ASSUME NEW t \in Stages, Stage(t) PROVE UNCHANGED <<sent, spent>> \/ Read(t)
    BY <2>2 DEF Stage, Unlock
  <2>3. ASSUME NEW p \in ProtocolIds, SendDown(p) \/ PassUp(p) PROVE UNCHANGED <<sent, spent>>
    BY <2>3 DEF SendDown, PassUp, LockOwn
  <2>4. ASSUME NEW a \in AppIds, AppReceive(a) \/ Count(a) PROVE UNCHANGED <<sent, spent>>
    BY <2>4 DEF AppReceive, Count, LockOwn
  <2>5. EthSend \/ Receive \/ Wait \/ UNCHANGED vars => UNCHANGED <<sent, spent>>
    BY DEF EthSend, Receive, LockOwn, Wait, vars
  <2>6. ASSUME NEW x \in Strays, Intrude(x[1], x[2]) PROVE UNCHANGED <<sent, spent>>
    BY <2>6 DEF Intrude
  <2> QED
    BY <2>1, <2>2, <2>3, <2>4, <2>5, <2>6 DEF Next, Step
<1> QED
  BY <1>1, <1>2, <1>3, <1>4

\* The tags there can be.
SentTags == Apps \X (1..MaxMsgs)
StrayTags == {0} \X (1..MaxStrays)

\* There are no more of them than that.
LEMMA TagsBounded ==
  /\ IsFiniteSet(SentTags \cup StrayTags) /\ MostInFlight \in Nat
  /\ Cardinality(SentTags \cup StrayTags) \in Nat
  /\ Cardinality(SentTags \cup StrayTags) <= MostInFlight
<1>1. IsFiniteSet(Apps) /\ Cardinality(Apps) \in Nat
  <2>1. IsFiniteSet(0..20)
    BY FS_Interval, 0 \in Int, 20 \in Int
  <2>2. Apps \in SUBSET (0..20)
    BY PerProtocolAssumption DEF AppIds, FTP_ID, TELNET_ID, RDP_ID, DNS_ID
  <2> QED
    BY <2>1, <2>2, FS_Subset, FS_CardinalityType
<1>2. IsFiniteSet(1..MaxMsgs) /\ Cardinality(1..MaxMsgs) = MaxMsgs
  <2>1. 1 \in Int /\ MaxMsgs \in Int /\ ~(1 > MaxMsgs) /\ MaxMsgs - 1 + 1 = MaxMsgs
    BY PerProtocolAssumption
  <2> QED
    BY <2>1, FS_Interval
<1>3. IsFiniteSet(SentTags) /\ Cardinality(SentTags) = Cardinality(Apps) * MaxMsgs
  BY <1>1, <1>2, FS_Product DEF SentTags
<1>4. Cardinality(SentTags) \in Nat
  BY <1>3, FS_CardinalityType
<1>5. IsFiniteSet(StrayTags) /\ Cardinality(StrayTags) = MaxStrays
  <2>1. IsFiniteSet(1..MaxStrays) /\ Cardinality(1..MaxStrays) = MaxStrays
    <3>1. MaxStrays \in Nat /\ 1 \in Int
      BY PerProtocolAssumption
    <3>2. CASE MaxStrays = 0
      <4>1. 1..MaxStrays = {}
        BY <3>2
      <4> QED
        BY <3>2, <4>1, FS_EmptySet
    <3>3. CASE MaxStrays # 0
      <4>1. MaxStrays \in Int /\ ~(1 > MaxStrays) /\ MaxStrays - 1 + 1 = MaxStrays
        BY <3>1, <3>3
      <4> QED
        BY <4>1, FS_Interval, 1 \in Int
    <3> QED
      BY <3>2, <3>3
  <2>2. IsFiniteSet({0}) /\ Cardinality({0}) = 1
    BY FS_Singleton
  <2>3. IsFiniteSet(StrayTags) /\ Cardinality(StrayTags) = 1 * MaxStrays
    BY <2>1, <2>2, FS_Product DEF StrayTags
  <2> QED
    BY <2>3, PerProtocolAssumption
<1>6. IsFiniteSet(SentTags \cup StrayTags)
  BY <1>3, <1>5, FS_Union
<1> DEFINE c == Cardinality(SentTags)
           e == Cardinality(SentTags \cap StrayTags)
           d == Cardinality(SentTags \cup StrayTags)
<1>7. e \in Nat /\ d \in Nat /\ d = c + MaxStrays - e /\ MostInFlight = c + MaxStrays
  <2>1. IsFiniteSet(SentTags \cap StrayTags)
    BY <1>3, FS_Subset, SentTags \cap StrayTags \in SUBSET SentTags
  <2>2. d = c + Cardinality(StrayTags) - e
    BY <1>3, <1>5, FS_Union
  <2> QED
    BY <1>3, <1>5, <1>6, <2>1, <2>2, FS_CardinalityType DEF MostInFlight
<1> HIDE DEF c, d, e
<1>8. c \in Nat /\ MaxStrays \in Nat
  BY <1>4, PerProtocolAssumption DEF c
<1>9. d <= MostInFlight /\ MostInFlight \in Nat
  BY <1>7, <1>8
<1> QED
  BY <1>6, <1>7, <1>9 DEF d

\* No two messages in flight have the same tag, so their number is bounded.
LEMMA FewInFlight ==
  ASSUME OInv, Limits
  PROVE  IsFiniteSet(DOMAIN Tags) /\ Cardinality(DOMAIN Tags) <= MostInFlight
<1> DEFINE D == DOMAIN Tags
           K == SentTags \cup StrayTags
           f == [x \in D |-> IF Tags[x].own THEN <<Tags[x].app, Tags[x].n>> ELSE <<0, Tags[x].n>>]
<1>1. \A x \in D : Known(Tags[x], Entered)
  BY DEF OInv, Orderly, InRange
<1>2. ASSUME NEW x \in D
      PROVE  /\ Tags[x].n \in Int
             /\ Tags[x].own => /\ Tags[x].app \in Apps /\ Tags[x].app # 0
                               /\ Tags[x].n \in 1..MaxMsgs
             /\ ~Tags[x].own => Tags[x].n \in 1..MaxStrays
  <2>1. CASE Tags[x].own
    <3>1. Tags[x].app \in Apps /\ Tags[x].n \in 1..sent[Tags[x].app]
      BY <1>1, <2>1 DEF Known, Entered
    <3>2. sent[Tags[x].app] \in Nat /\ sent[Tags[x].app] <= MaxMsgs /\ MaxMsgs \in Nat
      BY <3>1, PerProtocolAssumption DEF OInv, HInv, TInv, TypeOK, Limits
    <3>3. Tags[x].n \in 1..MaxMsgs /\ Tags[x].n \in Int
      BY <3>1, <3>2
    <3>4. Tags[x].app # 0
      BY <3>1, PerProtocolAssumption DEF AppIds, FTP_ID, TELNET_ID, RDP_ID, DNS_ID
    <3> QED
      BY <2>1, <3>1, <3>3, <3>4
  <2>2. CASE ~Tags[x].own
    <3>1. Tags[x].n \in 1..strays
      BY <1>1, <2>2 DEF Known, Entered
    <3>2. strays \in 0..MaxStrays /\ MaxStrays \in Nat
      BY PerProtocolAssumption DEF OInv, HInv, TInv, TypeOK
    <3>3. Tags[x].n \in 1..MaxStrays /\ Tags[x].n \in Int
      BY <3>1, <3>2
    <3> QED
      BY <2>2, <3>3
  <2> QED
    BY <2>1, <2>2
<1>3. ASSUME NEW x \in D PROVE f[x] \in K
  BY <1>2 DEF SentTags, StrayTags
<1>4. ASSUME NEW x \in D, NEW y \in D, f[x] = f[y] PROVE x = y
  <2>1. ASSUME x # y, Alike(Tags[x], Tags[y]), Tags[x].n = Tags[y].n PROVE FALSE
    <3>1. Tags[x].n < Tags[y].n \/ Tags[y].n < Tags[x].n
      BY <2>1 DEF OInv, Orderly, Ordered
    <3> QED
      BY <1>2, <2>1, <3>1
  <2>2. Tags[x].n = Tags[y].n /\ (Tags[x].own <=> Tags[y].own)
        /\ (Tags[x].own => Tags[x].app = Tags[y].app)
    <3>1. f[x][2] = Tags[x].n /\ f[y][2] = Tags[y].n
      OBVIOUS
    <3>2. /\ Tags[x].own => f[x][1] = Tags[x].app /\ Tags[x].app # 0
          /\ ~Tags[x].own => f[x][1] = 0
          /\ Tags[y].own => f[y][1] = Tags[y].app /\ Tags[y].app # 0
          /\ ~Tags[y].own => f[y][1] = 0
      BY <1>2
    <3> HIDE DEF f
    <3> QED
      BY <1>4, <3>1, <3>2
  <2>3. Tags[x].app = Tags[y].app
    <3>1. CASE ~Tags[x].own
      BY <2>2, <3>1 DEF OInv, Orderly, OneStray
    <3> QED
      BY <2>2, <3>1
  <2>4. Tags[x].own = Tags[y].own
    <3>1. \A m : TagOf(m).own \in BOOLEAN
      BY DEF TagOf, Own
    <3>2. Tags[x].own \in BOOLEAN /\ Tags[y].own \in BOOLEAN
      BY <3>1 DEF Tags
    <3> QED
      BY <2>2, <3>2
  <2> QED
    BY <2>1, <2>2, <2>3, <2>4 DEF Alike
<1>5. f \in Injection(D, K)
  <2>1. f \in [D -> K]
    BY <1>3
  <2> HIDE DEF D, K, f
  <2> QED
    BY <1>4, <2>1 DEF Injection, IsInjective
<1>6. IsFiniteSet(K) /\ Cardinality(K) \in Nat /\ MostInFlight \in Nat
      /\ Cardinality(K) <= MostInFlight
  BY TagsBounded
<1> HIDE DEF D, K, f
<1>7. IsFiniteSet(D) /\ Cardinality(D) <= Cardinality(K)
  BY <1>5, <1>6, FS_Injection
<1>8. Cardinality(D) \in Nat
  BY <1>7, FS_CardinalityType
<1>9. Cardinality(D) <= MostInFlight
  BY <1>6, <1>7, <1>8
<1> QED
  BY <1>7, <1>9 DEF D

\* When a pipe stalls it is full, and its reader and a writer have a unit in hand.
LEMMA StallNeeds ==
  ASSUME OInv, Limits, NEW q \in Pipes, Stalled(q)
  PROVE  MostInFlight >= (PipeSlots - 1) * SlotUnits + 3
<1> DEFINE L == Len(pipe[q])
           D == DOMAIN Tags
<1>0. TypeOK /\ TagsMatch /\ q \in Threads
  BY TagsOfState, ThreadSets DEF OInv, HInv, TInv
<1>1. PICK t \in Threads : pc[q] = "lock" /\ pc[t] = "write" /\ dest[t] = q /\ ~Room(q)
  BY DEF Stalled
<1>2. L \in Nat /\ DOMAIN pipe[q] = 1..L
  <2>1. pipe[q] \in Seq(Unit)
    BY <1>0 DEF TypeOK
  <2> QED
    BY <2>1
<1>3. <<q, 0>> \in D /\ <<t, 0>> \in D /\ q # t
  <2>1. Len(hand[q]) = 1 /\ Len(hand[t]) = 1
    BY <1>0, <1>1 DEF OInv, Full, Holding
  <2>2. hand[q] # <<>> /\ hand[t] # <<>>
    BY <2>1
  <2> QED
    BY <1>0, <1>1, <2>2 DEF TagsMatch
<1>4. \A i \in 1..L : <<q, i>> \in D
  BY <1>0, <1>2 DEF TagsMatch
<1> DEFINE P == 1..(L + 2)
           h == [i \in P |-> IF i \in 1..L THEN <<q, i>>
                             ELSE IF i = L + 1 THEN <<q, 0>> ELSE <<t, 0>>]
<1>5. h \in [P -> D]
  BY <1>3, <1>4
<1>6. ASSUME NEW i \in P, NEW j \in P, h[i] = h[j] PROVE i = j
  <2>1. (i \in 1..L \/ i = L + 1 \/ i = L + 2) /\ (j \in 1..L \/ j = L + 1 \/ j = L + 2)
    BY <1>2
  <2>2. L + 1 \notin 1..L /\ L + 2 \notin 1..L /\ L + 1 # L + 2 /\ 0 \notin 1..L
    BY <1>2
  <2>3. \A k \in P : /\ k \in 1..L => h[k][1] = q /\ h[k][2] = k
                     /\ k = L + 1 => h[k][1] = q /\ h[k][2] = 0
                     /\ k = L + 2 => h[k][1] = t /\ h[k][2] = 0
    BY <2>2
  <2> HIDE DEF L, P, h
  <2> QED
    BY <1>3, <1>6, <2>1, <2>2, <2>3
<1>7. h \in Injection(P, D)
  <2> HIDE DEF h, P, D
  <2> QED
    BY <1>5, <1>6 DEF Injection, IsInjective
<1>8. IsFiniteSet(D) /\ Cardinality(D) <= MostInFlight
  BY FewInFlight
<1>9. Cardinality(P) = L + 2 /\ Cardinality(P) <= Cardinality(D)
  <2>1. 1 \in Int /\ L + 2 \in Int /\ ~(1 > L + 2) /\ L + 2 - 1 + 1 = L + 2
    BY <1>2
  <2>2. Cardinality(P) = L + 2
    <3> DEFINE m == L + 2
    <3>1. m \in Int /\ ~(1 > m) /\ m - 1 + 1 = m
      BY <2>1
    <3> HIDE DEF m, L
    <3>2. Cardinality(1..m) = m
      BY <3>1, FS_Interval, 1 \in Int
    <3> QED
      BY <3>2 DEF m
  <2> HIDE DEF h, P, D
  <2> QED
    BY <1>7, <1>8, <2>2, FS_Injection
<1>10. spent[q] \in Nat /\ spent[q] < SlotUnits /\ ~(spent[q] + L < PipeSlots * SlotUnits)
  BY <1>0, <1>1 DEF Room, TypeOK, Limits
<1>11. Cardinality(D) \in Nat /\ MostInFlight \in Nat /\ PipeSlots \in Nat /\ SlotUnits \in Nat
  BY <1>8, FS_CardinalityType, TagsBounded, PerProtocolAssumption
<1> HIDE DEF L, D, P, h
<1>12. /\ PipeSlots * SlotUnits \in Int
       /\ (PipeSlots - 1) * SlotUnits = PipeSlots * SlotUnits - SlotUnits
  BY <1>11
<1> DEFINE all == PipeSlots * SlotUnits
<1>13. all \in Int /\ ~(spent[q] + L < all) /\ (PipeSlots - 1) * SlotUnits = all - SlotUnits
  BY <1>10, <1>12
<1> HIDE DEF all
<1>14. MostInFlight >= all - SlotUnits + 3
  BY <1>2, <1>8, <1>9, <1>10, <1>11, <1>13
<1> QED
  BY <1>13, <1>14

\* As long as one pipe could hold the whole traffic, no writer ever waits for room
\* in a pipe while its reader waits for the mutex the writer holds, in whatever
\* order the threads run and whichever of them start late.
THEOREM EnoughRoomNoStall == ASSUME EnoughRoom PROVE Spec => []NoPipeStall
<1>1. Init => Limits
  BY LimitsInit
<1>2. OInv /\ Limits /\ [Next]_vars => Limits'
  BY LimitsStep DEF OInv, HInv, TInv
<1>3. OInv /\ Limits => NoPipeStall
  <2> SUFFICES ASSUME OInv, Limits, NEW q \in Pipes, Stalled(q) PROVE FALSE
    BY DEF NoPipeStall
  <2>1. MostInFlight >= (PipeSlots - 1) * SlotUnits + 3
    BY StallNeeds
  <2>2. MostInFlight <= (PipeSlots - 1) * SlotUnits + 2
    BY DEF EnoughRoom
  <2>3. MostInFlight \in Nat /\ (PipeSlots - 1) * SlotUnits \in Int
    BY TagsBounded, PerProtocolAssumption
  <2> QED
    BY <2>1, <2>2, <2>3
<1>4. Spec => []OInv
  BY OInvariant
<1> QED
  BY <1>1, <1>2, <1>3, <1>4, PTL DEF Spec
=============================================================================
