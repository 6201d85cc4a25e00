-------------------------- MODULE TcpServerProofs --------------------------
(***************************************************************************)
(* Proofs about TcpServer, for any set of clients, any number of threads   *)
(* in the pool, any limit of descriptors and whatever the memory of a new  *)
(* connection holds.                                                       *)
(***************************************************************************)
EXTENDS TcpServer, SequenceTheorems, FiniteSetTheorems, WellFoundedInduction, TLAPS

(***************************************************************************)
(* What the operators on sequences do to the set of the elements.          *)
(***************************************************************************)
LEMMA ToSetEmpty == ToSet(<<>>) = {}
  BY DEF ToSet

LEMMA ToSetAppend ==
    ASSUME NEW S, NEW s \in Seq(S), NEW e \in S
    PROVE  ToSet(Append(s, e)) = ToSet(s) \cup {e}
  BY AppendProperties, LenProperties DEF ToSet

LEMMA TailElements ==
    ASSUME NEW S, NEW s \in Seq(S), s # <<>>
    PROVE  /\ Tail(s) \in Seq(S) /\ Head(s) \in S /\ Head(s) = s[1]
           /\ DOMAIN s = 1 .. Len(s) /\ Len(s) \in Nat \ {0}
           /\ DOMAIN Tail(s) = 1 .. Len(s) - 1
           /\ \A i \in DOMAIN Tail(s) : Tail(s)[i] = s[i + 1]
  BY HeadTailProperties, LenProperties, EmptySeq

LEMMA ToSetTail ==
    ASSUME NEW S, NEW s \in Seq(S), s # <<>>
    PROVE  ToSet(s) = {Head(s)} \cup ToSet(Tail(s))
<1>1. ASSUME NEW i \in DOMAIN Tail(s)
      PROVE  Tail(s)[i] \in ToSet(s)
  <2>1. i + 1 \in DOMAIN s /\ Tail(s)[i] = s[i + 1]
    BY TailElements
  <2> QED
    BY <2>1 DEF ToSet
<1>2. ASSUME NEW i \in DOMAIN s, i # 1
      PROVE  s[i] \in ToSet(Tail(s))
  <2>1. i - 1 \in DOMAIN Tail(s)
    BY <1>2, TailElements
  <2>2. Tail(s)[i - 1] = s[(i - 1) + 1]
    BY <2>1, TailElements
  <2>3. (i - 1) + 1 = i
    BY TailElements
  <2> QED
    BY <2>1, <2>2, <2>3 DEF ToSet
<1>3. Head(s) = s[1] /\ 1 \in DOMAIN s
  BY TailElements
<1> QED
  BY <1>1, <1>2, <1>3 DEF ToSet

LEMMA ToSetConcat ==
    ASSUME NEW S, NEW s \in Seq(S), NEW t \in Seq(S)
    PROVE  ToSet(s \o t) = ToSet(s) \cup ToSet(t)
<1>1. /\ DOMAIN s = 1 .. Len(s) /\ DOMAIN t = 1 .. Len(t)
      /\ Len(s) \in Nat /\ Len(t) \in Nat
      /\ DOMAIN (s \o t) = 1 .. Len(s) + Len(t)
      /\ \A i \in 1 .. Len(s) + Len(t) :
            (s \o t)[i] = IF i <= Len(s) THEN s[i] ELSE t[i - Len(s)]
  BY ConcatProperties, LenProperties
<1>2. ASSUME NEW i \in DOMAIN (s \o t)
      PROVE  (s \o t)[i] \in ToSet(s) \cup ToSet(t)
  <2>1. CASE i <= Len(s)
    BY <1>1, <2>1 DEF ToSet
  <2>2. CASE ~(i <= Len(s))
    <3>1. i - Len(s) \in DOMAIN t /\ (s \o t)[i] = t[i - Len(s)]
      BY <1>1, <2>2
    <3> QED
      BY <3>1 DEF ToSet
  <2> QED
    BY <2>1, <2>2
<1>3. ASSUME NEW i \in DOMAIN s
      PROVE  s[i] \in ToSet(s \o t)
  <2>1. i \in DOMAIN (s \o t) /\ (s \o t)[i] = s[i]
    BY <1>1
  <2> QED
    BY <2>1 DEF ToSet
<1>4. ASSUME NEW i \in DOMAIN t
      PROVE  t[i] \in ToSet(s \o t)
  <2>1. i + Len(s) \in DOMAIN (s \o t) /\ ~(i + Len(s) <= Len(s))
    BY <1>1
  <2>2. (s \o t)[i + Len(s)] = t[(i + Len(s)) - Len(s)] /\ (i + Len(s)) - Len(s) = i
    BY <1>1, <2>1
  <2> QED
    BY <2>1, <2>2 DEF ToSet
<1> QED
  BY <1>2, <1>3, <1>4 DEF ToSet

\* No element stands twice in s.
Once(s) == \A i, j \in DOMAIN s : s[i] = s[j] => i = j

LEMMA OnceEmpty == Once(<<>>)
  BY DEF Once

LEMMA OnceAppend ==
    ASSUME NEW S, NEW s \in Seq(S), NEW e \in S, Once(s), e \notin ToSet(s)
    PROVE  Once(Append(s, e))
<1>1. /\ DOMAIN s = 1 .. Len(s) /\ Len(s) \in Nat
      /\ DOMAIN Append(s, e) = 1 .. Len(s) + 1
      /\ \A i \in 1 .. Len(s) : Append(s, e)[i] = s[i]
      /\ Append(s, e)[Len(s) + 1] = e
  BY AppendProperties, LenProperties
<1>2. \A i \in 1 .. Len(s) : s[i] \in ToSet(s)
  BY <1>1 DEF ToSet
<1>3. ASSUME NEW i \in DOMAIN Append(s, e), NEW j \in DOMAIN Append(s, e),
             Append(s, e)[i] = Append(s, e)[j]
      PROVE  i = j
  <2>1. CASE i \in 1 .. Len(s) /\ j \in 1 .. Len(s)
    BY <1>1, <1>3, <2>1 DEF Once
  <2>2. CASE i = Len(s) + 1 /\ j \in 1 .. Len(s)
    BY <1>1, <1>2, <1>3, <2>2
  <2>3. CASE i \in 1 .. Len(s) /\ j = Len(s) + 1
    BY <1>1, <1>2, <1>3, <2>3
  <2>4. CASE i = Len(s) + 1 /\ j = Len(s) + 1
    BY <2>4
  <2> QED
    BY <1>1, <2>1, <2>2, <2>3, <2>4
<1> QED
  BY <1>3 DEF Once

LEMMA OnceTail ==
    ASSUME NEW S, NEW s \in Seq(S), s # <<>>, Once(s)
    PROVE  Once(Tail(s)) /\ Head(s) \notin ToSet(Tail(s))
<1>1. ASSUME NEW i \in DOMAIN Tail(s)
      PROVE  i \in Int /\ i + 1 \in DOMAIN s /\ i + 1 # 1 /\ Tail(s)[i] = s[i + 1]
  BY TailElements
<1>2. 1 \in DOMAIN s /\ Head(s) = s[1]
  BY TailElements
<1>3. ASSUME NEW i \in DOMAIN Tail(s), NEW j \in DOMAIN Tail(s), Tail(s)[i] = Tail(s)[j]
      PROVE  i = j
  <2>1. i + 1 = j + 1
    BY <1>1, <1>3 DEF Once
  <2> QED
    BY <1>1, <2>1
<1>4. ASSUME NEW i \in DOMAIN Tail(s), Tail(s)[i] = Head(s)
      PROVE  FALSE
  BY <1>1, <1>2, <1>4 DEF Once
<1> QED
  BY <1>3, <1>4 DEF Once, ToSet

\* In a sequence of tasks, one that registers a connection is its first.
Leads(s) ==
    \A i, j \in DOMAIN s : i < j /\ s[i][2] = s[j][2] => s[j][1] # "register"

LEMMA LeadsEmpty == Leads(<<>>)
  BY DEF Leads

LEMMA LeadsAppend ==
    ASSUME NEW S, NEW s \in Seq(S), NEW e \in S, Leads(s),
           e[1] = "register" => \A t \in ToSet(s) : t[2] # e[2]
    PROVE  Leads(Append(s, e))
<1>1. /\ DOMAIN s = 1 .. Len(s) /\ Len(s) \in Nat
      /\ DOMAIN Append(s, e) = 1 .. Len(s) + 1
      /\ \A i \in 1 .. Len(s) : Append(s, e)[i] = s[i]
      /\ Append(s, e)[Len(s) + 1] = e
  BY AppendProperties, LenProperties
<1>2. \A i \in 1 .. Len(s) : s[i] \in ToSet(s)
  BY <1>1 DEF ToSet
<1>3. ASSUME NEW i \in DOMAIN Append(s, e), NEW j \in DOMAIN Append(s, e),
             i < j, Append(s, e)[i][2] = Append(s, e)[j][2]
      PROVE  Append(s, e)[j][1] # "register"
  <2>1. i \in 1 .. Len(s)
    BY <1>1, <1>3
  <2>2. CASE j \in 1 .. Len(s)
    BY <1>1, <1>3, <2>1, <2>2 DEF Leads
  <2>3. CASE j = Len(s) + 1
    BY <1>1, <1>2, <1>3, <2>1, <2>3
  <2> QED
    BY <1>1, <2>2, <2>3
<1> QED
  BY <1>3 DEF Leads

LEMMA LeadsTail ==
    ASSUME NEW S, NEW s \in Seq(S), s # <<>>, Leads(s)
    PROVE  /\ Leads(Tail(s))
           /\ \A t \in ToSet(Tail(s)) : t[2] = Head(s)[2] => t[1] # "register"
<1>1. ASSUME NEW i \in DOMAIN Tail(s)
      PROVE  /\ i \in Int /\ i + 1 \in DOMAIN s /\ 1 < i + 1
             /\ Tail(s)[i] = s[i + 1]
  BY TailElements
<1>2. 1 \in DOMAIN s /\ Head(s) = s[1]
  BY TailElements
<1>3. ASSUME NEW i \in DOMAIN Tail(s), NEW j \in DOMAIN Tail(s),
             i < j, Tail(s)[i][2] = Tail(s)[j][2]
      PROVE  Tail(s)[j][1] # "register"
  <2>1. i + 1 < j + 1
    BY <1>1, <1>3
  <2> QED
    BY <1>1, <1>3, <2>1 DEF Leads
<1>4. ASSUME NEW i \in DOMAIN Tail(s), Tail(s)[i][2] = Head(s)[2]
      PROVE  Tail(s)[i][1] # "register"
  BY <1>1, <1>2, <1>4 DEF Leads
<1> QED
  BY <1>3, <1>4 DEF Leads, ToSet

-----------------------------------------------------------------------------
(***************************************************************************)
(* The operations of a Multiplexer, that maps descriptors of Fs to         *)
(* dispatchers of Ds and watches no descriptor that it does not map.       *)
(***************************************************************************)
IsMultiplexer(m, Fs, Ds) ==
    /\ m = [map |-> m.map, watched |-> m.watched]
    /\ m.map = [f \in DOMAIN m.map |-> m.map[f]]
    /\ DOMAIN m.map \subseteq Fs
    /\ \A f \in DOMAIN m.map : m.map[f] \in Ds
    /\ Consistent(m)

LEMMA NewFacts ==
    ASSUME NEW Fs, NEW Ds
    PROVE  IsMultiplexer(NewMultiplexer, Fs, Ds) /\ DOMAIN NewMultiplexer.map = {}
  BY DEF IsMultiplexer, NewMultiplexer, Consistent

LEMMA UpdatedFacts ==
    ASSUME NEW Fs, NEW Ds, NEW m, IsMultiplexer(m, Fs, Ds),
           NEW f \in Fs, NEW d \in Ds
    PROVE  /\ IsMultiplexer(Updated(m, f, d), Fs, Ds)
           /\ DOMAIN Updated(m, f, d).map = DOMAIN m.map \cup {f}
           /\ \A g \in DOMAIN m.map \cup {f} :
                 Updated(m, f, d).map[g] = IF g = f THEN d ELSE m.map[g]
           /\ Updated(m, f, d).watched = m.watched \cup {f}
<1>1. DOMAIN Updated(m, f, d).map = DOMAIN m.map \cup {f}
  BY DEF Updated
<1>2. \A g \in DOMAIN m.map \cup {f} :
         Updated(m, f, d).map[g] = IF g = f THEN d ELSE m.map[g]
  BY DEF Updated
<1>3. Updated(m, f, d).watched = m.watched \cup {f}
  BY DEF Updated
<1>4. /\ Updated(m, f, d) = [map |-> Updated(m, f, d).map,
                             watched |-> Updated(m, f, d).watched]
      /\ Updated(m, f, d).map = [g \in DOMAIN Updated(m, f, d).map |->
                                   Updated(m, f, d).map[g]]
  BY DEF Updated
<1> QED
  BY <1>1, <1>2, <1>3, <1>4 DEF IsMultiplexer, Consistent

LEMMA DeletedFacts ==
    ASSUME NEW Fs, NEW Ds, NEW m, IsMultiplexer(m, Fs, Ds), NEW f
    PROVE  /\ IsMultiplexer(Deleted(m, f), Fs, Ds)
           /\ DOMAIN Deleted(m, f).map = DOMAIN m.map \ {f}
           /\ \A g \in DOMAIN m.map \ {f} : Deleted(m, f).map[g] = m.map[g]
           /\ Deleted(m, f).watched = m.watched \ {f}
<1>1. CASE f \in DOMAIN m.map
  <2> DEFINE d == Deleted(m, f)
  <2>1. d = [map |-> [g \in DOMAIN m.map \ {f} |-> m.map[g]],
             watched |-> m.watched \ {f}]
    BY <1>1 DEF Deleted
  <2>2. DOMAIN d.map = DOMAIN m.map \ {f}
    BY <2>1
  <2>3. \A g \in DOMAIN m.map \ {f} : d.map[g] = m.map[g]
    BY <2>1
  <2>4. d.watched = m.watched \ {f}
    BY <2>1
  <2>5. d = [map |-> d.map, watched |-> d.watched]
        /\ d.map = [g \in DOMAIN d.map |-> d.map[g]]
    BY <2>1
  <2> QED
    BY <2>2, <2>3, <2>4, <2>5 DEF IsMultiplexer, Consistent
<1>2. CASE f \notin DOMAIN m.map
  BY <1>2 DEF Deleted, IsMultiplexer, Consistent
<1> QED
  BY <1>1, <1>2

LEMMA ClosedFacts ==
    ASSUME NEW Fs, NEW Ds, NEW m, IsMultiplexer(m, Fs, Ds), NEW fds
    PROVE  /\ IsMultiplexer(Closed(m, fds), Fs, Ds)
           /\ Closed(m, fds).map = m.map
           /\ Closed(m, fds).watched = m.watched \ fds
<1>1. Closed(m, fds) = [map |-> m.map, watched |-> m.watched \ fds]
  BY DEF IsMultiplexer, Closed
<1> QED
  BY <1>1 DEF IsMultiplexer, Consistent

-----------------------------------------------------------------------------
(***************************************************************************)
(* Types.  The multiplexers are well-formed, which shows already that what *)
(* epoll watches is in the map.                                            *)
(***************************************************************************)
Descriptors == Fds \cup {ListenFd}
Dispatchers == Clients \cup {Listener}

MuxInv ==
    /\ mux = [r \in Loops |-> mux[r]]
    /\ \A r \in Loops : IsMultiplexer(mux[r], Descriptors, Dispatchers)

LEMMA InstanceTypes ==
    ASSUME instance \in Instances
    PROVE  /\ poolSize \in Nat /\ fdLimit \in Nat /\ 0 \in Loops
           /\ Loops \subseteq Nat /\ Fds \subseteq Nat \ {0}
           /\ NoFd \notin Fds /\ ListenFd \notin Fds /\ NoFd # ListenFd
           /\ instance.active \subseteq Clients
<1>1. instance \in [threads : Nat, descriptors : Nat,
                    clients : SUBSET Clients, active : SUBSET Clients]
  BY ServerAssumption DEF ServerAssumption
<1>2. instance.threads \in Nat /\ instance.descriptors \in Nat
      /\ instance.active \subseteq Clients
  BY <1>1
<1> QED
  BY <1>2 DEF Loops, Fds, NoFd, ListenFd, poolSize, fdLimit

LEMMA ServerTypes ==
    ASSUME TypeOK
    PROVE  /\ poolSize \in Nat /\ fdLimit \in Nat /\ 0 \in Loops
           /\ Loops \subseteq Nat /\ Fds \subseteq Nat \ {0}
           /\ NoFd \notin Fds /\ ListenFd \notin Fds /\ NoFd # ListenFd
           /\ instance.active \subseteq Clients
<1>1. instance \in Instances
  BY DEF TypeOK
<1> QED
  BY <1>1, InstanceTypes

\* The descriptor that accept returns is free.
LEMMA LowestIsFree ==
    ASSUME TypeOK, Free # {}
    PROVE  LowestFree \in Free
<1>1. Free \subseteq Nat
  BY ServerTypes DEF Free
<1>2. \E f \in Free : \A g \in Free : ~ (<<g, f>> \in OpToRel(<, Nat))
  BY <1>1, WFMin, NatLessThanWellFounded
<1>3. ASSUME NEW f \in Free, NEW g \in Free, ~ (<<g, f>> \in OpToRel(<, Nat))
      PROVE  f <= g
  BY <1>1, <1>3 DEF OpToRel
<1>4. \E f \in Free : \A g \in Free : f <= g
  BY <1>2, <1>3
<1> QED
  BY <1>4 DEF LowestFree

LEMMA ChosenIsLoop == ASSUME TypeOK PROVE ChosenLoop \in Loops
<1>1. poolSize \in Nat /\ index \in Nat
  BY ServerTypes DEF TypeOK
<1> QED
  BY <1>1 DEF ChosenLoop, Slot, Loops

MuxTypes ==
    \A r \in Loops : /\ DOMAIN mux[r].map \subseteq Fds \cup {ListenFd}
                     /\ mux[r].watched \subseteq Fds \cup {ListenFd}

LEMMA MuxesOfType == ASSUME MuxInv PROVE MuxTypes
  BY DEF MuxInv, MuxTypes, IsMultiplexer, Consistent, Descriptors

LEMMA MuxesOfTypeNext == ASSUME MuxInv' PROVE MuxTypes'
  BY DEF MuxInv, MuxTypes, IsMultiplexer, Consistent, Descriptors

LEMMA InitTypes == ASSUME Init PROVE TypeOK /\ MuxInv
<1>1. instance \in Instances
  BY DEF Init
<1>2. 0 \in Loops
  BY <1>1, InstanceTypes
<1>3. <<>> \in Seq(Clients) /\ <<>> \in Seq(Tasks)
  OBVIOUS
<1>4. newConn \subseteq Clients /\ Cardinality(newConn) <= 1
  BY FS_EmptySet DEF Init
<1>5. MuxInv
  <2>1. ASSUME NEW r \in Loops
        PROVE  IsMultiplexer(mux[r], Descriptors, Dispatchers)
    <3>1. IsMultiplexer(NewMultiplexer, Descriptors, Dispatchers)
      BY NewFacts
    <3>2. ListenFd \in Descriptors /\ Listener \in Dispatchers
      BY DEF Descriptors, Dispatchers
    <3>3. IsMultiplexer(Updated(NewMultiplexer, ListenFd, Listener),
                        Descriptors, Dispatchers)
      BY <3>1, <3>2, UpdatedFacts
    <3>4. mux[r] = IF r = 0 THEN Updated(NewMultiplexer, ListenFd, Listener)
                            ELSE NewMultiplexer
      BY DEF Init
    <3> QED
      BY <3>1, <3>3, <3>4
  <2>2. mux = [r \in Loops |-> mux[r]]
    BY DEF Init
  <2> QED
    BY <2>1, <2>2 DEF MuxInv
<1>6. MuxTypes
  BY <1>5, MuxesOfType
<1> QED
  BY <1>1, <1>2, <1>3, <1>4, <1>5, <1>6 DEF Init, TypeOK, MuxTypes, UserPcs

LEMMA FixedKept ==
    ASSUME UNCHANGED instance
    PROVE  /\ Loops' = Loops /\ Fds' = Fds /\ Descriptors' = Descriptors
           /\ Free' = Fds \ {fd'[c] : c \in Clients}
  BY DEF Loops, Fds, Free, poolSize, fdLimit, Descriptors

-----------------------------------------------------------------------------
(***************************************************************************)
(* The inductive invariant.                                                *)
(***************************************************************************)
\* The connection is listed, or about to be.
Held(c) == c \in connections \/ (acceptPc = "list" /\ c \in newConn)

Mapped(r) == DOMAIN mux[r].map
Registered(r, c) == fd[c] \in Mapped(r) /\ mux[r].map[fd[c]] = c

TasksOf(r) == ToSet(pending[r]) \cup ToSet(batch[r])

\* Referenced, without the concatenation.
RefersTo(c) ==
    \/ c \in connections \cup newConn
    \/ user[c] \notin {"none", "dropped"}
    \/ \E r \in Loops : <<"establish", c>> \in TasksOf(r) \/ c \in kept[r]

\* Its constructor is still to hand its dispatcher over; and: it has been handed
\* over and registered.
Fresh(c) == acceptPc = "construct" /\ c \in newConn
Past(c) ==
    /\ life[c] # "none" /\ ~Fresh(c)
    /\ \A r \in Loops : <<"register", c>> \notin TasksOf(r)

\* Who waits to be accepted is new, and handleNewConn's connection exists.
LifeInv ==
    /\ \A c \in ToSet(listenQueue) : life[c] = "none"
    /\ Once(listenQueue)
    /\ acceptPc = "idle" => newConn = {}
    /\ \A c \in newConn : life[c] = IF acceptPc \in {"construct", "list"}
                                    THEN "constructed" ELSE "owned"

\* The connections that exist have a descriptor each, the others have none.
FdInv ==
    /\ \A c \in Clients : Exists(c) => fd[c] \in Fds
    /\ \A c \in Clients : ~Exists(c) => fd[c] = NoFd
    /\ \A c, d \in Clients : Exists(c) /\ fd[c] = fd[d] => c = d

\* A shared_ptr keeps its connection alive.
RefInv == \A c \in Clients : Referenced(c) => Exists(c)

\* An entry of a map is that of a connection that was registered in this loop.  It
\* is listed, unless it was registered again late; and if epoll watches the
\* descriptor, it exists.
GoodEntry(r, f) ==
    LET c == mux[r].map[f]
    IN  /\ c \in Clients /\ Past(c) /\ io[c] = r
        /\ Exists(c) => fd[c] = f
        /\ c \notin late => Held(c)
        /\ f \in mux[r].watched => Exists(c)
MapInv ==
    \A r \in Loops : \A f \in Mapped(r) :
        IF f = ListenFd THEN mux[r].map[f] = Listener ELSE GoodEntry(r, f)

\* What a loop is to handle, and what it handles, is in its map, unless it was
\* registered late or its handleClose has removed it.
GoodRound(r, c) ==
    /\ c \in Clients /\ Past(c) /\ io[c] = r
    /\ c \notin late => Registered(r, c)
    /\ "in" \in revents[c] => c \notin late
GoodHandler(r, c, st) ==
    /\ c \in Clients /\ Past(c) /\ io[c] = r /\ c \notin round[r]
    /\ loopPc[r] # "wait"
    /\ st # "closing" => loopPc[r] = "events"
    /\ st = "rest" /\ c \notin late => Registered(r, c)
    /\ st = "closing" => IF loopPc[r] = "events"
                         THEN c \notin late /\ Registered(r, c)
                         ELSE user[c] \in {"called", "dropped"}
RoundOf(r) ==
    /\ \A c \in round[r] \ {Listener} : GoodRound(r, c)
    /\ \A c \in Clients : \A st \in Stages :
          handler[r] = {<<c, st>>} => GoodHandler(r, c, st)
    /\ handler[r] = {} \/ \E c \in Clients : \E st \in Stages : handler[r] = {<<c, st>>}
    /\ loopPc[r] # "events" => round[r] = {}
RoundInv == \A r \in Loops : RoundOf(r)

\* A task is queued for the loop of its connection.  What is still to be registered
\* is listed, and no other task of the connection comes before; a send or a
\* handleClose is that of the user's one call.
GoodTask(r, t) ==
    /\ life[t[2]] # "none" /\ io[t[2]] = r
    /\ t[1] = "register" => Held(t[2]) /\ r # 0
    /\ t[1] \in {"send", "close"} => user[t[2]] \in {"called", "dropped"}
Ordered(p, b) ==
    /\ Leads(p) /\ Leads(b)
    /\ \A t \in ToSet(b) : <<"register", t[2]>> \notin ToSet(p)
TaskInv ==
    \A r \in Loops :
        /\ \A t \in TasksOf(r) : GoodTask(r, t)
        /\ Ordered(pending[r], batch[r])
        /\ loopPc[r] # "tasks" => batch[r] = <<>>

\* Who got a pointer, or was registered late, was registered before.
UserInv == \A c \in Clients : user[c] # "none" \/ c \in late => Past(c)

\* A connection whose constructor runs is known to no loop.
FreshInv ==
    \A c \in Clients : Fresh(c) =>
        \A r \in Loops : \A t \in TasksOf(r) : t[2] # c

ServerInv ==
    /\ TypeOK /\ MuxInv
    /\ LifeInv /\ FdInv /\ RefInv /\ MapInv /\ RoundInv /\ TaskInv /\ UserInv
    /\ FreshInv

LEMMA Refers == ASSUME TypeOK PROVE \A c : Referenced(c) <=> RefersTo(c)
<1>1. ASSUME NEW r \in Loops
      PROVE  ToSet(pending[r] \o batch[r]) = TasksOf(r)
  BY ToSetConcat DEF TypeOK, TasksOf
<1> QED
  BY <1>1 DEF Referenced, RefersTo

LEMMA RefersNext == ASSUME TypeOK' PROVE \A c : Referenced(c)' <=> RefersTo(c)'
<1>1. ASSUME NEW r \in Loops'
      PROVE  ToSet(pending'[r] \o batch'[r]) = TasksOf(r)'
  <2>1. pending'[r] \in Seq(Tasks) /\ batch'[r] \in Seq(Tasks)
    BY DEF TypeOK
  <2> QED
    BY <2>1, ToSetConcat DEF TasksOf
<1> QED
  BY <1>1 DEF Referenced, RefersTo

LEMMA QueuedAreNew ==
    ASSUME TypeOK, LifeInv
    PROVE  \A c \in ToSet(listenQueue) : c \in Clients /\ life[c] = "none" /\ ~Exists(c)
<1>1. ToSet(listenQueue) \subseteq Clients
  BY LenProperties DEF TypeOK, ToSet
<1> QED
  BY <1>1 DEF LifeInv, Exists

\* The tasks in a queue are Tasks, each of a client.
LEMMA TasksAreTasks ==
    ASSUME TypeOK, NEW r \in Loops, NEW t \in TasksOf(r)
    PROVE  /\ t \in Tasks /\ t[2] \in Clients /\ t = <<t[1], t[2]>>
           /\ t[1] \in {"register", "establish", "send", "close"}
<1>1. pending[r] \in Seq(Tasks) /\ batch[r] \in Seq(Tasks)
  BY DEF TypeOK
<1>2. t \in Tasks
  BY <1>1, LenProperties DEF TasksOf, ToSet
<1> QED
  BY <1>2 DEF Tasks

LEMMA HeldExists ==
    ASSUME ServerInv, NEW c \in Clients, Held(c)
    PROVE  Exists(c)
<1>1. RefersTo(c)
  BY DEF Held, RefersTo
<1> QED
  BY <1>1, Refers DEF ServerInv, RefInv

LEMMA RegisteredFacts ==
    ASSUME ServerInv, NEW r \in Loops, NEW c \in Clients, Registered(r, c), c \notin late
    PROVE  Held(c) /\ io[c] = r /\ Exists(c)
<1>1. fd[c] \in Mapped(r) /\ mux[r].map[fd[c]] = c
  BY DEF Registered
<1>2. c # Listener
  BY ServerAssumption DEF ServerAssumption
<1>3. fd[c] # ListenFd
  BY <1>1, <1>2 DEF ServerInv, MapInv
<1>4. GoodEntry(r, fd[c])
  BY <1>1, <1>3 DEF ServerInv, MapInv
<1>5. Held(c) /\ io[c] = r
  BY <1>1, <1>4 DEF GoodEntry
<1> QED
  BY <1>5, HeldExists

\* What epoll watches is in the map, and if it is not the Acceptor's, it is that of a
\* connection that exists and owns the descriptor: no other has it.
LEMMA WatchedFacts ==
    ASSUME ServerInv, NEW r \in Loops, NEW f \in mux[r].watched, f # ListenFd
    PROVE  /\ f \in Mapped(r) /\ mux[r].map[f] \in Clients /\ Past(mux[r].map[f])
           /\ io[mux[r].map[f]] = r
           /\ Exists(mux[r].map[f]) /\ fd[mux[r].map[f]] = f
           /\ \A c \in Clients : fd[c] = f => c = mux[r].map[f]
<1>1. f \in Mapped(r)
  BY DEF ServerInv, MuxInv, IsMultiplexer, Consistent, Mapped
<1>2. GoodEntry(r, f)
  BY <1>1 DEF ServerInv, MapInv
<1>3. /\ mux[r].map[f] \in Clients /\ Past(mux[r].map[f]) /\ io[mux[r].map[f]] = r
      /\ Exists(mux[r].map[f]) /\ fd[mux[r].map[f]] = f
  BY <1>2 DEF GoodEntry
<1> QED
  BY <1>1, <1>3 DEF ServerInv, FdInv

-----------------------------------------------------------------------------
(***************************************************************************)
(* What does not disturb a conjunct of the invariant.                      *)
(***************************************************************************)
LEMMA MuxUndisturbed ==
    ASSUME MuxInv, UNCHANGED <<instance, mux>>
    PROVE  MuxInv' /\ MuxTypes'
<1>1. MuxInv'
  BY FixedKept DEF MuxInv
<1> QED
  BY <1>1, MuxesOfTypeNext

LEMMA FdUndisturbed ==
    ASSUME FdInv, UNCHANGED <<instance, life, fd>>
    PROVE  FdInv'
  BY FixedKept DEF FdInv, Exists

LEMMA RefUndisturbed ==
    ASSUME TypeOK, RefInv, TypeOK', UNCHANGED <<instance, life>>,
           \A c \in Clients : RefersTo(c)' => RefersTo(c) \/ Exists(c)
    PROVE  RefInv'
  BY Refers, RefersNext DEF RefInv, Exists

LEMMA FreshUndisturbed ==
    ASSUME FreshInv, UNCHANGED instance, \A c \in Clients : Fresh(c)' => Fresh(c),
           \A r \in Loops : TasksOf(r)' \subseteq TasksOf(r)
    PROVE  FreshInv'
  BY FixedKept DEF FreshInv

\* What every step but the one that removes a connection does: what was handed to a
\* loop, is listed, was queued for or got by the user stays so, and who is registered
\* late was not in the map.
Steady ==
    /\ UNCHANGED instance
    /\ \A c \in Clients :
          /\ Past(c) => Past(c)'
          /\ life[c] # "none" => life'[c] # "none" /\ io'[c] = io[c]
          /\ life[c] # "none" /\ Exists(c)' => Exists(c) /\ fd'[c] = fd[c]
          /\ Held(c) => Held(c)' /\ fd'[c] = fd[c]
          /\ user[c] \in {"called", "dropped"} => user'[c] \in {"called", "dropped"}
          /\ c \in late => c \in late'
          /\ c \in late' => c \in late \/ \A r \in Loops : ~Registered(r, c)

\* No entry leaves a map; and: none comes, and no connection watched by epoll goes.
MapsKept ==
    \A r \in Loops : \A f \in Mapped(r) :
        f \in Mapped(r)' /\ mux'[r].map[f] = mux[r].map[f]
SameMaps ==
    \A r \in Loops :
        /\ mux'[r].map = mux[r].map
        /\ \A f \in mux'[r].watched :
              /\ f \in mux[r].watched
              /\ \A c \in Clients : Exists(c) /\ fd[c] = f => Exists(c)'

LEMMA SameAreKept == ASSUME SameMaps PROVE MapsKept
  BY DEF SameMaps, MapsKept, Mapped

LEMMA UnchangedMaps == ASSUME UNCHANGED <<mux, life>> PROVE SameMaps
  BY DEF SameMaps, Exists

LEMMA EntryKept ==
    ASSUME ServerInv, Steady, NEW r \in Loops, NEW f \in Mapped(r), f # ListenFd,
           mux'[r].map[f] = mux[r].map[f],
           f \in mux'[r].watched => f \in mux[r].watched /\ Exists(mux[r].map[f])'
    PROVE  GoodEntry(r, f)'
<1>1. GoodEntry(r, f)
  BY DEF ServerInv, MapInv
<1>2. PICK c \in Clients : c = mux[r].map[f]
  BY <1>1 DEF GoodEntry
<1>3. /\ Past(c) /\ io[c] = r /\ life[c] # "none"
      /\ Exists(c) => fd[c] = f
      /\ c \notin late => Held(c)
  BY <1>1, <1>2 DEF GoodEntry, Past
<1>4. /\ Past(c)' /\ io'[c] = r
      /\ Exists(c)' => fd'[c] = f
      /\ c \notin late' => Held(c)'
  BY <1>3 DEF Steady
<1>5. mux'[r].map[f] = c /\ (f \in mux'[r].watched => Exists(c)')
  BY <1>2
<1> QED
  BY <1>4, <1>5 DEF GoodEntry

LEMMA MapUndisturbed ==
    ASSUME ServerInv, Steady, SameMaps
    PROVE  MapInv'
<1> SUFFICES ASSUME NEW r \in Loops, NEW f \in Mapped(r)
             PROVE  IF f = ListenFd THEN mux'[r].map[f] = Listener
                                    ELSE GoodEntry(r, f)'
  BY FixedKept DEF MapInv, SameMaps, Mapped, Steady
<1>1. mux'[r].map[f] = mux[r].map[f]
  BY DEF SameMaps
<1>2. CASE f = ListenFd
  BY <1>1, <1>2 DEF ServerInv, MapInv
<1>3. CASE f # ListenFd
  <2>1. ASSUME f \in mux'[r].watched
        PROVE  f \in mux[r].watched /\ Exists(mux[r].map[f])'
    <3>1. f \in mux[r].watched
      BY <2>1 DEF SameMaps
    <3>2. mux[r].map[f] \in Clients /\ Exists(mux[r].map[f]) /\ fd[mux[r].map[f]] = f
      BY <1>3, <3>1, WatchedFacts
    <3> QED
      BY <2>1, <3>1, <3>2 DEF SameMaps
  <2> QED
    BY <1>1, <1>3, <2>1, EntryKept
<1> QED
  BY <1>2, <1>3

LEMMA RegisteredKept ==
    ASSUME ServerInv, Steady, MapsKept, NEW r \in Loops, NEW c \in Clients,
           Registered(r, c), c \notin late
    PROVE  Registered(r, c)' /\ c \notin late'
<1>1. fd'[c] = fd[c] /\ c \notin late'
  BY RegisteredFacts DEF Steady
<1> QED
  BY <1>1 DEF Registered, MapsKept, Mapped

LEMMA RoundKept ==
    ASSUME ServerInv, Steady, MapsKept, NEW r \in Loops, NEW c \in Clients,
           c \in round[r],
           "in" \in revents'[c] => "in" \in revents[c] \/ c \notin late'
    PROVE  GoodRound(r, c)'
<1>1. GoodRound(r, c)
  BY ServerAssumption DEF ServerInv, RoundInv, RoundOf, ServerAssumption
<1>2. Past(c)' /\ io'[c] = r
  BY <1>1 DEF GoodRound, Past, Steady
<1>3. c \notin late' => c \notin late
  BY DEF Steady
<1>4. c \notin late => Registered(r, c)' /\ c \notin late'
  BY <1>1, RegisteredKept DEF GoodRound
<1> QED
  BY <1>1, <1>2, <1>3, <1>4 DEF GoodRound

LEMMA HandlerKept ==
    ASSUME ServerInv, Steady, MapsKept, NEW r \in Loops, NEW c \in Clients,
           NEW st \in Stages, handler[r] = {<<c, st>>},
           round'[r] \subseteq round[r], loopPc'[r] = loopPc[r]
    PROVE  GoodHandler(r, c, st)'
<1>1. GoodHandler(r, c, st)
  BY DEF ServerInv, RoundInv, RoundOf
<1>2. Past(c)' /\ io'[c] = r
  BY <1>1 DEF GoodHandler, Past, Steady
<1>3. c \notin late' => c \notin late
  BY DEF Steady
<1>4. c \notin late /\ Registered(r, c) => Registered(r, c)' /\ c \notin late'
  BY RegisteredKept
<1>5. user[c] \in {"called", "dropped"} => user'[c] \in {"called", "dropped"}
  BY DEF Steady
<1> QED
  BY <1>1, <1>2, <1>3, <1>4, <1>5 DEF GoodHandler

\* A loop in which nothing happens, but that its round may lose dispatchers.
LEMMA LoopKept ==
    ASSUME ServerInv, Steady, MapsKept, NEW r \in Loops,
           round'[r] \subseteq round[r], handler'[r] = handler[r],
           loopPc'[r] = loopPc[r],
           \A c \in Clients : c \in round[r] /\ "in" \in revents'[c] =>
              "in" \in revents[c] \/ c \notin late'
    PROVE  RoundOf(r)'
<1>1. RoundOf(r)
  BY DEF ServerInv, RoundInv
<1>2. \A c \in round'[r] \ {Listener} : GoodRound(r, c)'
  <2>1. \A c \in round'[r] \ {Listener} : c \in Clients /\ c \in round[r]
    BY DEF ServerInv, TypeOK
  <2> QED
    BY <2>1, RoundKept
<1>3. \A c \in Clients : \A st \in Stages :
         handler'[r] = {<<c, st>>} => GoodHandler(r, c, st)'
  BY HandlerKept
<1> QED
  BY <1>1, <1>2, <1>3 DEF RoundOf

LEMMA RoundUndisturbed ==
    ASSUME ServerInv, Steady, MapsKept, UNCHANGED loop
    PROVE  RoundInv'
  BY LoopKept, FixedKept DEF RoundInv, loop, Steady

\* The batch before what is pending: the tasks are those that were there, or good ones.
LEMMA TaskUndisturbed ==
    ASSUME ServerInv, Steady,
           \A r \in Loops :
              /\ \A t \in TasksOf(r)' : t \in TasksOf(r) \/ GoodTask(r, t)'
              /\ Ordered(pending'[r], batch'[r])
              /\ loopPc'[r] # "tasks" => batch'[r] = <<>>
    PROVE  TaskInv'
<1>1. ASSUME NEW r \in Loops, NEW t \in TasksOf(r)
      PROVE  GoodTask(r, t)'
  <2>1. GoodTask(r, t)
    BY DEF ServerInv, TaskInv
  <2>2. t[2] \in Clients
    BY TasksAreTasks DEF ServerInv
  <2> QED
    BY <2>1, <2>2 DEF GoodTask, Steady
<1> QED
  BY <1>1, FixedKept DEF TaskInv, Steady

LEMMA SameTasks ==
    ASSUME ServerInv, Steady, UNCHANGED <<pending, batch>>,
           \A r \in Loops : loopPc'[r] = loopPc[r] \/ batch[r] = <<>>
    PROVE  TaskInv'
<1>1. \A r \in Loops : TasksOf(r)' = TasksOf(r)
  BY DEF TasksOf
<1>2. \A r \in Loops : Ordered(pending'[r], batch'[r])
                       /\ (loopPc'[r] # "tasks" => batch'[r] = <<>>)
  BY DEF ServerInv, TaskInv
<1> QED
  BY <1>1, <1>2, TaskUndisturbed

LEMMA UserUndisturbed ==
    ASSUME ServerInv, Steady,
           \A c \in Clients : user'[c] # "none" \/ c \in late' =>
              user[c] # "none" \/ c \in late \/ Past(c)
    PROVE  UserInv'
  BY DEF ServerInv, UserInv, Steady

-----------------------------------------------------------------------------
(***************************************************************************)
(* Steps that leave the maps, the tasks and the connections alone.         *)
(***************************************************************************)
Quiet ==
    /\ UNCHANGED <<instance, acceptPc, newConn, life, fd, io, connections, mux, tasks,
                   late>>
    /\ \A c \in Clients :
          \/ user'[c] = user[c]
          \/ /\ user[c] \in {"holds", "store"}
             /\ user'[c] \in {"send", "store", "close", "called"}

LEMMA QuietIsSteady == ASSUME Quiet PROVE Steady /\ SameMaps
<1> USE DEF Quiet, tasks
<1>1. Loops' = Loops
  BY FixedKept
<1>2. \A c \in Clients : Past(c)' = Past(c) /\ Held(c)' = Held(c)
                         /\ Exists(c)' = Exists(c)
  BY <1>1 DEF Past, Fresh, TasksOf, Held, Exists
<1> QED
  BY <1>2, UnchangedMaps DEF Steady

LEMMA QuietKeeps ==
    ASSUME ServerInv, Quiet, TypeOK', LifeInv', RoundInv',
           \A r \in Loops : loopPc'[r] = loopPc[r] \/ batch[r] = <<>>
    PROVE  ServerInv'
<1> USE DEF Quiet, tasks
<1>1. Steady /\ SameMaps
  BY QuietIsSteady
<1>2. \A r \in Loops : TasksOf(r)' = TasksOf(r) /\ kept'[r] = kept[r]
  BY DEF TasksOf
<1>3. MuxInv' /\ FdInv'
  BY MuxUndisturbed, FdUndisturbed DEF ServerInv
<1>4. FreshInv'
  BY <1>2, FreshUndisturbed DEF ServerInv, Fresh
<1>5. RefInv'
  <2>1. \A c \in Clients : RefersTo(c)' => RefersTo(c)
    BY <1>2, FixedKept DEF RefersTo
  <2> QED
    BY <2>1, RefUndisturbed DEF ServerInv
<1>6. MapInv' /\ TaskInv'
  BY <1>1, MapUndisturbed, SameTasks
<1>7. UserInv'
  BY <1>1, UserUndisturbed
<1> QED
  BY <1>3, <1>4, <1>5, <1>6, <1>7 DEF ServerInv

LEMMA QuietRounds ==
    ASSUME ServerInv, Quiet, UNCHANGED <<handler, loopPc, revents>>,
           \A r \in Loops : round'[r] \subseteq round[r]
    PROVE  RoundInv'
<1>1. Steady /\ MapsKept
  BY QuietIsSteady, SameAreKept
<1> QED
  BY <1>1, LoopKept, FixedKept DEF RoundInv, Quiet

LEMMA LifeUndisturbed ==
    ASSUME LifeInv, UNCHANGED <<listenQueue, acceptPc, newConn, life>>
    PROVE  LifeInv'
  BY DEF LifeInv

LEMMA ConnectKeeps ==
    ASSUME ServerInv, NEW c \in Clients, Connect(c)
    PROVE  ServerInv'
<1> USE DEF Server, accept, conn, tasks, loop, output, history
<1>1. Quiet /\ UNCHANGED <<loop, pending, batch>>
  BY DEF Connect, Quiet
<1>2. listenQueue \in Seq(Clients) /\ TypeOK
  BY DEF ServerInv, TypeOK
<1>3. listenQueue' = Append(listenQueue, c) /\ life[c] = "none" /\ c \notin ToSet(listenQueue)
  BY DEF Connect, Queued
<1>4. TypeOK'
  <2>1. listenQueue' \in Seq(Clients)
    BY <1>2, <1>3, AppendProperties
  <2> QED
    BY <2>1, <1>2, FixedKept, MuxUndisturbed DEF Connect, ServerInv, TypeOK, MuxTypes
<1>5. LifeInv'
  <2>1. ToSet(listenQueue') = ToSet(listenQueue) \cup {c}
    BY <1>2, <1>3, ToSetAppend
  <2>2. Once(listenQueue')
    BY <1>2, <1>3, OnceAppend DEF ServerInv, LifeInv
  <2> QED
    BY <1>1, <1>3, <2>1, <2>2 DEF ServerInv, LifeInv, Quiet
<1>6. RoundInv'
  BY <1>1, QuietRounds
<1> QED
  BY <1>1, <1>4, <1>5, <1>6, QuietKeeps

LEMMA ClientKeeps ==
    ASSUME ServerInv, NEW c \in Clients, ClientSends(c) \/ ClientCloses(c)
    PROVE  ServerInv'
<1> USE DEF Server, accept, conn, tasks, loop, output, history
<1>1. Quiet /\ UNCHANGED <<loop, listenQueue>>
  BY DEF ClientSends, ClientCloses, Quiet
<1>2. TypeOK
  BY DEF ServerInv
<1>3. TypeOK'
  <2>1. mail' \in [Clients -> {"unsent", "unread", "read"}] /\ fin' \subseteq Clients
    <3>1. CASE ClientSends(c)
      BY <1>2, <3>1 DEF ClientSends, TypeOK
    <3>2. CASE ClientCloses(c)
      BY <1>2, <3>2 DEF ClientCloses, TypeOK
    <3> QED
      BY <3>1, <3>2
  <2>2. UNCHANGED <<listenQueue, Server>>
    BY DEF ClientSends, ClientCloses
  <2> QED
    BY <1>2, <2>1, <2>2, FixedKept, MuxUndisturbed DEF ServerInv, TypeOK, MuxTypes
<1>4. LifeInv'
  BY <1>1, LifeUndisturbed DEF Quiet, ServerInv
<1>5. RoundInv'
  BY <1>1, QuietRounds
<1> QED
  BY <1>1, <1>3, <1>4, <1>5, QuietKeeps

LEMMA ListenerKeeps ==
    ASSUME ServerInv, AcceptNothing \/ AcceptThrows \/ SetKeepAliveThrows
    PROVE  ServerInv'
<1> USE DEF accept, conn, tasks, kernel, loop, output, history
<1>1. Quiet /\ UNCHANGED <<handler, revents, loopPc, listenQueue>>
  BY DEF AcceptNothing, AcceptThrows, SetKeepAliveThrows, Quiet
<1>2. TypeOK
  BY DEF ServerInv
<1>3. round' = [round EXCEPT ![0] = @ \ {Listener}] \/ round' = round
  BY DEF AcceptNothing, AcceptThrows, SetKeepAliveThrows, AtListener
<1>4. round' \in [Loops -> SUBSET (Clients \cup {Listener})]
      /\ \A q \in Loops : round'[q] \subseteq round[q]
  <2>1. CASE round' = [round EXCEPT ![0] = @ \ {Listener}]
    BY <1>2, <2>1 DEF TypeOK
  <2>2. CASE round' = round
    BY <1>2, <2>2 DEF TypeOK
  <2> QED
    BY <1>3, <2>1, <2>2
<1>5. TypeOK'
  <2>1. UNCHANGED <<instance, kernel, accept, conn, mux, tasks, loopPc, revents, handler,
                    output, user, history>> /\ aborted' \in BOOLEAN
    BY <1>2 DEF AcceptNothing, AcceptThrows, SetKeepAliveThrows, TypeOK
  <2> QED
    BY <1>2, <1>4, <2>1, FixedKept, MuxUndisturbed DEF ServerInv, TypeOK, MuxTypes
<1>6. LifeInv'
  BY <1>1, LifeUndisturbed DEF Quiet, ServerInv
<1>7. RoundInv'
  BY <1>1, <1>4, QuietRounds
<1> QED
  BY <1>1, <1>5, <1>6, <1>7, QuietKeeps

\* The user's call looks at the state, and stores to it.
LEMMA UserLooksKeeps ==
    ASSUME ServerInv, NEW c \in Clients,
           UserStores(c) \/ \E op \in {"send", "close"} : UserCalls(c, op)
    PROVE  ServerInv'
<1> USE DEF Elsewhere, accept, conn, tasks, kernel, loop, output, history
<1>1. UNCHANGED <<Elsewhere, life, fd, mux, pending>>
  BY DEF UserStores, UserCalls
<1>2. TypeOK
  BY DEF ServerInv
<1>3. \E st \in States : currState' = [currState EXCEPT ![c] = st]
  <2>1. CASE UserStores(c)
    BY <2>1 DEF UserStores, States
  <2>2. ASSUME NEW op \in {"send", "close"}, UserCalls(c, op)
        PROVE  \E st \in States : currState' = [currState EXCEPT ![c] = st]
    <3>1. PICK st \in Seen(c) : currState' = [currState EXCEPT ![c] = st]
      BY <2>2 DEF UserCalls
    <3>2. st \in States
      BY <1>2, <3>1, ServerAssumption DEF Seen, ServerAssumption, TypeOK
    <3> QED
      BY <3>1, <3>2
  <2> QED
    BY <2>1, <2>2
<1>4. user[c] \in {"holds", "store"}
      /\ \E s \in {"send", "store", "close", "called"} : user' = [user EXCEPT ![c] = s]
  BY DEF UserStores, UserCalls
<1>5. /\ user' \in [Clients -> UserPcs]
      /\ user'[c] \in {"send", "store", "close", "called"}
      /\ \A d \in Clients : d # c => user'[d] = user[d]
  BY <1>2, <1>4 DEF TypeOK, UserPcs
<1>6. Quiet
  BY <1>1, <1>4, <1>5 DEF Quiet
<1>7. TypeOK'
  <2>1. currState' \in [Clients -> States \cup {"unset"}]
    BY <1>2, <1>3 DEF TypeOK
  <2> QED
    BY <1>1, <1>2, <1>5, <2>1, FixedKept, MuxUndisturbed DEF ServerInv, TypeOK, MuxTypes
<1>8. LifeInv'
  BY <1>1, LifeUndisturbed DEF ServerInv
<1>9. RoundInv'
  BY <1>1, <1>6, QuietRounds
<1> QED
  BY <1>1, <1>6, <1>7, <1>8, <1>9, QuietKeeps

\* A round starts with what epoll watches, and no handler at work.
LEMMA WaitKeeps ==
    ASSUME ServerInv, NEW r \in Loops, Wait(r)
    PROVE  ServerInv'
<1> USE DEF accept, conn, tasks, kernel, output, history
<1>1. UNCHANGED <<instance, kernel, accept, conn, mux, tasks, handler, output, user,
                  history>>
      /\ loopPc[r] = "wait"
  BY DEF Wait, Runs
<1>2. TypeOK /\ MuxInv /\ RoundInv /\ MapInv
  BY DEF ServerInv
<1>3. Quiet
  BY <1>1 DEF Quiet
<1>4. LifeInv'
  BY <1>1, LifeUndisturbed DEF ServerInv
<1>5. batch[r] = <<>>
  BY <1>1 DEF ServerInv, TaskInv
<1>6. CASE UNCHANGED <<round, revents, loopPc>>
  <2>1. TypeOK'
    BY <1>1, <1>2, <1>6, FixedKept, MuxUndisturbed DEF Wait, TypeOK, MuxTypes
  <2>2. RoundInv'
    BY <1>1, <1>3, <1>6, QuietRounds
  <2> QED
    BY <1>3, <1>4, <1>6, <2>1, <2>2, QuietKeeps
<1>7. CASE ~UNCHANGED <<round, revents, loopPc>>
  <2>1. PICK out \in SUBSET Writable(r) :
           /\ Readable(r) \cup out \subseteq DOMAIN mux[r].map
           /\ round' = [round EXCEPT ![r] = {mux[r].map[f] : f \in Readable(r) \cup out}]
           /\ revents' = [c \in Clients |->
                 IF fd[c] \in Readable(r) \cup out
                 THEN {e \in {"in", "out"} :
                          fd[c] \in IF e = "in" THEN Readable(r) ELSE out}
                 ELSE revents[c]]
           /\ loopPc' = [loopPc EXCEPT ![r] = "events"]
           /\ aborted' = aborted
    BY <1>7 DEF Wait
  <2> DEFINE ready == Readable(r) \cup out
  <2>2. ready \subseteq mux[r].watched
    BY DEF Readable, Writable
  <2>3. \A f \in ready : f \in Mapped(r) /\ mux[r].map[f] \in Clients \cup {Listener}
    BY <1>2, <2>1 DEF MuxInv, IsMultiplexer, Dispatchers, Mapped
  <2>4. /\ round' \in [Loops -> SUBSET (Clients \cup {Listener})]
        /\ round'[r] = {mux[r].map[f] : f \in ready}
        /\ \A q \in Loops : q # r => round'[q] = round[q] /\ loopPc'[q] = loopPc[q]
        /\ loopPc' \in [Loops -> {"wait", "events", "tasks"}] /\ loopPc'[r] = "events"
    BY <1>2, <2>1, <2>3 DEF TypeOK
  <2>5. TypeOK'
    <3>1. revents' \in [Clients -> SUBSET {"in", "out"}]
      <4>1. \A c \in Clients : {e \in {"in", "out"} :
               fd[c] \in IF e = "in" THEN Readable(r) ELSE out} \in SUBSET {"in", "out"}
        OBVIOUS
      <4>2. \A c \in Clients : revents[c] \in SUBSET {"in", "out"}
        BY <1>2 DEF TypeOK
      <4> QED
        BY <2>1, <4>1, <4>2
    <3> QED
      BY <1>1, <1>2, <2>1, <2>4, <3>1, FixedKept, MuxUndisturbed DEF TypeOK, MuxTypes
  \* Only a connection that is not registered late has something to read.
  <2>6. ASSUME NEW c \in Clients, "in" \in revents'[c]
        PROVE  "in" \in revents[c] \/ c \notin late
    <3>1. CASE fd[c] \notin ready
      BY <2>1, <2>6, <3>1
    <3>2. CASE fd[c] \in ready
      <4>1. fd[c] \in Readable(r)
        BY <2>1, <2>6, <3>2
      <4>2. fd[c] # ListenFd
        BY <1>2, ServerTypes DEF TypeOK
      <4>3. PICK d \in Clients \ late : fd[d] = fd[c]
        BY <4>1, <4>2 DEF Readable
      <4>4. fd[c] \in mux[r].watched
        BY <4>1 DEF Readable
      <4>5. c = d
        BY <4>2, <4>3, <4>4, WatchedFacts
      <4> QED
        BY <4>3, <4>5
    <3> QED
      BY <3>1, <3>2
  <2>7. Steady /\ MapsKept /\ late' = late
    BY <1>1, <1>3, QuietIsSteady, SameAreKept
  <2>8. ASSUME NEW q \in Loops, q # r
        PROVE  RoundOf(q)'
    BY <1>1, <2>4, <2>6, <2>7, <2>8, LoopKept
  <2>9. RoundOf(r)'
    <3>1. handler[r] = {}
      BY <1>1, <1>2 DEF RoundInv, RoundOf, GoodHandler
    <3>2. ASSUME NEW c \in round'[r] \ {Listener}
          PROVE  GoodRound(r, c)'
      <4>1. PICK f \in ready : c = mux[r].map[f]
        BY <2>4
      <4>2. f \in mux[r].watched /\ f # ListenFd
        <5>1. f \in Mapped(r) /\ f \in mux[r].watched
          BY <2>2, <2>3
        <5> QED
          BY <1>2, <3>2, <4>1, <5>1 DEF MapInv
      <4>3. /\ f \in Mapped(r) /\ c \in Clients /\ Past(c) /\ io[c] = r
            /\ Exists(c) /\ fd[c] = f
            /\ \A d \in Clients : fd[d] = f => d = c
        BY <4>1, <4>2, WatchedFacts
      <4>4. Registered(r, c)
        BY <4>1, <4>3 DEF Registered
      <4>5. "in" \in revents'[c] => c \notin late
        <5>1. "in" \in revents'[c] => f \in Readable(r)
          BY <2>1, <4>3
        <5>2. f \in Readable(r) => \E d \in Clients \ late : fd[d] = f
          BY <4>2 DEF Readable
        <5> QED
          BY <4>3, <5>1, <5>2
      <4>6. Past(c)' /\ Registered(r, c)' /\ io'[c] = r /\ late' = late
        BY <1>1, <2>7, <4>3, <4>4 DEF Steady, Registered, Mapped
      <4> QED
        BY <4>3, <4>5, <4>6 DEF GoodRound
    <3> QED
      BY <1>1, <2>4, <3>1, <3>2 DEF RoundOf
  <2>10. RoundInv'
    BY <1>1, <2>8, <2>9, FixedKept DEF RoundInv
  <2>11. \A q \in Loops : loopPc'[q] = loopPc[q] \/ batch[q] = <<>>
    BY <1>5, <2>4
  <2> QED
    BY <1>3, <1>4, <2>5, <2>10, <2>11, QuietKeeps
<1> QED
  BY <1>6, <1>7

\* What may become of the state when handleClose begins.
LEMMA CloseFacts ==
    ASSUME TypeOK, NEW r \in Loops, NEW c \in Clients, BeginClose(r, c), handler[r] = {}
    PROVE  /\ currState' \in [Clients -> States \cup {"unset"}]
           /\ handler' \in [Loops -> SUBSET (Clients \X Stages)]
           /\ \A q \in Loops : q # r => handler'[q] = handler[q]
           /\ \/ handler'[r] = {<<c, "closing">>}
              \/ handler'[r] = {<<c, "rest">>} /\ loopPc[r] = "events"
              \/ handler'[r] = {} /\ loopPc[r] # "events"
<1>1. PICK st \in Seen(c) :
         /\ currState' = [currState EXCEPT ![c] = st]
         /\ handler' = IF st \in {"Connected", "Disconnecting"}
                       THEN [handler EXCEPT ![r] = {<<c, "closing">>}]
                       ELSE IF loopPc[r] = "events"
                       THEN [handler EXCEPT ![r] = {<<c, "rest">>}]
                       ELSE handler
  BY DEF BeginClose
<1>2. st \in States
  BY <1>1, ServerAssumption DEF Seen, ServerAssumption, TypeOK
<1>3. currState' \in [Clients -> States \cup {"unset"}]
  BY <1>1, <1>2 DEF TypeOK
<1>4. {<<c, "closing">>} \in SUBSET (Clients \X Stages)
      /\ {<<c, "rest">>} \in SUBSET (Clients \X Stages)
  BY DEF Stages
<1>5. handler \in [Loops -> SUBSET (Clients \X Stages)]
  BY DEF TypeOK
<1> QED
  BY <1>1, <1>3, <1>4, <1>5

\* The other loops do not notice what a loop handles.
LEMMA OtherLoops ==
    ASSUME ServerInv, Steady, MapsKept, UNCHANGED revents, NEW r \in Loops,
           \A q \in Loops : q # r => /\ round'[q] = round[q] /\ handler'[q] = handler[q]
                                     /\ loopPc'[q] = loopPc[q],
           RoundOf(r)'
    PROVE  RoundInv'
  BY LoopKept, FixedKept DEF RoundInv, Steady

\* A loop begins to handle c, of its round or of its tasks.
LEMMA HandlerBegins ==
    ASSUME ServerInv, Steady, MapsKept, UNCHANGED revents, NEW r \in Loops, NEW c \in Clients,
           NEW st \in Stages, handler'[r] = {<<c, st>>}, loopPc'[r] = loopPc[r],
           round'[r] = round[r] \ {c}, GoodHandler(r, c, st)'
    PROVE  RoundOf(r)'
<1>1. RoundOf(r)
  BY DEF ServerInv, RoundInv
<1>2. \A d \in round'[r] \ {Listener} : GoodRound(r, d)'
  <2>1. \A d \in round'[r] \ {Listener} : d \in Clients /\ d \in round[r]
    BY DEF ServerInv, TypeOK
  <2> QED
    BY <2>1, RoundKept
<1>3. ASSUME NEW d \in Clients, NEW su \in Stages, handler'[r] = {<<d, su>>}
      PROVE  GoodHandler(r, d, su)'
  <2>1. <<d, su>> = <<c, st>>
    BY <1>3
  <2>2. d = c /\ su = st
    BY <2>1
  <2> QED
    BY <2>2
<1> QED
  BY <1>1, <1>2, <1>3 DEF RoundOf

\* handleRead finds the end of the stream, or there is nothing to read.
LEMMA HandleQuietKeeps ==
    ASSUME ServerInv, NEW r \in Loops, NEW c \in Clients,
           HandleEof(r, c) \/ HandleNoInput(r, c)
    PROVE  ServerInv'
<1> USE DEF kernel, accept, tasks, output, history
<1>1. UNCHANGED <<instance, kernel, accept, life, fd, io, callbacks, connections, mux,
                  tasks, loopPc, revents, output, user, history, aborted>>
  BY DEF HandleEof, HandleNoInput, conn
<1>2. /\ round' = [round EXCEPT ![r] = @ \ {c}] /\ c \in round[r]
      /\ handler[r] = {} /\ loopPc[r] = "events"
  BY DEF HandleEof, HandleNoInput, Enter, Between, Runs
<1>3. TypeOK
  BY DEF ServerInv
<1>4. GoodRound(r, c)
  BY <1>2, ServerAssumption DEF ServerInv, RoundInv, RoundOf, ServerAssumption
<1>5. PICK st \in {"closing", "rest"} :
         /\ currState' \in [Clients -> States \cup {"unset"}]
         /\ handler' \in [Loops -> SUBSET (Clients \X Stages)]
         /\ \A q \in Loops : q # r => handler'[q] = handler[q]
         /\ handler'[r] = {<<c, st>>}
         /\ st = "closing" => "in" \in revents[c]
  <2>1. CASE HandleEof(r, c)
    BY <1>2, <1>3, <2>1, CloseFacts DEF HandleEof
  <2>2. CASE HandleNoInput(r, c)
    <3>1. handler' = [handler EXCEPT ![r] = {<<c, "rest">>}] /\ currState' = currState
      BY <2>2 DEF HandleNoInput, conn
    <3>2. <<c, "rest">> \in Clients \X Stages
      BY DEF Stages
    <3> QED
      BY <1>3, <3>1, <3>2 DEF TypeOK
  <2> QED
    BY <2>1, <2>2
<1>6. Quiet
  BY <1>1 DEF Quiet
<1>7. Steady /\ MapsKept
  BY <1>6, QuietIsSteady, SameAreKept
<1>8. TypeOK'
  <2>1. round' \in [Loops -> SUBSET (Clients \cup {Listener})]
    BY <1>2, <1>3 DEF TypeOK
  <2> QED
    BY <1>1, <1>3, <1>5, <2>1, FixedKept, MuxUndisturbed DEF ServerInv, TypeOK, MuxTypes
<1>9. /\ round'[r] = round[r] \ {c}
      /\ \A q \in Loops : q # r => round'[q] = round[q]
  BY <1>2, <1>3 DEF TypeOK
<1>10. st \in Stages /\ GoodHandler(r, c, st)'
  <2>1. Past(c)' /\ io'[c] = r
    BY <1>1, <1>4, <1>7 DEF GoodRound, Steady
  <2>2. c \notin late => Registered(r, c)'
    BY <1>4, <1>7, RegisteredKept DEF GoodRound
  <2>3. st = "closing" => c \notin late
    BY <1>4, <1>5 DEF GoodRound
  <2> QED
    BY <1>1, <1>2, <1>9, <2>1, <2>2, <2>3 DEF GoodHandler, Stages
<1>11. RoundInv'
  <2>1. RoundOf(r)'
    BY <1>1, <1>5, <1>7, <1>9, <1>10, HandlerBegins
  <2> QED
    BY <1>1, <1>5, <1>7, <1>9, <2>1, OtherLoops
<1>12. LifeInv'
  BY <1>1, LifeUndisturbed DEF ServerInv
<1> QED
  BY <1>1, <1>6, <1>8, <1>11, <1>12, QuietKeeps

\* The swap finds no batch left, and so loses and doubles no task.
LEMMA BeginTasksKeeps ==
    ASSUME ServerInv, NEW r \in Loops, BeginTasks(r)
    PROVE  ServerInv'
<1>1. UNCHANGED <<instance, kernel, accept, conn, mux, kept, round, revents, handler,
                  output, user, history, aborted>>
  BY DEF BeginTasks
<1>2. /\ loopPc[r] = "events" /\ handler[r] = {} /\ round[r] = {}
      /\ batch' = [batch EXCEPT ![r] = pending[r]]
      /\ pending' = [pending EXCEPT ![r] = <<>>]
      /\ loopPc' = [loopPc EXCEPT ![r] = "tasks"]
  BY DEF BeginTasks, Between, Runs
<1>3. TypeOK /\ TaskInv
  BY DEF ServerInv
<1>4. /\ batch'[r] = pending[r] /\ pending'[r] = <<>> /\ loopPc'[r] = "tasks"
      /\ batch[r] = <<>>
      /\ \A q \in Loops : q # r => /\ batch'[q] = batch[q] /\ pending'[q] = pending[q]
                                   /\ loopPc'[q] = loopPc[q]
  BY <1>2, <1>3 DEF TypeOK, TaskInv
<1> USE DEF kernel, accept, conn, history, output
<1>5. TypeOK'
  <2>1. batch' \in [Loops -> Seq(Tasks)] /\ pending' \in [Loops -> Seq(Tasks)]
    BY <1>2, <1>3 DEF TypeOK
  <2>2. loopPc' \in [Loops -> {"wait", "events", "tasks"}]
    BY <1>2, <1>3 DEF TypeOK
  <2> QED
    BY <1>1, <1>3, <2>1, <2>2, FixedKept, MuxUndisturbed DEF ServerInv, TypeOK, MuxTypes
<1>6. \A q \in Loops : TasksOf(q)' = TasksOf(q) /\ kept'[q] = kept[q]
  BY <1>1, <1>4, ToSetEmpty DEF TasksOf
<1>7. Steady /\ SameMaps
  <2>1. \A c \in Clients : Past(c)' = Past(c) /\ Held(c)' = Held(c)
                           /\ Exists(c)' = Exists(c)
    BY <1>1, <1>6, FixedKept DEF Past, Fresh, Held, Exists
  <2> QED
    BY <1>1, <2>1, UnchangedMaps DEF Steady
<1>8. MuxInv' /\ LifeInv' /\ FdInv' /\ FreshInv'
  <2>1. FreshInv'
    BY <1>1, <1>6, FreshUndisturbed DEF ServerInv, Fresh
  <2> QED
    BY <1>1, <2>1, MuxUndisturbed, LifeUndisturbed, FdUndisturbed DEF ServerInv
<1>9. RefInv'
  <2>1. \A c \in Clients : RefersTo(c)' => RefersTo(c)
    BY <1>1, <1>6, FixedKept DEF RefersTo
  <2> QED
    BY <1>1, <1>5, <2>1, RefUndisturbed DEF ServerInv
<1>10. MapInv' /\ UserInv'
  BY <1>1, <1>7, MapUndisturbed, UserUndisturbed
<1>11. RoundInv'
  <2>1. RoundOf(r)'
    <3>1. handler'[r] = {} /\ round'[r] = {}
      BY <1>1, <1>2
    <3>2. ~ \E c \in Clients : \E st \in Stages : handler'[r] = {<<c, st>>}
      BY <3>1
    <3> QED
      BY <3>1, <3>2 DEF RoundOf
  <2> QED
    BY <1>1, <1>4, <1>7, <2>1, SameAreKept, OtherLoops
<1>12. TaskInv'
  <2>1. Ordered(pending'[r], batch'[r])
    BY <1>3, <1>4, LeadsEmpty, ToSetEmpty DEF TaskInv, Ordered
  <2>2. \A q \in Loops : /\ \A t \in TasksOf(q)' : t \in TasksOf(q)
                         /\ Ordered(pending'[q], batch'[q])
                         /\ loopPc'[q] # "tasks" => batch'[q] = <<>>
    BY <1>3, <1>4, <1>6, <2>1 DEF TaskInv
  <2> QED
    BY <1>7, <2>2, TaskUndisturbed
<1> QED
  BY <1>5, <1>8, <1>9, <1>10, <1>11, <1>12 DEF ServerInv

-----------------------------------------------------------------------------
(***************************************************************************)
(* Registering a connection, for the first time or when its write event    *)
(* changes.                                                                *)
(***************************************************************************)
LEMMA SteadyConnections ==
    ASSUME ServerInv, UNCHANGED <<instance, newConn, life, fd, io, connections>>,
           acceptPc' = acceptPc \/ (acceptPc = "establish" /\ acceptPc' = "return"),
           \A r \in Loops : \A c \in Clients :
              <<"register", c>> \in TasksOf(r)' => <<"register", c>> \in TasksOf(r),
           \A c \in Clients :
              /\ user[c] \in {"called", "dropped"} => user'[c] \in {"called", "dropped"}
              /\ c \in late => c \in late'
              /\ c \in late' => c \in late \/ \A r \in Loops : ~Registered(r, c)
    PROVE  Steady
<1>1. \A c \in Clients : Past(c) => Past(c)'
  BY FixedKept DEF Past, Fresh
<1>2. \A c \in Clients : (Held(c) => Held(c)') /\ Exists(c)' = Exists(c)
  BY DEF Held, Exists
<1> QED
  BY <1>1, <1>2 DEF Steady

\* epoll_ctl lets a connection in unless its descriptor is in one of the two sets
\* only; if it is in both, the entry is its own.
LEMMA UpdateKeeps ==
    ASSUME ServerInv, Steady, NEW c \in Clients, Exists(c), UpdateDispatcher(c),
           UNCHANGED <<life, fd, io>>, Past(c)',
           UpdateFails(mux[io[c]], fd[c]) \/ c \in late' \/ Held(c)'
    PROVE  /\ MuxInv' /\ MuxTypes' /\ aborted' \in BOOLEAN
           /\ MapsKept /\ MapInv'
<1>1. TypeOK /\ MuxInv /\ fd[c] \in Fds /\ io[c] \in Loops
  BY DEF ServerInv, FdInv, TypeOK
<1>2. Loops' = Loops /\ Descriptors' = Descriptors
  BY FixedKept DEF Steady
<1>3. CASE UpdateFails(mux[io[c]], fd[c])
  <2>1. mux' = mux /\ aborted' = TRUE
    BY <1>3 DEF UpdateDispatcher
  <2>2. SameMaps
    BY <2>1, UnchangedMaps
  <2> QED
    BY <1>1, <2>1, <2>2, SameAreKept, MapUndisturbed, MuxUndisturbed DEF Steady
<1>4. CASE ~UpdateFails(mux[io[c]], fd[c])
  <2> DEFINE r == io[c]
             u == Updated(mux[r], fd[c], c)
  <2>1. /\ mux' = [mux EXCEPT ![r] = u] /\ aborted' = aborted
        /\ fd[c] \in Mapped(r) <=> fd[c] \in mux[r].watched
    BY <1>4 DEF UpdateDispatcher, UpdateFails, Mapped
  <2>2. mux'[r] = u /\ \A q \in Loops : q # r => mux'[q] = mux[q]
    BY <1>1, <2>1 DEF MuxInv
  <2>3. IsMultiplexer(mux[r], Descriptors, Dispatchers)
        /\ fd[c] \in Descriptors /\ c \in Dispatchers
    BY <1>1 DEF MuxInv, Descriptors, Dispatchers
  <2>4. /\ IsMultiplexer(u, Descriptors, Dispatchers)
        /\ DOMAIN u.map = Mapped(r) \cup {fd[c]}
        /\ u.map[fd[c]] = c
        /\ \A g \in Mapped(r) : u.map[g] = IF g = fd[c] THEN c ELSE mux[r].map[g]
        /\ u.watched = mux[r].watched \cup {fd[c]}
    BY <2>3, UpdatedFacts DEF Mapped
  <2> HIDE DEF u
  <2>5. MuxInv'
    <3>1. \A q \in Loops : IsMultiplexer(mux'[q], Descriptors, Dispatchers)
      BY <1>1, <2>2, <2>4 DEF MuxInv
    <3>2. mux' = [q \in Loops |-> mux'[q]]
      BY <1>1, <2>1 DEF MuxInv
    <3> QED
      BY <1>2, <3>1, <3>2 DEF MuxInv
  <2>6. fd[c] # ListenFd
    BY <1>1, ServerTypes
  <2>7. \A g \in Mapped(r) : u.map[g] = mux[r].map[g]
    <3>1. fd[c] \in Mapped(r) => mux[r].map[fd[c]] = c
      BY <1>1, <2>1, <2>6, WatchedFacts
    <3> QED
      BY <2>4, <3>1
  <2>8. MapsKept
    BY <2>2, <2>4, <2>7 DEF MapsKept, Mapped
  <2>9. MapInv'
    <3> SUFFICES ASSUME NEW q \in Loops, NEW f \in Mapped(q)'
                 PROVE  IF f = ListenFd THEN mux'[q].map[f] = Listener
                                        ELSE GoodEntry(q, f)'
      BY <1>2 DEF MapInv
    <3>1. CASE q = r /\ f = fd[c]
      <4>1. mux'[q].map[f] = c /\ io'[c] = q /\ fd'[c] = f /\ Exists(c)'
        BY <2>2, <2>4, <3>1 DEF Exists
      <4> QED
        BY <1>4, <2>6, <3>1, <4>1 DEF GoodEntry
    <3>2. CASE ~(q = r /\ f = fd[c])
      <4>1. f \in Mapped(q) /\ mux'[q].map[f] = mux[q].map[f]
            /\ (f \in mux'[q].watched => f \in mux[q].watched)
        BY <2>2, <2>4, <2>7, <3>2 DEF Mapped
      <4>2. CASE f = ListenFd
        BY <4>1, <4>2 DEF ServerInv, MapInv
      <4>3. CASE f # ListenFd
        <5>1. f \in mux[q].watched => Exists(mux[q].map[f])
          BY <4>3, WatchedFacts
        <5>2. \A d : Exists(d) => life'[d] \in {"constructed", "owned"}
          BY DEF Exists
        <5>3. f \in mux'[q].watched => life'[mux[q].map[f]] \in {"constructed", "owned"}
          BY <4>1, <5>1, <5>2
        <5>4. PICK d : d = mux[q].map[f]
          OBVIOUS
        <5>5. f \in mux'[q].watched => Exists(d)'
          BY <5>3, <5>4 DEF Exists
        <5> QED
          BY <4>1, <4>3, <5>3, EntryKept DEF Exists
      <4> QED
        BY <4>2, <4>3
    <3> QED
      BY <3>1, <3>2
  <2> QED
    BY <1>1, <2>1, <2>5, <2>8, <2>9, MuxesOfTypeNext DEF TypeOK
<1> QED
  BY <1>3, <1>4

\* Somebody deals with connection c: its write event may be set or unset, and the
\* user may get a pointer.
Speaks(c) ==
    /\ UNCHANGED <<mux, late, aborted>> \/ Refresh(c)
    /\ user' = user \/ (user[c] = "none" /\ user' = [user EXCEPT ![c] = "holds"])

LEMMA SendSpeaks ==
    ASSUME TypeOK, NEW c \in Clients, Send(c), UNCHANGED user
    PROVE  Speaks(c) /\ writing' \subseteq Clients
  BY DEF Send, Speaks, TypeOK

LEMMA CallBackSpeaks ==
    ASSUME TypeOK, NEW c \in Clients, NEW st, CallBack(c, st)
    PROVE  Speaks(c) /\ writing' \subseteq Clients
<1>1. user' = user \/ (user[c] = "none" /\ user' = [user EXCEPT ![c] = "holds"])
  BY DEF CallBack
<1>2. CASE UNCHANGED <<mux, aborted, writing, late>>
  BY <1>1, <1>2 DEF Speaks, TypeOK
<1>3. CASE Send(c)
  BY <1>1, <1>3 DEF Send, Speaks, TypeOK
<1> QED
  BY <1>2, <1>3 DEF CallBack, output

LEMMA SpeakKeeps ==
    ASSUME ServerInv, NEW c \in Clients, Exists(c), Past(c), Speaks(c),
           UNCHANGED <<instance, newConn, life, fd, io, connections>>,
           acceptPc' = acceptPc \/ (acceptPc = "establish" /\ acceptPc' = "return"),
           \A r \in Loops : TasksOf(r)' \subseteq TasksOf(r)
    PROVE  /\ MuxInv' /\ MuxTypes' /\ aborted' \in BOOLEAN
           /\ late' \subseteq Clients /\ user' \in [Clients -> UserPcs]
           /\ Steady /\ MapsKept
           /\ FdInv' /\ MapInv' /\ UserInv' /\ FreshInv'
           /\ (TypeOK' /\ \A r \in Loops : kept'[r] \subseteq kept[r] \cup {c}) => RefInv'
<1>1. TypeOK /\ MuxInv /\ FdInv /\ RefInv /\ FreshInv
  BY DEF ServerInv
<1>2. /\ user' \in [Clients -> UserPcs]
      /\ \A d \in Clients : d # c => user'[d] = user[d]
      /\ user'[c] = user[c] \/ (user[c] = "none" /\ user'[c] = "holds")
  <2>1. user \in [Clients -> UserPcs]
    BY <1>1 DEF TypeOK
  <2>2. CASE user' = user
    BY <2>1, <2>2
  <2>3. CASE user[c] = "none" /\ user' = [user EXCEPT ![c] = "holds"]
    BY <2>1, <2>3 DEF UserPcs
  <2> QED
    BY <2>2, <2>3 DEF Speaks
<1>3. /\ late' \subseteq Clients
      /\ \A d \in Clients : d \in late => d \in late'
      /\ \A d \in Clients : d \in late' =>
            d \in late \/ (d = c /\ \A r \in Loops : ~Registered(r, d))
  <2>1. CASE late' = late
    BY <1>1, <2>1 DEF TypeOK
  <2>2. CASE late' = late \cup {c} /\ fd[c] \notin DOMAIN mux[io[c]].map
    <3>1. c \in late \/ \A r \in Loops : ~Registered(r, c)
      BY <2>2, RegisteredFacts DEF Registered, Mapped
    <3> QED
      BY <1>1, <2>2, <3>1 DEF TypeOK
  <2> QED
    BY <2>1, <2>2 DEF Speaks, Refresh
<1>4. Steady
  BY <1>2, <1>3, SteadyConnections
<1>5. /\ MuxInv' /\ MuxTypes' /\ aborted' \in BOOLEAN
      /\ MapsKept /\ MapInv'
  <2>1. CASE UNCHANGED <<mux, late, aborted>>
    <3>1. SameMaps
      BY <2>1, UnchangedMaps
    <3> QED
      BY <1>1, <1>4, <2>1, <3>1, SameAreKept, MapUndisturbed, MuxUndisturbed DEF TypeOK
  <2>2. CASE Refresh(c)
    <3>1. UpdateDispatcher(c)
          /\ (fd[c] \notin DOMAIN mux[io[c]].map => c \in late')
      BY <2>2 DEF Refresh
    <3>2. UpdateFails(mux[io[c]], fd[c]) \/ c \in late' \/ Held(c)'
      <4>1. SUFFICES ASSUME ~UpdateFails(mux[io[c]], fd[c]), c \notin late'
                     PROVE  Held(c)'
        OBVIOUS
      <4>2. fd[c] \in DOMAIN mux[io[c]].map /\ fd[c] \in mux[io[c]].watched
        BY <3>1, <4>1 DEF UpdateFails
      <4>3. io[c] \in Loops /\ fd[c] # ListenFd
        BY <1>1, ServerTypes DEF TypeOK, FdInv
      <4>4. Registered(io[c], c)
        BY <4>2, <4>3, WatchedFacts DEF Registered, Mapped
      <4>5. c \notin late
        BY <1>3, <4>1
      <4>6. Held(c)
        BY <4>3, <4>4, <4>5, RegisteredFacts
      <4> QED
        BY <1>4, <4>6 DEF Steady
    <3>3. Past(c)'
      BY <1>4 DEF Steady
    <3> QED
      BY <1>4, <3>1, <3>2, <3>3, UpdateKeeps
  <2> QED
    BY <2>1, <2>2 DEF Speaks
<1>6. FdInv'
  BY <1>1, FdUndisturbed
<1>7. UserInv'
  <2>1. \A d \in Clients : user'[d] # "none" \/ d \in late' =>
           user[d] # "none" \/ d \in late \/ Past(d)
    BY <1>2, <1>3
  <2> QED
    BY <1>4, <2>1, UserUndisturbed
<1>8. FreshInv'
  <2>1. \A d \in Clients : Fresh(d)' => Fresh(d)
    BY DEF Fresh
  <2> QED
    BY <1>1, <2>1, FreshUndisturbed
<1>9. ASSUME TypeOK', \A r \in Loops : kept'[r] \subseteq kept[r] \cup {c}
      PROVE  RefInv'
  <2>1. ASSUME NEW d \in Clients, RefersTo(d)'
        PROVE  RefersTo(d) \/ Exists(d)
    <3>1. CASE d = c
      BY <3>1
    <3>2. CASE d # c
      <4>1. user'[d] = user[d] /\ \A r \in Loops : d \in kept'[r] => d \in kept[r]
        BY <1>2, <1>9, <3>2
      <4> QED
        BY <2>1, <4>1, FixedKept DEF RefersTo
    <3> QED
      BY <3>1, <3>2
  <2> QED
    BY <1>1, <1>9, <2>1, RefUndisturbed
<1> QED
  BY <1>2, <1>3, <1>4, <1>5, <1>6, <1>7, <1>8, <1>9

-----------------------------------------------------------------------------
(***************************************************************************)
(* The tasks and the handlers.                                             *)
(***************************************************************************)
\* The task at the head of the batch leaves it.  If it does not register its
\* connection, this has been done.
LEMMA TaskRuns ==
    ASSUME ServerInv, NEW r \in Loops, NEW op, NEW c \in Clients,
           TakeTask(r, <<op, c>>), UNCHANGED <<instance, pending>>
    PROVE  /\ batch' \in [Loops -> Seq(Tasks)]
           /\ \A q \in Loops : TasksOf(q)' \subseteq TasksOf(q)
           /\ \A q \in Loops : /\ Ordered(pending'[q], batch'[q])
                               /\ batch[q] = <<>> => batch'[q] = <<>>
           /\ <<op, c>> \in TasksOf(r) /\ GoodTask(r, <<op, c>>)
           /\ life[c] # "none" /\ io[c] = r /\ ~Fresh(c)
           /\ \A q \in Loops : <<"register", c>> \notin TasksOf(q)'
           /\ op # "register" => Past(c)
           /\ handler[r] = {} /\ loopPc[r] = "tasks" /\ round[r] = {}
<1> DEFINE b == batch[r]
           t == <<op, c>>
<1>1. TypeOK /\ TaskInv /\ FreshInv
  BY DEF ServerInv
<1>2. /\ b \in Seq(Tasks) /\ b # <<>> /\ Head(b) = t
      /\ batch' = [batch EXCEPT ![r] = Tail(b)]
      /\ handler[r] = {} /\ loopPc[r] = "tasks" /\ round[r] = {}
  BY <1>1 DEF TypeOK, TakeTask, Runs, ServerInv, RoundInv, RoundOf
<1>3. /\ batch'[r] = Tail(b)
      /\ \A q \in Loops : q # r => batch'[q] = batch[q]
  BY <1>1, <1>2 DEF TypeOK
<1>4. Tail(b) \in Seq(Tasks)
  BY <1>2, TailElements
<1>5. batch' \in [Loops -> Seq(Tasks)]
  BY <1>1, <1>2, <1>4 DEF TypeOK
<1>6. ToSet(b) = {t} \cup ToSet(Tail(b))
  BY <1>2, ToSetTail
<1>7. Leads(Tail(b)) /\ \A s \in ToSet(Tail(b)) : s[2] = t[2] => s[1] # "register"
  BY <1>1, <1>2, LeadsTail DEF TaskInv, Ordered
<1>8. /\ TasksOf(r) = ToSet(pending[r]) \cup {t} \cup ToSet(Tail(b))
      /\ TasksOf(r)' = ToSet(pending[r]) \cup ToSet(Tail(b))
      /\ \A q \in Loops : q # r => TasksOf(q)' = TasksOf(q)
  BY <1>3, <1>6 DEF TasksOf
<1>9. \A q \in Loops : /\ Ordered(pending'[q], batch'[q])
                       /\ batch[q] = <<>> => batch'[q] = <<>>
  <2>1. Ordered(pending'[r], batch'[r])
    BY <1>1, <1>3, <1>6, <1>7 DEF TaskInv, Ordered
  <2> QED
    BY <1>1, <1>2, <1>3, <2>1 DEF TaskInv
<1>10. GoodTask(r, t) /\ t \in TasksOf(r)
  BY <1>1, <1>8 DEF TaskInv
<1>11. life[c] # "none" /\ io[c] = r
  BY <1>10 DEF GoodTask
<1>12. ~Fresh(c)
  BY <1>1, <1>10 DEF FreshInv
<1>13. ASSUME NEW q \in Loops, <<"register", c>> \in TasksOf(q)'
       PROVE  FALSE
  <2>1. <<"register", c>> \in TasksOf(q)
    BY <1>8, <1>13
  <2>2. GoodTask(q, <<"register", c>>)
    BY <1>1, <2>1 DEF TaskInv
  <2>3. q = r
    BY <1>11, <2>2 DEF GoodTask
  <2>4. <<"register", c>> \notin ToSet(Tail(b))
    BY <1>7
  <2>5. <<"register", c>> \notin ToSet(pending[r])
    BY <1>1, <1>6 DEF TaskInv, Ordered
  <2> QED
    BY <1>8, <1>13, <2>3, <2>4, <2>5
<1>14. op # "register" => Past(c)
  <2>1. ASSUME op # "register", NEW q \in Loops
        PROVE  <<"register", c>> \notin TasksOf(q)
    <3>1. <<"register", c>> # t
      BY <2>1
    <3> QED
      BY <1>8, <1>13, <3>1
  <2> QED
    BY <1>11, <1>12, <2>1 DEF Past
<1> QED
  BY <1>2, <1>5, <1>8, <1>9, <1>10, <1>11, <1>12, <1>13, <1>14

\* The task that registers a connection finds it listed.
LEMMA RunRegisterKeeps ==
    ASSUME ServerInv, NEW r \in Loops, NEW c \in Clients, RunRegister(r, c)
    PROVE  ServerInv'
<1>1. /\ UNCHANGED <<instance, kernel, accept, conn, pending, kept, loop, output, user,
                     history>>
      /\ TakeTask(r, <<"register", c>>) /\ UpdateDispatcher(c)
  BY DEF RunRegister
<1>2. TypeOK /\ TaskInv
  BY DEF ServerInv
<1>3. /\ batch' \in [Loops -> Seq(Tasks)]
      /\ \A q \in Loops : TasksOf(q)' \subseteq TasksOf(q)
      /\ \A q \in Loops : /\ Ordered(pending'[q], batch'[q])
                          /\ batch[q] = <<>> => batch'[q] = <<>>
      /\ GoodTask(r, <<"register", c>>)
      /\ life[c] # "none" /\ io[c] = r /\ ~Fresh(c)
      /\ \A q \in Loops : <<"register", c>> \notin TasksOf(q)'
  BY <1>1, TaskRuns
<1>4. Held(c) /\ Exists(c)
  BY <1>3, HeldExists DEF GoodTask
<1> USE DEF kernel, accept, conn, history, output
<1>5. Steady
  BY <1>1, <1>3, SteadyConnections
<1>6. Past(c)' /\ Held(c)'
  BY <1>1, <1>3, <1>4, FixedKept DEF Past, Fresh, Held
<1>7. /\ MuxInv' /\ MuxTypes' /\ aborted' \in BOOLEAN
      /\ MapsKept /\ MapInv'
  BY <1>1, <1>4, <1>5, <1>6, UpdateKeeps
<1>8. TypeOK'
  BY <1>1, <1>2, <1>3, <1>7, FixedKept DEF TypeOK, MuxTypes, loop
<1>9. LifeInv' /\ FdInv' /\ FreshInv'
  <2>1. FreshInv'
    BY <1>1, <1>3, FreshUndisturbed DEF ServerInv, Fresh
  <2> QED
    BY <1>1, <2>1, LifeUndisturbed, FdUndisturbed DEF ServerInv
<1>10. RefInv'
  <2>1. \A d \in Clients : RefersTo(d)' => RefersTo(d)
    BY <1>1, <1>3, FixedKept DEF RefersTo
  <2> QED
    BY <1>1, <1>8, <2>1, RefUndisturbed DEF ServerInv
<1>11. RoundInv' /\ UserInv'
  BY <1>1, <1>5, <1>7, RoundUndisturbed, UserUndisturbed
<1>12. TaskInv'
  <2>1. \A q \in Loops : loopPc'[q] # "tasks" => batch'[q] = <<>>
    BY <1>1, <1>2, <1>3 DEF TaskInv, loop
  <2> QED
    BY <1>3, <1>5, <2>1, TaskUndisturbed
<1> QED
  BY <1>7, <1>8, <1>9, <1>10, <1>11, <1>12 DEF ServerInv

\* The batch keeps the task that calls ConnectionEstablished, and its reference.
LEMMA RunEstablishKeeps ==
    ASSUME ServerInv, NEW r \in Loops, NEW c \in Clients, RunEstablish(r, c)
    PROVE  ServerInv'
<1>1. /\ UNCHANGED <<instance, kernel, accept, life, fd, io, callbacks, connections,
                     pending, loop, early>>
      /\ TakeTask(r, <<"establish", c>>)
      /\ kept' = [kept EXCEPT ![r] = @ \cup {c}]
      /\ currState' = [currState EXCEPT ![c] = "Connected"]
      /\ told' = [told EXCEPT ![c] = @ \cup {"established"}]
      /\ CallBack(c, "Connected")
  BY DEF RunEstablish
<1>2. TypeOK /\ TaskInv /\ RefInv
  BY DEF ServerInv
<1>3. /\ batch' \in [Loops -> Seq(Tasks)]
      /\ \A q \in Loops : TasksOf(q)' \subseteq TasksOf(q)
      /\ \A q \in Loops : /\ Ordered(pending'[q], batch'[q])
                          /\ batch[q] = <<>> => batch'[q] = <<>>
      /\ <<"establish", c>> \in TasksOf(r) /\ Past(c)
  BY <1>1, TaskRuns
<1>4. Exists(c)
  <2>1. RefersTo(c)
    BY <1>3 DEF RefersTo
  <2> QED
    BY <1>2, <2>1, Refers DEF RefInv
<1>5. Speaks(c) /\ writing' \subseteq Clients
  BY <1>1, <1>2, CallBackSpeaks
<1> USE DEF kernel, accept, loop
<1>6. \A q \in Loops : kept'[q] \subseteq kept[q] \cup {c}
  BY <1>1, <1>2 DEF TypeOK
<1>7. /\ MuxInv' /\ MuxTypes' /\ aborted' \in BOOLEAN
      /\ late' \subseteq Clients /\ user' \in [Clients -> UserPcs]
      /\ Steady /\ MapsKept
      /\ FdInv' /\ MapInv' /\ UserInv' /\ FreshInv'
      /\ (TypeOK' /\ \A q \in Loops : kept'[q] \subseteq kept[q] \cup {c}) => RefInv'
  BY <1>1, <1>3, <1>4, <1>5, SpeakKeeps
<1>8. TypeOK'
  <2>1. kept' \in [Loops -> SUBSET Clients]
    BY <1>1, <1>2 DEF TypeOK
  <2>2. currState' \in [Clients -> States \cup {"unset"}]
    BY <1>1, <1>2 DEF TypeOK, States
  <2>3. told' \in [Clients -> SUBSET {"established", "message"}]
    BY <1>1, <1>2 DEF TypeOK
  <2> QED
    BY <1>1, <1>2, <1>3, <1>5, <1>7, <2>1, <2>2, <2>3, FixedKept DEF TypeOK, MuxTypes
<1>9. LifeInv'
  BY <1>1, LifeUndisturbed DEF ServerInv
<1>10. RoundInv'
  BY <1>1, <1>7, RoundUndisturbed
<1>11. TaskInv'
  <2>1. \A q \in Loops : loopPc'[q] # "tasks" => batch'[q] = <<>>
    BY <1>1, <1>2, <1>3 DEF TaskInv
  <2> QED
    BY <1>3, <1>7, <2>1, TaskUndisturbed
<1> QED
  BY <1>6, <1>7, <1>8, <1>9, <1>10, <1>11 DEF ServerInv

\* A send that comes before or after the removal, but not after the destruction.
LEMMA RunSendKeeps ==
    ASSUME ServerInv, NEW r \in Loops, NEW c \in Clients, RunSend(r, c)
    PROVE  ServerInv'
<1>1. /\ UNCHANGED <<instance, kernel, accept, conn, pending, kept, loop, user, history>>
      /\ TakeTask(r, <<"send", c>>) /\ life[c] # "destroyed" /\ Send(c)
  BY DEF RunSend
<1>2. TypeOK /\ TaskInv
  BY DEF ServerInv
<1>3. /\ batch' \in [Loops -> Seq(Tasks)]
      /\ \A q \in Loops : TasksOf(q)' \subseteq TasksOf(q)
      /\ \A q \in Loops : /\ Ordered(pending'[q], batch'[q])
                          /\ batch[q] = <<>> => batch'[q] = <<>>
      /\ Past(c)
  <2>1. TakeTask(r, <<"send", c>>) /\ UNCHANGED <<instance, pending>>
    BY <1>1
  <2>2. "send" # "register"
    OBVIOUS
  <2> QED
    BY <2>1, <2>2, TaskRuns
<1>4. Exists(c)
  BY <1>1, <1>2, <1>3 DEF TypeOK, Exists, Past
<1>5. Speaks(c) /\ writing' \subseteq Clients
  BY <1>1, <1>2, SendSpeaks
<1> USE DEF kernel, accept, conn, loop, history
<1>6. /\ MuxInv' /\ MuxTypes' /\ aborted' \in BOOLEAN
      /\ late' \subseteq Clients /\ user' \in [Clients -> UserPcs]
      /\ Steady /\ MapsKept
      /\ FdInv' /\ MapInv' /\ UserInv' /\ FreshInv'
      /\ (TypeOK' /\ \A q \in Loops : kept'[q] \subseteq kept[q] \cup {c}) => RefInv'
  BY <1>1, <1>3, <1>4, <1>5, SpeakKeeps
<1>7. TypeOK'
  BY <1>1, <1>2, <1>3, <1>5, <1>6, FixedKept DEF TypeOK, MuxTypes
<1>8. LifeInv' /\ RoundInv'
  BY <1>1, <1>6, LifeUndisturbed, RoundUndisturbed DEF ServerInv
<1>9. TaskInv'
  <2>1. \A q \in Loops : loopPc'[q] # "tasks" => batch'[q] = <<>>
    BY <1>1, <1>2, <1>3 DEF TaskInv
  <2> QED
    BY <1>3, <1>6, <2>1, TaskUndisturbed
<1> QED
  BY <1>1, <1>6, <1>7, <1>8, <1>9 DEF ServerInv

\* A task leaves the batch, and the maps and connections stay as they are.
LEMMA TaskGone ==
    ASSUME ServerInv, TypeOK',
           UNCHANGED <<instance, kernel, accept, life, fd, io, connections, mux, pending,
                       kept, loopPc, late, user>>,
           \A q \in Loops : /\ TasksOf(q)' \subseteq TasksOf(q)
                            /\ Ordered(pending'[q], batch'[q])
                            /\ batch[q] = <<>> => batch'[q] = <<>>
    PROVE  /\ Steady /\ MapsKept
           /\ RoundInv' => ServerInv'
<1> USE DEF kernel, accept
<1>1. Steady /\ SameMaps /\ MapsKept
  BY SteadyConnections, UnchangedMaps, SameAreKept
<1>2. MuxInv' /\ LifeInv' /\ FdInv' /\ FreshInv'
  <2>1. FreshInv'
    BY FreshUndisturbed DEF ServerInv, Fresh
  <2> QED
    BY <2>1, MuxUndisturbed, LifeUndisturbed, FdUndisturbed DEF ServerInv
<1>3. RefInv'
  <2>1. \A d \in Clients : RefersTo(d)' => RefersTo(d)
    BY FixedKept DEF RefersTo
  <2> QED
    BY <2>1, RefUndisturbed DEF ServerInv
<1>4. MapInv' /\ UserInv'
  BY <1>1, MapUndisturbed, UserUndisturbed
<1>5. TaskInv'
  <2>1. \A q \in Loops : loopPc'[q] # "tasks" => batch'[q] = <<>>
    BY DEF ServerInv, TaskInv
  <2> QED
    BY <1>1, <2>1, TaskUndisturbed
<1> QED
  BY <1>1, <1>2, <1>3, <1>4, <1>5 DEF ServerInv

LEMMA RunCloseKeeps ==
    ASSUME ServerInv, NEW r \in Loops, NEW c \in Clients, RunClose(r, c)
    PROVE  ServerInv'
<1>1. /\ UNCHANGED <<instance, kernel, accept, life, fd, io, callbacks, connections, mux,
                     pending, kept, loopPc, round, revents, output, user, history,
                     aborted>>
      /\ TakeTask(r, <<"close", c>>) /\ BeginClose(r, c)
  BY DEF RunClose
<1>2. TypeOK
  BY DEF ServerInv
<1>3. /\ batch' \in [Loops -> Seq(Tasks)]
      /\ \A q \in Loops : /\ TasksOf(q)' \subseteq TasksOf(q)
                          /\ Ordered(pending'[q], batch'[q])
                          /\ batch[q] = <<>> => batch'[q] = <<>>
      /\ GoodTask(r, <<"close", c>>) /\ io[c] = r /\ Past(c)
      /\ handler[r] = {} /\ loopPc[r] = "tasks" /\ round[r] = {}
  BY <1>1, TaskRuns
<1>4. /\ currState' \in [Clients -> States \cup {"unset"}]
      /\ handler' \in [Loops -> SUBSET (Clients \X Stages)]
      /\ \A q \in Loops : q # r => handler'[q] = handler[q]
      /\ handler'[r] = {<<c, "closing">>} \/ handler'[r] = {}
  BY <1>1, <1>2, <1>3, CloseFacts
<1>5. TypeOK'
  BY <1>1, <1>2, <1>3, <1>4, FixedKept, MuxUndisturbed
  DEF ServerInv, TypeOK, MuxTypes, kernel, accept, output, history
<1>6. Steady /\ MapsKept /\ (RoundInv' => ServerInv')
  BY <1>1, <1>3, <1>5, TaskGone DEF output
<1>7. RoundOf(r)'
  <2>1. CASE handler'[r] = {<<c, "closing">>}
    <3>1. "closing" \in Stages /\ GoodHandler(r, c, "closing")'
      <4>1. Past(c)' /\ io'[c] = r
        BY <1>1, <1>3, <1>6 DEF Steady
      <4>2. user'[c] \in {"called", "dropped"}
        BY <1>1, <1>3 DEF GoodTask
      <4> QED
        BY <1>1, <1>3, <4>1, <4>2 DEF GoodHandler, Stages
    <3>2. round'[r] = round[r] \ {c}
      BY <1>1, <1>3
    <3> QED
      BY <1>1, <1>6, <2>1, <3>1, <3>2, HandlerBegins
  <2>2. CASE handler'[r] = {}
    <3>1. handler'[r] = handler[r]
      BY <1>3, <2>2
    <3> QED
      BY <1>1, <1>6, <3>1, LoopKept
  <2> QED
    BY <1>4, <2>1, <2>2
<1>8. RoundInv'
  BY <1>1, <1>4, <1>6, <1>7, OtherLoops
<1> QED
  BY <1>6, <1>8


-----------------------------------------------------------------------------
(***************************************************************************)
(* The rest of the handlers, and the steps that queue a task.              *)
(***************************************************************************)
\* A message: the callback may send, and keep the pointer.
LEMMA HandleMessageKeeps ==
    ASSUME ServerInv, NEW r \in Loops, NEW c \in Clients, HandleMessage(r, c)
    PROVE  ServerInv'
<1> DEFINE ready == life[c] = "owned" /\ "message" \in callbacks[c]
<1>1. UNCHANGED <<instance, listenQueue, fin, accept, life, fd, io, callbacks,
                  connections, tasks, loopPc, revents, early>>
  BY DEF HandleMessage
<1>2. /\ round' = [round EXCEPT ![r] = @ \ {c}] /\ c \in round[r]
      /\ handler' = [handler EXCEPT ![r] = {<<c, "rest">>}]
      /\ mail' = [mail EXCEPT ![c] = "read"]
      /\ loopPc[r] = "events" /\ "in" \in revents[c]
      /\ IF ready
         THEN /\ told' = [told EXCEPT ![c] = @ \cup {"message"}]
              /\ \E st \in Seen(c) : /\ currState' = [currState EXCEPT ![c] = st]
                                     /\ CallBack(c, st)
         ELSE aborted' = TRUE /\ UNCHANGED <<told, currState, user, mux, output>>
  BY DEF HandleMessage, Enter, Between, Runs
<1> HIDE DEF ready
<1>3. TypeOK
  BY DEF ServerInv
<1>4. GoodRound(r, c)
  BY <1>2, ServerAssumption DEF ServerInv, RoundInv, RoundOf, ServerAssumption
<1>5. Past(c) /\ io[c] = r /\ Registered(r, c) /\ c \notin late
  BY <1>2, <1>4 DEF GoodRound
<1>6. Exists(c)
  BY <1>5, RegisteredFacts
<1>7. /\ round' \in [Loops -> SUBSET (Clients \cup {Listener})]
      /\ round'[r] = round[r] \ {c} /\ \A q \in Loops : q # r => round'[q] = round[q]
  BY <1>2, <1>3 DEF TypeOK
<1>8. /\ handler' \in [Loops -> SUBSET (Clients \X Stages)]
      /\ handler'[r] = {<<c, "rest">>}
      /\ \A q \in Loops : q # r => handler'[q] = handler[q]
  <2>1. <<c, "rest">> \in Clients \X Stages
    BY DEF Stages
  <2> QED
    BY <1>2, <1>3, <2>1 DEF TypeOK
<1>9. mail' \in [Clients -> {"unsent", "unread", "read"}]
  BY <1>2, <1>3 DEF TypeOK
<1>10. LifeInv'
  BY <1>1, LifeUndisturbed DEF ServerInv, accept
<1>11. ASSUME Steady, MapsKept
       PROVE  RoundInv'
  <2>1. Past(c)' /\ io'[c] = r /\ Registered(r, c)'
    BY <1>1, <1>5, <1>11, RegisteredKept DEF Steady
  <2>2. "rest" \in Stages /\ GoodHandler(r, c, "rest")'
    BY <1>1, <1>2, <1>7, <2>1 DEF GoodHandler, Stages
  <2>3. RoundOf(r)'
    BY <1>1, <1>7, <1>8, <1>11, <2>2, HandlerBegins
  <2> QED
    BY <1>1, <1>7, <1>8, <1>11, <2>3, OtherLoops
<1> USE DEF accept, tasks, history, output
<1>12. CASE ~ready
  <2>1. aborted' = TRUE /\ UNCHANGED <<told, currState, user, mux, output>>
    BY <1>2, <1>12
  <2>2. Quiet
    BY <1>1, <2>1 DEF Quiet
  <2>3. RoundInv'
    BY <1>11, <2>2, QuietIsSteady, SameAreKept
  <2>4. TypeOK'
    BY <1>1, <1>3, <1>7, <1>8, <1>9, <2>1, FixedKept, MuxUndisturbed
    DEF ServerInv, TypeOK, MuxTypes
  <2> QED
    BY <1>1, <1>10, <2>2, <2>3, <2>4, QuietKeeps
<1>13. CASE ready
  <2>1. /\ told' = [told EXCEPT ![c] = @ \cup {"message"}]
        /\ \E st \in Seen(c) : /\ currState' = [currState EXCEPT ![c] = st]
                               /\ CallBack(c, st)
    BY <1>2, <1>13
  <2>2. PICK st \in Seen(c) : currState' = [currState EXCEPT ![c] = st] /\ CallBack(c, st)
    BY <2>1
  <2>3. Speaks(c) /\ writing' \subseteq Clients
    BY <1>3, <2>2, CallBackSpeaks
  <2>4. st \in States
    BY <1>3, <2>2, ServerAssumption DEF Seen, ServerAssumption, TypeOK
  <2>5. \A q \in Loops : TasksOf(q)' = TasksOf(q) /\ kept'[q] = kept[q]
    BY <1>1 DEF TasksOf
  <2>6. /\ MuxInv' /\ MuxTypes' /\ aborted' \in BOOLEAN
        /\ late' \subseteq Clients /\ user' \in [Clients -> UserPcs]
        /\ Steady /\ MapsKept
        /\ FdInv' /\ MapInv' /\ UserInv' /\ FreshInv'
        /\ (TypeOK' /\ \A q \in Loops : kept'[q] \subseteq kept[q] \cup {c}) => RefInv'
    BY <1>1, <1>5, <1>6, <2>3, <2>5, SpeakKeeps
  <2>7. TypeOK'
    <3>1. currState' \in [Clients -> States \cup {"unset"}]
      BY <1>3, <2>2, <2>4 DEF TypeOK
    <3>2. told' \in [Clients -> SUBSET {"established", "message"}]
      BY <1>3, <2>1 DEF TypeOK
    <3> QED
      BY <1>1, <1>3, <1>7, <1>8, <1>9, <2>3, <2>6, <3>1, <3>2, FixedKept
      DEF TypeOK, MuxTypes
  <2>8. RoundInv' /\ TaskInv'
    BY <1>1, <1>11, <2>6, SameTasks
  <2> QED
    BY <1>10, <2>5, <2>6, <2>7, <2>8 DEF ServerInv
<1> QED
  BY <1>12, <1>13

\* A handler ends; the events are forgotten.
LEMMA HandlerEnds ==
    ASSUME ServerInv, Steady, MapsKept, NEW r \in Loops, handler'[r] = {},
           loopPc'[r] = loopPc[r], round'[r] = round[r],
           \A c \in Clients : "in" \in revents'[c] => "in" \in revents[c]
    PROVE  RoundOf(r)'
<1>1. RoundOf(r)
  BY DEF ServerInv, RoundInv
<1>2. \A c \in round'[r] \ {Listener} : GoodRound(r, c)'
  <2>1. \A c \in round'[r] \ {Listener} : c \in Clients /\ c \in round[r]
    BY DEF ServerInv, TypeOK
  <2> QED
    BY <2>1, RoundKept
<1>3. ~ \E c \in Clients : \E st \in Stages : handler'[r] = {<<c, st>>}
  OBVIOUS
<1> QED
  BY <1>1, <1>2, <1>3 DEF RoundOf

LEMMA EndHandlerKeeps ==
    ASSUME ServerInv, NEW r \in Loops, NEW c \in Clients, EndHandler(r, c)
    PROVE  ServerInv'
<1> USE DEF kernel, accept, conn, tasks, history, output
<1>1. /\ UNCHANGED <<instance, kernel, accept, conn, tasks, loopPc, round, user, history>>
      /\ handler' = [handler EXCEPT ![r] = {}]
      /\ revents' = [revents EXCEPT ![c] = {}]
      /\ life[c] # "destroyed"
      /\ \/ UNCHANGED <<mux, aborted, writing, late>>
         \/ writing' = writing \ {c} /\ Refresh(c)
  BY DEF EndHandler
<1>2. PICK st \in Stages : handler[r] = {<<c, st>>}
  BY DEF EndHandler, Stages
<1>3. TypeOK
  BY DEF ServerInv
<1>4. Past(c) /\ Exists(c)
  <2>1. Past(c)
    BY <1>2 DEF ServerInv, RoundInv, RoundOf, GoodHandler
  <2> QED
    BY <1>1, <1>3, <2>1 DEF Past, Exists, TypeOK
<1>5. Speaks(c) /\ writing' \subseteq Clients
  BY <1>1, <1>3 DEF Speaks, TypeOK
<1>6. \A q \in Loops : TasksOf(q)' = TasksOf(q) /\ kept'[q] = kept[q]
  BY <1>1 DEF TasksOf
<1>7. /\ MuxInv' /\ MuxTypes' /\ aborted' \in BOOLEAN
      /\ late' \subseteq Clients /\ user' \in [Clients -> UserPcs]
      /\ Steady /\ MapsKept
      /\ FdInv' /\ MapInv' /\ UserInv' /\ FreshInv'
      /\ (TypeOK' /\ \A q \in Loops : kept'[q] \subseteq kept[q] \cup {c}) => RefInv'
  BY <1>1, <1>4, <1>5, <1>6, SpeakKeeps
<1>8. /\ handler' \in [Loops -> SUBSET (Clients \X Stages)] /\ handler'[r] = {}
      /\ \A q \in Loops : q # r => handler'[q] = handler[q]
  BY <1>1, <1>3 DEF TypeOK
<1>9. /\ revents' \in [Clients -> SUBSET {"in", "out"}]
      /\ \A d \in Clients : "in" \in revents'[d] => "in" \in revents[d]
  BY <1>1, <1>3 DEF TypeOK
<1>10. TypeOK'
  BY <1>1, <1>3, <1>5, <1>7, <1>8, <1>9, FixedKept DEF TypeOK, MuxTypes
<1>11. RoundInv'
  <2>1. RoundOf(r)'
    BY <1>1, <1>7, <1>8, <1>9, HandlerEnds
  <2>2. ASSUME NEW q \in Loops, q # r
        PROVE  RoundOf(q)'
    BY <1>1, <1>7, <1>8, <1>9, <2>2, LoopKept
  <2> QED
    BY <1>1, <2>1, <2>2, FixedKept DEF RoundInv
<1>12. LifeInv' /\ TaskInv'
  BY <1>1, <1>7, LifeUndisturbed, SameTasks DEF ServerInv
<1> QED
  BY <1>6, <1>7, <1>10, <1>11, <1>12 DEF ServerInv

\* The loop goes on where it should not, and gets away with it: nothing but its
\* place changes.
LEMMA UseDestroyedKeeps ==
    ASSUME ServerInv, NEW r \in Loops, NEW c \in Clients, UseDestroyed(r, c)
    PROVE  ServerInv'
<1>1. /\ UNCHANGED <<instance, kernel, accept, conn, mux, pending, kept, loopPc, round,
                     revents, output, user, history>>
      /\ aborted' \in BOOLEAN
  BY DEF UseDestroyed
<1>2. TypeOK
  BY DEF ServerInv
<1> USE DEF kernel, accept, conn, history, output
<1>3. CASE handler' = [handler EXCEPT ![r] = {}] /\ UNCHANGED batch
  <2>1. /\ handler' \in [Loops -> SUBSET (Clients \X Stages)] /\ handler'[r] = {}
        /\ \A q \in Loops : q # r => handler'[q] = handler[q]
    BY <1>2, <1>3 DEF TypeOK
  <2>2. TypeOK'
    BY <1>1, <1>2, <1>3, <2>1, FixedKept, MuxUndisturbed DEF ServerInv, TypeOK, MuxTypes
  <2>3. Quiet
    BY <1>1, <1>3 DEF Quiet, tasks
  <2>4. Steady /\ MapsKept
    BY <2>3, QuietIsSteady, SameAreKept
  <2>5. RoundInv'
    <3>1. RoundOf(r)'
      BY <1>1, <2>1, <2>4, HandlerEnds
    <3> QED
      BY <1>1, <2>1, <2>4, <3>1, OtherLoops
  <2>6. LifeInv'
    BY <1>1, LifeUndisturbed DEF ServerInv
  <2> QED
    BY <1>1, <2>2, <2>3, <2>5, <2>6, QuietKeeps
<1>4. CASE \E op \in {"send", "close"} : TakeTask(r, <<op, c>>) /\ UNCHANGED handler
  <2>1. PICK op : TakeTask(r, <<op, c>>) /\ UNCHANGED <<handler, instance, pending>>
    BY <1>1, <1>4
  <2>2. /\ batch' \in [Loops -> Seq(Tasks)]
        /\ \A q \in Loops : /\ TasksOf(q)' \subseteq TasksOf(q)
                            /\ Ordered(pending'[q], batch'[q])
                            /\ batch[q] = <<>> => batch'[q] = <<>>
    BY <2>1, TaskRuns
  <2>3. TypeOK'
    BY <1>1, <1>2, <2>1, <2>2, FixedKept, MuxUndisturbed DEF ServerInv, TypeOK, MuxTypes
  <2>4. Steady /\ MapsKept /\ (RoundInv' => ServerInv')
    BY <1>1, <2>2, <2>3, TaskGone
  <2>5. RoundInv'
    BY <1>1, <2>1, <2>4, RoundUndisturbed DEF loop
  <2> QED
    BY <2>4, <2>5
<1> QED
  BY <1>3, <1>4 DEF UseDestroyed

\* A task is queued behind the others.
LEMMA TaskQueued ==
    ASSUME ServerInv, NEW r \in Loops, NEW t \in Tasks, UNCHANGED <<instance, batch>>,
           pending' = [pending EXCEPT ![r] = Append(@, t)],
           t[1] = "register" => \A s \in TasksOf(r) : s[2] # t[2]
    PROVE  /\ pending' \in [Loops -> Seq(Tasks)]
           /\ TasksOf(r)' = TasksOf(r) \cup {t}
           /\ \A q \in Loops : q # r => TasksOf(q)' = TasksOf(q)
           /\ \A q \in Loops : Ordered(pending'[q], batch'[q])
<1>1. TypeOK /\ TaskInv /\ pending[r] \in Seq(Tasks)
  BY DEF ServerInv, TypeOK
<1>2. Append(pending[r], t) \in Seq(Tasks)
  BY <1>1, AppendProperties
<1>3. /\ pending' \in [Loops -> Seq(Tasks)] /\ pending'[r] = Append(pending[r], t)
      /\ \A q \in Loops : q # r => pending'[q] = pending[q]
  BY <1>1, <1>2 DEF TypeOK
<1>4. ToSet(pending'[r]) = ToSet(pending[r]) \cup {t}
  BY <1>1, <1>3, ToSetAppend
<1>5. /\ TasksOf(r)' = TasksOf(r) \cup {t}
      /\ \A q \in Loops : q # r => TasksOf(q)' = TasksOf(q)
  BY <1>3, <1>4 DEF TasksOf
<1>6. Ordered(pending'[r], batch'[r])
  <2>1. t[1] = "register" => \A s \in ToSet(pending[r]) : s[2] # t[2]
    BY DEF TasksOf
  <2>2. Leads(pending'[r])
    BY <1>1, <1>3, <2>1, LeadsAppend DEF TaskInv, Ordered
  <2>3. ASSUME NEW s \in ToSet(batch[r]), <<"register", s[2]>> = t
        PROVE  FALSE
    <3>1. t[1] = "register" /\ t[2] = s[2] /\ s \in TasksOf(r)
      BY <2>3 DEF TasksOf
    <3> QED
      BY <3>1
  <2> QED
    BY <1>1, <1>4, <2>2, <2>3 DEF TaskInv, Ordered
<1>7. \A q \in Loops : q # r => Ordered(pending'[q], batch'[q])
  BY <1>1, <1>3 DEF TaskInv
<1> QED
  BY <1>3, <1>5, <1>6, <1>7

LEMMA UserQueuesKeeps ==
    ASSUME ServerInv, NEW c \in Clients, UserQueues(c)
    PROVE  ServerInv'
<1>0. PICK r, op : r = io[c] /\ op = user[c]
  OBVIOUS
<1> DEFINE t == <<op, c>>
<1>1. /\ UNCHANGED <<Elsewhere, life, fd, currState, mux>>
      /\ op \in {"send", "close"} /\ user' = [user EXCEPT ![c] = "called"]
      /\ pending' = [pending EXCEPT ![r] = Append(@, t)] /\ user[c] = op /\ io[c] = r
  BY <1>0 DEF UserQueues
<1> USE DEF Elsewhere, kernel, accept, history, output
<1>2. TypeOK /\ r \in Loops /\ t \in Tasks
  BY <1>1 DEF ServerInv, TypeOK, Tasks, Elsewhere
<1>3. Past(c)
  BY <1>1 DEF ServerInv, UserInv
<1>4. /\ user' \in [Clients -> UserPcs] /\ user'[c] = "called"
      /\ \A d \in Clients : d # c => user'[d] = user[d]
  BY <1>1, <1>2 DEF TypeOK, UserPcs
<1>5. /\ pending' \in [Loops -> Seq(Tasks)]
      /\ TasksOf(r)' = TasksOf(r) \cup {t}
      /\ \A q \in Loops : q # r => TasksOf(q)' = TasksOf(q)
      /\ \A q \in Loops : Ordered(pending'[q], batch'[q])
  <2>1. t[1] # "register"
    BY <1>1
  <2> QED
    BY <1>1, <1>2, <2>1, TaskQueued
<1>6. \A q \in Loops : \A s \in TasksOf(q)' : s \in TasksOf(q) \/ (q = r /\ s = t)
  BY <1>5
<1> HIDE DEF t
<1>7. Steady /\ SameMaps
  <2>1. \A q \in Loops : \A d \in Clients :
           <<"register", d>> \in TasksOf(q)' => <<"register", d>> \in TasksOf(q)
    BY <1>1, <1>6 DEF t
  <2>2. \A d \in Clients :
           user[d] \in {"called", "dropped"} => user'[d] \in {"called", "dropped"}
    BY <1>1, <1>4
  <2> QED
    BY <1>1, <2>1, <2>2, SteadyConnections, UnchangedMaps
<1>8. TypeOK'
  BY <1>1, <1>2, <1>4, <1>5, FixedKept, MuxUndisturbed
  DEF ServerInv, TypeOK, MuxTypes, loop
<1>9. MuxInv' /\ LifeInv' /\ FdInv'
  BY <1>1, MuxUndisturbed, LifeUndisturbed, FdUndisturbed DEF ServerInv
<1>10. RefInv'
  <2>1. ASSUME NEW d \in Clients, RefersTo(d)'
        PROVE  RefersTo(d)
    <3>1. user'[d] \notin {"none", "dropped"} => user[d] \notin {"none", "dropped"}
      BY <1>1, <1>4
    <3>2. \A q \in Loops : <<"establish", d>> \in TasksOf(q)' =>
             <<"establish", d>> \in TasksOf(q)
      BY <1>1, <1>6 DEF t
    <3> QED
      BY <1>1, <2>1, <3>1, <3>2, FixedKept DEF RefersTo
  <2> QED
    BY <1>1, <1>8, <2>1, RefUndisturbed DEF ServerInv
<1>11. MapInv' /\ RoundInv'
  BY <1>1, <1>7, MapUndisturbed, RoundUndisturbed, SameAreKept
<1>12. UserInv'
  <2>1. \A d \in Clients : user'[d] # "none" \/ d \in late' =>
           user[d] # "none" \/ d \in late \/ Past(d)
    BY <1>1, <1>3, <1>4
  <2> QED
    BY <1>7, <2>1, UserUndisturbed
<1>13. TaskInv'
  <2>1. GoodTask(r, t)'
    <3>1. life'[c] # "none" /\ io'[c] = r
      BY <1>1, <1>3 DEF Past
    <3>2. t[1] # "register" /\ t[2] = c
      BY <1>1 DEF t
    <3> QED
      BY <1>4, <3>1, <3>2 DEF GoodTask
  <2>2. \A q \in Loops : loopPc'[q] # "tasks" => batch'[q] = <<>>
    BY <1>1 DEF ServerInv, TaskInv, loop
  <2> QED
    BY <1>5, <1>6, <1>7, <2>1, <2>2, TaskUndisturbed
<1>14. FreshInv'
  <2>1. ASSUME NEW d \in Clients, Fresh(d)', NEW q \in Loops, NEW s \in TasksOf(q)'
        PROVE  s[2] # d
    <3>1. Fresh(d) /\ d # c
      BY <1>1, <1>3, <2>1 DEF Fresh, Past
    <3>2. t[2] = c
      BY DEF t
    <3> QED
      BY <1>6, <2>1, <3>1, <3>2 DEF ServerInv, FreshInv
  <2> QED
    BY <1>1, <2>1, FixedKept DEF FreshInv
<1> QED
  BY <1>8, <1>9, <1>10, <1>11, <1>12, <1>13, <1>14 DEF ServerInv

-----------------------------------------------------------------------------
(***************************************************************************)
(* The accepting thread.                                                   *)
(***************************************************************************)
\* The descriptor is free, and the connection has no trace yet.
LEMMA AcceptKeeps ==
    ASSUME ServerInv, Accept
    PROVE  ServerInv'
<1>1. TypeOK /\ LifeInv /\ FdInv /\ RefInv
  BY DEF ServerInv
<1>2. PICK c, f, r : c = Head(listenQueue) /\ f = LowestFree /\ r = ChosenLoop
  OBVIOUS
<1>3. /\ fd' = [fd EXCEPT ![c] = f] /\ newConn' = {c}
      /\ life' = [life EXCEPT ![c] = "constructed"]
      /\ io' = [io EXCEPT ![c] = r] /\ index' = r
      /\ listenQueue' = Tail(listenQueue) /\ acceptPc' = "construct"
      /\ round' = [round EXCEPT ![0] = @ \ {Listener}]
      /\ UNCHANGED <<instance, mail, fin, currState, callbacks, connections, mux, tasks,
                     loopPc, revents, handler, output, user, history, aborted>>
  BY <1>2 DEF Accept, AtListener
<1> USE DEF tasks, output, history
<1>4. listenQueue # <<>> /\ Free # {} /\ acceptPc = "idle"
  BY DEF Accept, AtListener, Between
<1>5. /\ c \in Clients /\ listenQueue' \in Seq(Clients)
      /\ ToSet(listenQueue) = {c} \cup ToSet(listenQueue')
      /\ Once(listenQueue') /\ c \notin ToSet(listenQueue')
  <2>1. listenQueue \in Seq(Clients)
    BY <1>1 DEF TypeOK
  <2> QED
    BY <1>1, <1>2, <1>3, <1>4, <2>1, TailElements, ToSetTail, OnceTail DEF LifeInv
<1>6. life[c] = "none" /\ ~Exists(c) /\ newConn = {}
  BY <1>1, <1>4, <1>5, QueuedAreNew DEF LifeInv
<1>7. f \in Fds /\ f # NoFd /\ \A d \in Clients : fd[d] # f
  BY <1>1, <1>2, <1>4, LowestIsFree, ServerTypes DEF Free
<1>8. r \in Loops /\ r \in Nat
  BY <1>1, <1>2, ChosenIsLoop, ServerTypes
<1>9. /\ life' \in [Clients -> {"none", "constructed", "owned", "destroyed"}]
      /\ fd' \in [Clients -> Fds \cup {NoFd}] /\ io' \in [Clients -> Loops]
      /\ life'[c] = "constructed" /\ fd'[c] = f /\ io'[c] = r
      /\ \A d \in Clients : d # c => life'[d] = life[d] /\ fd'[d] = fd[d] /\ io'[d] = io[d]
  BY <1>1, <1>3, <1>5, <1>7, <1>8 DEF TypeOK
<1>10. /\ round' \in [Loops -> SUBSET (Clients \cup {Listener})]
       /\ \A q \in Loops : round'[q] \subseteq round[q]
  BY <1>1, <1>3 DEF TypeOK
<1>11. TypeOK'
  <2>1. newConn' \subseteq Clients /\ Cardinality(newConn') <= 1
    <3>1. newConn' = {c} /\ Cardinality({c}) = 1
      BY <1>3, FS_Singleton
    <3> QED
      BY <1>5, <3>1
  <2> QED
    BY <1>1, <1>3, <1>5, <1>8, <1>9, <1>10, <2>1, FixedKept, MuxUndisturbed
    DEF ServerInv, TypeOK, MuxTypes
<1>12. \A d \in Clients : /\ Exists(d)' <=> (d = c \/ Exists(d))
                          /\ Fresh(d)' <=> d = c
                          /\ ~Fresh(d)
                          /\ Held(d)' <=> Held(d)
  BY <1>3, <1>4, <1>6, <1>9 DEF Exists, Fresh, Held
<1>13. \A q \in Loops : TasksOf(q)' = TasksOf(q)
  BY <1>3 DEF TasksOf
<1>14. Steady
  <2>1. \A d \in Clients : Past(d) => Past(d)' /\ d # c
    BY <1>3, <1>6, <1>9, <1>12, <1>13, FixedKept DEF Past
  <2>2. \A d \in Clients : Held(d) => d # c
    BY <1>6, HeldExists
  <2> QED
    BY <1>3, <1>6, <1>9, <1>12, <2>1, <2>2 DEF Steady
<1>15. SameMaps
  BY <1>3, <1>12 DEF SameMaps
<1>16. MuxInv' /\ MapInv'
  BY <1>3, <1>14, <1>15, MuxUndisturbed, MapUndisturbed DEF ServerInv
<1>17. LifeInv'
  <2>1. \A d \in ToSet(listenQueue') : d \in Clients /\ d # c /\ life[d] = "none"
    BY <1>1, <1>5, QueuedAreNew
  <2> QED
    BY <1>3, <1>5, <1>9, <2>1 DEF LifeInv
<1>18. FdInv'
  <2>1. Fds' = Fds
    BY <1>3, FixedKept
  <2> QED
    BY <1>1, <1>6, <1>7, <1>9, <1>12, <2>1 DEF FdInv
<1>19. RefInv'
  <2>1. \A d \in Clients : RefersTo(d)' => RefersTo(d) \/ d = c
    BY <1>3, <1>13, FixedKept DEF RefersTo
  <2> QED
    BY <1>1, <1>11, <1>12, <2>1, Refers, RefersNext DEF RefInv
<1>20. RoundInv'
  <2>1. MapsKept
    BY <1>15, SameAreKept
  <2> QED
    BY <1>3, <1>10, <1>14, <2>1, LoopKept, FixedKept DEF RoundInv
<1>21. TaskInv' /\ UserInv'
  BY <1>3, <1>14, SameTasks, UserUndisturbed
<1>22. FreshInv'
  <2>1. ASSUME NEW q \in Loops, NEW t \in TasksOf(q)
        PROVE  t[2] # c
    BY <1>6 DEF ServerInv, TaskInv, GoodTask
  <2> QED
    BY <1>3, <1>12, <1>13, <2>1, FixedKept DEF FreshInv
<1> QED
  BY <1>11, <1>16, <1>17, <1>18, <1>19, <1>20, <1>21, <1>22 DEF ServerInv

\* The dispatcher is registered at once, or a task is queued that will.
LEMMA ConstructKeeps ==
    ASSUME ServerInv, NEW c \in Clients, Construct(c)
    PROVE  ServerInv'
<1>1. /\ UNCHANGED <<instance, kernel, index, newConn, conn, batch, kept, loop, output,
                     user, history>>
      /\ acceptPc = "construct" /\ acceptPc' = "list" /\ newConn = {c}
  BY DEF Construct
<1> USE DEF kernel, conn, output, history
<1>2. TypeOK /\ Fresh(c)
  BY <1>1 DEF ServerInv, Fresh
<1>3. life[c] = "constructed" /\ Exists(c)
  BY <1>1 DEF ServerInv, LifeInv, Exists
<1>4. \A q \in Loops : \A t \in TasksOf(q) : t[2] # c
  BY <1>2 DEF ServerInv, FreshInv
<1>5. PICK r : r = io[c]
  OBVIOUS
<1>6. r \in Loops
  BY <1>2, <1>5 DEF TypeOK
<1>7. /\ pending' \in [Loops -> Seq(Tasks)]
      /\ \A q \in Loops : \A t \in TasksOf(q)' :
            t \in TasksOf(q) \/ (q = r /\ q # 0 /\ t = <<"register", c>>)
      /\ \A q \in Loops : Ordered(pending'[q], batch'[q])
  <2>1. CASE r = 0
    <3>1. pending' = pending
      BY <1>5, <2>1 DEF Construct
    <3> QED
      BY <1>1, <1>2, <3>1 DEF TasksOf, ServerInv, TaskInv, TypeOK
  <2>2. CASE r # 0
    <3>1. pending' = [pending EXCEPT ![r] = Append(@, <<"register", c>>)]
      BY <1>5, <2>2 DEF Construct
    <3>2. <<"register", c>> \in Tasks
      BY DEF Tasks
    <3>3. /\ pending' \in [Loops -> Seq(Tasks)]
          /\ TasksOf(r)' = TasksOf(r) \cup {<<"register", c>>}
          /\ \A q \in Loops : q # r => TasksOf(q)' = TasksOf(q)
          /\ \A q \in Loops : Ordered(pending'[q], batch'[q])
      BY <1>1, <1>4, <1>6, <3>1, <3>2, TaskQueued
    <3> QED
      BY <2>2, <3>3
  <2> QED
    BY <2>1, <2>2
<1>8. \A d \in Clients : /\ ~Fresh(d)' /\ Exists(d)' = Exists(d)
                         /\ Held(d)' <=> Held(d) \/ d = c
                         /\ Fresh(d) => d = c
  BY <1>1 DEF Fresh, Exists, Held
<1>9. Steady
  <2>1. ASSUME NEW d \in Clients, Past(d)
        PROVE  Past(d)'
    <3>1. d # c
      BY <1>2, <2>1 DEF Past
    <3>2. \A q \in Loops : <<"register", d>> \notin TasksOf(q)'
      BY <1>7, <2>1, <3>1 DEF Past
    <3> QED
      BY <1>1, <1>8, <2>1, <3>2, FixedKept DEF Past
  <2> QED
    BY <1>1, <1>8, <2>1 DEF Steady
<1>10. /\ MuxInv' /\ MuxTypes' /\ aborted' \in BOOLEAN
       /\ MapsKept /\ MapInv'
  <2>1. CASE r = 0
    <3>1. UpdateDispatcher(c) /\ pending' = pending
      BY <1>5, <2>1 DEF Construct
    <3>2. \A q \in Loops : TasksOf(q)' = TasksOf(q)
      BY <1>1, <3>1 DEF TasksOf
    <3>3. Past(c)' /\ Held(c)'
      BY <1>1, <1>3, <1>4, <1>8, <3>2, FixedKept DEF Past
    <3> QED
      BY <1>1, <1>3, <1>9, <3>1, <3>3, UpdateKeeps
  <2>2. CASE r # 0
    <3>1. UNCHANGED <<mux, aborted>>
      BY <1>5, <2>2 DEF Construct
    <3> QED
      BY <1>1, <1>2, <1>9, <3>1, MuxUndisturbed, UnchangedMaps, SameAreKept, MapUndisturbed
      DEF ServerInv, TypeOK
  <2> QED
    BY <2>1, <2>2
<1>11. TypeOK'
  BY <1>1, <1>2, <1>7, <1>10, FixedKept DEF TypeOK, MuxTypes, loop
<1>12. LifeInv' /\ FdInv'
  BY <1>1, FdUndisturbed DEF ServerInv, LifeInv
<1>13. RefInv'
  <2>1. ASSUME NEW d \in Clients, RefersTo(d)'
        PROVE  RefersTo(d)
    <3>1. \A q \in Loops : <<"establish", d>> \in TasksOf(q)' =>
             <<"establish", d>> \in TasksOf(q)
      BY <1>7
    <3> QED
      BY <1>1, <2>1, <3>1, FixedKept DEF RefersTo
  <2> QED
    BY <1>1, <1>11, <2>1, RefUndisturbed DEF ServerInv
<1>14. RoundInv' /\ UserInv'
  BY <1>1, <1>9, <1>10, RoundUndisturbed, UserUndisturbed
<1>15. TaskInv'
  <2>1. r # 0 => GoodTask(r, <<"register", c>>)'
    BY <1>1, <1>3, <1>5, <1>8 DEF GoodTask
  <2>2. \A q \in Loops : loopPc'[q] # "tasks" => batch'[q] = <<>>
    BY <1>1 DEF ServerInv, TaskInv, loop
  <2> QED
    BY <1>7, <1>9, <2>1, <2>2, TaskUndisturbed
<1>16. FreshInv'
  BY <1>8 DEF FreshInv
<1> QED
  BY <1>10, <1>11, <1>12, <1>13, <1>14, <1>15, <1>16 DEF ServerInv

\* The connection is listed, and its callbacks are set: it was held before.
LEMMA ListKeeps ==
    ASSUME ServerInv, NEW c \in Clients, List(c) \/ SetCallback(c)
    PROVE  ServerInv'
<1>1. /\ UNCHANGED <<instance, kernel, index, newConn, fd, io, currState, mux, tasks,
                     loop, output, user, history, aborted>>
      /\ newConn = {c}
      /\ acceptPc \in {"list"} \cup Callbacks
      /\ acceptPc' \in {"establish"} \cup Callbacks
      /\ life' = [life EXCEPT ![c] = "owned"]
      /\ connections' = connections \cup {c} \/ (connections' = connections /\ acceptPc # "list")
      /\ acceptPc = "list" => connections' = connections \cup {c}
      /\ callbacks' \in [Clients -> SUBSET Callbacks]
  <2>1. CASE List(c)
    BY <2>1 DEF List, Callbacks, ServerInv, TypeOK
  <2>2. CASE SetCallback(c)
    <3>1. life[c] = "owned"
      BY <2>2 DEF SetCallback, Callbacks, ServerInv, LifeInv
    <3>2. life' = [life EXCEPT ![c] = "owned"]
      BY <2>2, <3>1 DEF SetCallback, ServerInv, TypeOK
    <3>3. callbacks' \in [Clients -> SUBSET Callbacks]
      BY <2>2 DEF SetCallback, ServerInv, TypeOK
    <3> QED
      BY <2>2, <3>2, <3>3 DEF SetCallback, Callbacks
  <2> QED
    BY <2>1, <2>2
<1> USE DEF kernel, tasks, output, history
<1>2. TypeOK /\ Exists(c)
  BY <1>1 DEF ServerInv, LifeInv, Exists
<1>3. /\ life' \in [Clients -> {"none", "constructed", "owned", "destroyed"}]
      /\ life'[c] = "owned"
      /\ \A d \in Clients : d # c => life'[d] = life[d]
  BY <1>1, <1>2 DEF TypeOK
<1>4. \A q \in Loops : TasksOf(q)' = TasksOf(q)
  BY <1>1 DEF TasksOf
<1>5. \A d \in Clients : /\ ~Fresh(d)' /\ Exists(d)' = Exists(d)
                         /\ Held(d) => Held(d)'
                         /\ life[d] # "none" => life'[d] # "none"
  BY <1>1, <1>2, <1>3 DEF Fresh, Exists, Held, Callbacks
<1>6. Steady /\ SameMaps
  <2>1. \A d \in Clients : Past(d) => Past(d)'
    BY <1>1, <1>4, <1>5, FixedKept DEF Past
  <2> QED
    BY <1>1, <1>5, <2>1 DEF Steady, SameMaps
<1>7. TypeOK'
  <2>1. acceptPc' \in {"idle", "construct", "list", "establish", "return"} \cup Callbacks
    BY <1>1
  <2>2. connections' \subseteq Clients
    BY <1>1, <1>2 DEF TypeOK
  <2> QED
    BY <1>1, <1>2, <1>3, <2>1, <2>2, FixedKept, MuxUndisturbed
    DEF ServerInv, TypeOK, MuxTypes, loop
<1>8. MuxInv' /\ MapInv' /\ RoundInv' /\ TaskInv' /\ UserInv'
  <2>1. \A q \in Loops : loopPc'[q] = loopPc[q]
    BY <1>1 DEF loop
  <2> QED
    BY <1>1, <1>6, <2>1, MuxUndisturbed, MapUndisturbed, RoundUndisturbed, SameAreKept,
       SameTasks, UserUndisturbed DEF ServerInv
<1>9. LifeInv'
  <2>1. \A d \in ToSet(listenQueue) : d \in Clients /\ d # c
    BY <1>2, QueuedAreNew DEF ServerInv
  <2> QED
    BY <1>1, <1>3, <2>1 DEF ServerInv, LifeInv, Callbacks
<1>10. FdInv'
  BY <1>1, <1>5, FixedKept DEF ServerInv, FdInv
<1>11. RefInv'
  <2>1. \A d \in Clients : RefersTo(d)' => RefersTo(d)
    BY <1>1, <1>4, FixedKept DEF RefersTo
  <2> QED
    BY <1>2, <1>5, <1>7, <2>1, Refers, RefersNext DEF ServerInv, RefInv
<1>12. FreshInv'
  BY <1>5 DEF FreshInv
<1> QED
  BY <1>7, <1>8, <1>9, <1>10, <1>11, <1>12 DEF ServerInv

\* ConnectionEstablished runs at once, or a task is queued that will call it and
\* holds a reference.
LEMMA EstablishKeeps ==
    ASSUME ServerInv, NEW c \in Clients, Establish(c)
    PROVE  ServerInv'
<1>1. /\ UNCHANGED <<instance, kernel, index, newConn, life, fd, io, callbacks,
                     connections, batch, kept, loop, early>>
      /\ acceptPc = "establish" /\ acceptPc' = "return" /\ newConn = {c}
  BY DEF Establish
<1> USE DEF kernel
<1>2. TypeOK /\ life[c] = "owned" /\ Exists(c)
  BY <1>1 DEF ServerInv, LifeInv, Exists
<1>3. LifeInv' /\ \A d \in Clients : ~Fresh(d) /\ ~Fresh(d)'
  BY <1>1 DEF ServerInv, LifeInv, Fresh
<1>4. PICK r : r = io[c]
  OBVIOUS
<1>5. r \in Loops
  BY <1>2, <1>4 DEF TypeOK
<1>6. CASE r = 0
  <2>1. /\ currState' = [currState EXCEPT ![c] = "Connected"]
        /\ told' = [told EXCEPT ![c] = @ \cup {"established"}]
        /\ CallBack(c, "Connected") /\ UNCHANGED pending
    BY <1>4, <1>6 DEF Establish
  <2>2. Past(c)
    <3>1. ASSUME NEW q \in Loops, <<"register", c>> \in TasksOf(q)
          PROVE  FALSE
      <4>1. GoodTask(q, <<"register", c>>)
        BY <3>1 DEF ServerInv, TaskInv
      <4>2. q # 0 /\ q = r
        BY <1>4, <4>1 DEF GoodTask
      <4> QED
        BY <1>6, <4>2
    <3> QED
      BY <1>2, <1>3, <3>1 DEF Past
  <2>3. Speaks(c) /\ writing' \subseteq Clients
    BY <1>2, <2>1, CallBackSpeaks
  <2>4. \A q \in Loops : TasksOf(q)' = TasksOf(q) /\ kept'[q] = kept[q]
    BY <1>1, <2>1 DEF TasksOf
  <2>5. /\ MuxInv' /\ MuxTypes' /\ aborted' \in BOOLEAN
        /\ late' \subseteq Clients /\ user' \in [Clients -> UserPcs]
        /\ Steady /\ MapsKept
        /\ FdInv' /\ MapInv' /\ UserInv' /\ FreshInv'
        /\ (TypeOK' /\ \A q \in Loops : kept'[q] \subseteq kept[q] \cup {c}) => RefInv'
    BY <1>1, <1>2, <2>2, <2>3, <2>4, SpeakKeeps
  <2>6. TypeOK'
    <3>1. currState' \in [Clients -> States \cup {"unset"}]
      BY <1>2, <2>1 DEF TypeOK, States
    <3>2. told' \in [Clients -> SUBSET {"established", "message"}]
      BY <1>2, <2>1 DEF TypeOK
    <3> QED
      BY <1>1, <1>2, <2>1, <2>3, <2>5, <3>1, <3>2, FixedKept DEF TypeOK, MuxTypes, loop
  <2>7. RoundInv' /\ TaskInv'
    <3>1. \A q \in Loops : loopPc'[q] = loopPc[q]
      BY <1>1 DEF loop
    <3> QED
      BY <1>1, <2>1, <2>5, <3>1, RoundUndisturbed, SameTasks
  <2> QED
    BY <1>3, <2>4, <2>5, <2>6, <2>7 DEF ServerInv
<1>7. CASE r # 0
  <2>1. /\ pending' = [pending EXCEPT ![r] = Append(@, <<"establish", c>>)]
        /\ UNCHANGED <<currState, told, mux, aborted, output, user>>
    BY <1>4, <1>7 DEF Establish
  <2> USE DEF output
  <2>2. <<"establish", c>> \in Tasks
    BY DEF Tasks
  <2>3. /\ pending' \in [Loops -> Seq(Tasks)]
        /\ TasksOf(r)' = TasksOf(r) \cup {<<"establish", c>>}
        /\ \A q \in Loops : q # r => TasksOf(q)' = TasksOf(q)
        /\ \A q \in Loops : Ordered(pending'[q], batch'[q])
    BY <1>1, <1>5, <2>1, <2>2, TaskQueued
  <2>4. \A q \in Loops : \A t \in TasksOf(q)' :
           t \in TasksOf(q) \/ (q = r /\ t = <<"establish", c>>)
    BY <2>3
  <2>5. Steady /\ SameMaps
    <3>1. \A q \in Loops : \A d \in Clients :
             <<"register", d>> \in TasksOf(q)' => <<"register", d>> \in TasksOf(q)
      BY <2>4
    <3> QED
      BY <1>1, <2>1, <3>1, SteadyConnections, UnchangedMaps
  <2>6. TypeOK'
    BY <1>1, <1>2, <2>1, <2>3, FixedKept, MuxUndisturbed
    DEF ServerInv, TypeOK, MuxTypes, loop
  <2>7. MuxInv' /\ FdInv' /\ MapInv'
    BY <1>1, <2>1, <2>5, MuxUndisturbed, FdUndisturbed, MapUndisturbed DEF ServerInv
  <2>8. RefInv'
    <3>1. ASSUME NEW d \in Clients, RefersTo(d)'
          PROVE  RefersTo(d) \/ d = c
      <4>1. \A q \in Loops : <<"establish", d>> \in TasksOf(q)' =>
               <<"establish", d>> \in TasksOf(q) \/ d = c
        BY <2>4
      <4> QED
        BY <1>1, <2>1, <3>1, <4>1, FixedKept DEF RefersTo
    <3> QED
      BY <1>1, <1>2, <2>6, <3>1, RefUndisturbed DEF ServerInv
  <2>9. RoundInv' /\ UserInv'
    BY <1>1, <2>1, <2>5, RoundUndisturbed, SameAreKept, UserUndisturbed
  <2>10. TaskInv'
    <3>1. GoodTask(r, <<"establish", c>>)'
      BY <1>1, <1>2, <1>4 DEF GoodTask
    <3>2. \A q \in Loops : loopPc'[q] # "tasks" => batch'[q] = <<>>
      BY <1>1 DEF ServerInv, TaskInv, loop
    <3> QED
      BY <2>3, <2>4, <2>5, <3>1, <3>2, TaskUndisturbed
  <2>11. FreshInv'
    BY <1>3 DEF FreshInv
  <2> QED
    BY <1>3, <2>6, <2>7, <2>8, <2>9, <2>10, <2>11 DEF ServerInv
<1> QED
  BY <1>6, <1>7

-----------------------------------------------------------------------------
(***************************************************************************)
(* The steps that drop references.                                         *)
(***************************************************************************)
\* Of the connections cs those in gone are destroyed; the others notice nothing.
DestroysOnly(gone, cs, m) ==
    /\ \A d \in gone : ~RefersTo(d)' /\ life'[d] = "destroyed" /\ fd'[d] = NoFd
    /\ \A d \in Clients : d \notin gone => /\ life'[d] = life[d] /\ fd'[d] = fd[d]
                                           /\ d \in cs => RefersTo(d)'
    /\ \A r \in Loops :
          /\ mux'[r].map = m[r].map
          /\ \A g \in mux'[r].watched : g \in m[r].watched /\ \A d \in gone : g # fd[d]

LEMMA DropFacts ==
    ASSUME TypeOK, TypeOK', NEW cs \in SUBSET Clients, NEW m, UNCHANGED instance,
           \A r \in Loops : IsMultiplexer(m[r], Descriptors, Dispatchers),
           DropReferences(cs, m)
    PROVE  \E gone \in SUBSET cs : DestroysOnly(gone, cs, m)
<1>1. PICK gone : gone = {d \in cs : ~Referenced(d)'}
  OBVIOUS
<1>2. /\ life' = [d \in Clients |-> IF d \in gone THEN "destroyed" ELSE life[d]]
      /\ fd' = [d \in Clients |-> IF d \in gone THEN NoFd ELSE fd[d]]
      /\ mux' = [r \in Loops |-> Closed(m[r], {fd[d] : d \in gone})]
  BY <1>1 DEF DropReferences
<1>3. gone \in SUBSET cs /\ \A d \in cs : d \notin gone <=> RefersTo(d)'
  BY <1>1, RefersNext
<1>4. \A r \in Loops : /\ mux'[r].map = m[r].map
                       /\ mux'[r].watched = m[r].watched \ {fd[d] : d \in gone}
  BY <1>2, ClosedFacts
<1>5. /\ \A d \in gone : ~RefersTo(d)' /\ life'[d] = "destroyed" /\ fd'[d] = NoFd
      /\ \A d \in Clients : d \notin gone => /\ life'[d] = life[d] /\ fd'[d] = fd[d]
                                             /\ d \in cs => RefersTo(d)'
  BY <1>2, <1>3
<1>6. \A r \in Loops :
         /\ mux'[r].map = m[r].map
         /\ \A g \in mux'[r].watched : g \in m[r].watched /\ \A d \in gone : g # fd[d]
  BY <1>4
<1> QED
  BY <1>3, <1>5, <1>6 DEF DestroysOnly

\* The new values have their types, whatever the rest of the step does.
LEMMA DropTypes ==
    ASSUME TypeOK, NEW cs \in SUBSET Clients, NEW m, UNCHANGED instance,
           \A r \in Loops : IsMultiplexer(m[r], Descriptors, Dispatchers),
           DropReferences(cs, m)
    PROVE  /\ life' \in [Clients -> {"none", "constructed", "owned", "destroyed"}]
           /\ fd' \in [Clients -> Fds \cup {NoFd}]
           /\ MuxInv' /\ MuxTypes'
<1>1. PICK gone : gone = {d \in cs : ~Referenced(d)'}
  OBVIOUS
<1>2. /\ life' = [d \in Clients |-> IF d \in gone THEN "destroyed" ELSE life[d]]
      /\ fd' = [d \in Clients |-> IF d \in gone THEN NoFd ELSE fd[d]]
      /\ mux' = [r \in Loops |-> Closed(m[r], {fd[d] : d \in gone})]
  BY <1>1 DEF DropReferences
<1>3. /\ life' \in [Clients -> {"none", "constructed", "owned", "destroyed"}]
      /\ fd' \in [Clients -> Fds \cup {NoFd}]
  BY <1>2 DEF TypeOK
<1>4. MuxInv'
  <2>1. \A r \in Loops : IsMultiplexer(mux'[r], Descriptors, Dispatchers)
    BY <1>2, ClosedFacts
  <2>2. mux' = [r \in Loops |-> mux'[r]]
    BY <1>2
  <2>3. Loops' = Loops /\ Descriptors' = Descriptors
    BY FixedKept
  <2> QED
    BY <2>1, <2>2, <2>3 DEF MuxInv
<1> QED
  BY <1>3, <1>4, MuxesOfTypeNext

\* A step that drops references, and leaves the maps and the tasks alone.
Drops(cs) ==
    /\ UNCHANGED <<instance, listenQueue, io, connections, pending, batch, late>>
    /\ DropReferences(cs, mux)
    /\ \A c \in cs : Exists(c)
    /\ \/ UNCHANGED <<acceptPc, newConn>>
       \/ acceptPc = "return" /\ acceptPc' = "idle" /\ newConn' = {}
    /\ \A r \in Loops : /\ kept'[r] \subseteq kept[r]
                        /\ loopPc'[r] = loopPc[r] \/ batch[r] = <<>>
    /\ \A c \in Clients :
          \/ user'[c] = user[c]
          \/ user[c] \in {"holds", "called"} /\ user'[c] = "dropped"

LEMMA DropSteady ==
    ASSUME ServerInv, TypeOK', NEW cs \in SUBSET Clients, Drops(cs)
    PROVE  /\ Steady /\ SameMaps
           /\ LifeInv' /\ FdInv' /\ RefInv' /\ FreshInv'
<1> USE DEF Drops
<1>1. TypeOK /\ MuxInv /\ LifeInv /\ FdInv /\ RefInv
  BY DEF ServerInv
<1>gone. PICK gone \in SUBSET cs : DestroysOnly(gone, cs, mux)
  BY <1>1, DropFacts DEF MuxInv
<1>2. /\ \A d \in gone : ~RefersTo(d)' /\ life'[d] = "destroyed" /\ fd'[d] = NoFd
      /\ \A d \in Clients : d \notin gone => /\ life'[d] = life[d] /\ fd'[d] = fd[d]
                                             /\ d \in cs => RefersTo(d)'
      /\ \A r \in Loops : /\ mux'[r].map = mux[r].map
                          /\ \A g \in mux'[r].watched :
                                g \in mux[r].watched /\ \A d \in gone : g # fd[d]
  BY <1>gone DEF DestroysOnly
<1>3. \A d \in Clients : /\ Exists(d)' <=> Exists(d) /\ d \notin gone
                         /\ life[d] # "none" => life'[d] # "none"
                         /\ ~Exists(d)' => fd'[d] = NoFd
                         /\ d \in gone => Exists(d)
  BY <1>1, <1>2 DEF Exists, FdInv
<1>4. \A r \in Loops : TasksOf(r)' = TasksOf(r)
  BY DEF TasksOf
<1>5. \A d \in Clients : Fresh(d)' => Fresh(d)
  BY DEF Fresh
<1>6. ASSUME NEW d \in Clients, Held(d)
      PROVE  Held(d)' /\ d \notin gone
  <2>1. Held(d)'
    BY <1>6 DEF Held
  <2>2. RefersTo(d)'
    BY <2>1 DEF Held, RefersTo
  <2> QED
    BY <1>2, <2>1, <2>2
<1>7. Steady
  <2>1. \A d \in Clients : Past(d) => Past(d)'
    BY <1>3, <1>4, <1>5, FixedKept DEF Past
  <2>2. \A d \in Clients :
           user[d] \in {"called", "dropped"} => user'[d] \in {"called", "dropped"}
    OBVIOUS
  <2> QED
    BY <1>2, <1>3, <1>6, <2>1, <2>2 DEF Steady
<1>8. SameMaps
  BY <1>2, <1>3 DEF SameMaps
<1>9. LifeInv'
  <2>1. \A d \in ToSet(listenQueue) : d \in Clients /\ d \notin gone
    BY <1>1, <1>3, QueuedAreNew
  <2>2. \A d \in newConn' : d \in Clients /\ d \notin gone
    BY <1>1, <1>2 DEF RefersTo, TypeOK
  <2> QED
    BY <1>1, <1>2, <2>1, <2>2 DEF LifeInv
<1>10. FdInv'
  <2>1. \A d \in Clients : Exists(d)' => Exists(d) /\ fd'[d] = fd[d] /\ fd[d] \in Fds
    BY <1>1, <1>2, <1>3 DEF FdInv
  <2>2. ASSUME NEW c \in Clients, NEW d \in Clients, Exists(c)', fd'[c] = fd'[d]
        PROVE  c = d
    <3>1. Exists(d)'
      BY <1>1, <1>3, <2>1, <2>2, ServerTypes
    <3> QED
      BY <1>1, <2>1, <2>2, <3>1 DEF FdInv
  <2> QED
    BY <1>3, <2>1, <2>2, FixedKept DEF FdInv
<1>11. RefInv'
  <2>1. ASSUME NEW d \in Clients, RefersTo(d)'
        PROVE  RefersTo(d) /\ d \notin gone
    <3>1. user'[d] \notin {"none", "dropped"} => user[d] \notin {"none", "dropped"}
      OBVIOUS
    <3> QED
      BY <1>2, <1>4, <2>1, <3>1, FixedKept DEF RefersTo
  <2> QED
    BY <1>1, <1>3, <2>1, Refers, RefersNext DEF RefInv
<1>12. FreshInv'
  BY <1>4, <1>5, FreshUndisturbed DEF ServerInv
<1> QED
  BY <1>7, <1>8, <1>9, <1>10, <1>11, <1>12

LEMMA DropKeeps ==
    ASSUME ServerInv, TypeOK', MuxInv', NEW cs \in SUBSET Clients, Drops(cs), RoundInv'
    PROVE  ServerInv'
<1>1. /\ Steady /\ SameMaps
      /\ LifeInv' /\ FdInv' /\ RefInv' /\ FreshInv'
  BY DropSteady
<1>2. MapInv' /\ TaskInv'
  BY <1>1, MapUndisturbed, SameTasks DEF Drops
<1>3. UserInv'
  <2>1. \A c \in Clients : user'[c] # "none" \/ c \in late' =>
           user[c] # "none" \/ c \in late \/ Past(c)
    BY DEF Drops
  <2> QED
    BY <1>1, <2>1, UserUndisturbed
<1> QED
  BY <1>1, <1>2, <1>3 DEF ServerInv

LEMMA ReturnKeeps ==
    ASSUME ServerInv, NEW c \in Clients, Return(c)
    PROVE  ServerInv'
<1> USE DEF tasks, output, history
<1>1. /\ acceptPc = "return" /\ newConn = {c} /\ acceptPc' = "idle" /\ newConn' = {}
      /\ DropReferences({c}, mux)
      /\ UNCHANGED <<instance, connections, tasks, user, kernel, index, io, currState,
                     callbacks, loop, output, history, aborted>>
  BY DEF Return
<1>2. TypeOK /\ MuxInv
  BY DEF ServerInv
<1>3. \A d \in {c} : Exists(d)
  BY <1>1 DEF ServerInv, LifeInv, Exists
<1>4. /\ life' \in [Clients -> {"none", "constructed", "owned", "destroyed"}]
      /\ fd' \in [Clients -> Fds \cup {NoFd}]
      /\ MuxInv' /\ MuxTypes'
  BY <1>1, <1>2, DropTypes DEF MuxInv
<1>5. TypeOK'
  <2>1. newConn' \subseteq Clients /\ Cardinality(newConn') <= 1
    BY <1>1, FS_EmptySet
  <2> QED
    BY <1>1, <1>2, <1>4, <2>1, FixedKept DEF TypeOK, MuxTypes, loop, kernel
<1>6. {c} \in SUBSET Clients /\ Drops({c})
  BY <1>1, <1>3 DEF Drops, loop, kernel
<1>7. RoundInv'
  <2>1. Steady /\ SameMaps
    BY <1>5, <1>6, DropSteady
  <2> QED
    BY <1>1, <2>1, SameAreKept, RoundUndisturbed
<1> QED
  BY <1>4, <1>5, <1>6, <1>7, DropKeeps

\* The batch is done with, and the references of its tasks.
LEMMA EndTasksKeeps ==
    ASSUME ServerInv, NEW r \in Loops, EndTasks(r)
    PROVE  ServerInv'
<1> USE DEF output, history
<1>1. /\ loopPc[r] = "tasks" /\ handler[r] = {} /\ batch[r] = <<>>
      /\ loopPc' = [loopPc EXCEPT ![r] = "wait"] /\ kept' = [kept EXCEPT ![r] = {}]
      /\ DropReferences(kept[r], mux)
      /\ UNCHANGED <<instance, newConn, connections, pending, batch, user, kernel, index,
                     acceptPc, io, currState, callbacks, round, revents, handler,
                     output, history, aborted>>
  BY DEF EndTasks, Runs
<1>2. TypeOK /\ MuxInv
  BY DEF ServerInv
<1>3. kept[r] \in SUBSET Clients /\ \A d \in kept[r] : Exists(d)
  <2>1. \A d \in kept[r] : d \in Clients /\ RefersTo(d)
    BY <1>2 DEF TypeOK, RefersTo
  <2> QED
    BY <1>2, <2>1, Refers DEF ServerInv, RefInv
<1>4. /\ life' \in [Clients -> {"none", "constructed", "owned", "destroyed"}]
      /\ fd' \in [Clients -> Fds \cup {NoFd}]
      /\ MuxInv' /\ MuxTypes'
  BY <1>1, <1>2, <1>3, DropTypes DEF MuxInv
<1>5. /\ kept' \in [Loops -> SUBSET Clients]
      /\ loopPc' \in [Loops -> {"wait", "events", "tasks"}]
      /\ loopPc'[r] = "wait"
      /\ \A q \in Loops : /\ kept'[q] \subseteq kept[q]
                          /\ q # r => loopPc'[q] = loopPc[q]
  BY <1>1, <1>2 DEF TypeOK
<1>6. TypeOK'
  BY <1>1, <1>2, <1>4, <1>5, FixedKept DEF TypeOK, MuxTypes, kernel
<1>7. Drops(kept[r])
  BY <1>1, <1>3, <1>5 DEF Drops, kernel
<1>8. RoundInv'
  <2>1. Steady /\ MapsKept
    BY <1>3, <1>6, <1>7, DropSteady, SameAreKept
  <2>2. RoundOf(r)'
    <3>1. handler'[r] = {} /\ round'[r] = {}
      BY <1>1 DEF ServerInv, RoundInv, RoundOf
    <3>2. ~ \E c \in Clients : \E st \in Stages : handler'[r] = {<<c, st>>}
      BY <3>1
    <3> QED
      BY <3>1, <3>2 DEF RoundOf
  <2> QED
    BY <1>1, <1>5, <2>1, <2>2, OtherLoops
<1> QED
  BY <1>3, <1>4, <1>6, <1>7, <1>8, DropKeeps

LEMMA UserDropsKeeps ==
    ASSUME ServerInv, NEW c \in Clients, UserDrops(c)
    PROVE  ServerInv'
<1> USE DEF Elsewhere, kernel, accept, output, history
<1>1. /\ user[c] \in {"holds", "called"} /\ user' = [user EXCEPT ![c] = "dropped"]
      /\ UNCHANGED <<Elsewhere, currState, pending>>
      /\ DropReferences({c}, mux)
  BY DEF UserDrops
<1>2. TypeOK /\ MuxInv
  BY DEF ServerInv
<1>3. \A d \in {c} : Exists(d)
  <2>1. RefersTo(c)
    BY <1>1 DEF RefersTo
  <2> QED
    BY <1>2, <2>1, Refers DEF ServerInv, RefInv
<1>4. /\ life' \in [Clients -> {"none", "constructed", "owned", "destroyed"}]
      /\ fd' \in [Clients -> Fds \cup {NoFd}]
      /\ MuxInv' /\ MuxTypes'
  BY <1>1, <1>2, DropTypes DEF MuxInv
<1>5. /\ user' \in [Clients -> UserPcs] /\ user'[c] = "dropped"
      /\ \A d \in Clients : d # c => user'[d] = user[d]
  BY <1>1, <1>2 DEF TypeOK, UserPcs
<1>6. TypeOK'
  BY <1>1, <1>2, <1>4, <1>5, FixedKept DEF TypeOK, MuxTypes, loop
<1>7. {c} \in SUBSET Clients /\ Drops({c})
  BY <1>1, <1>3, <1>5 DEF Drops, loop
<1>8. RoundInv'
  <2>1. Steady /\ SameMaps
    BY <1>6, <1>7, DropSteady
  <2> QED
    BY <1>1, <2>1, SameAreKept, RoundUndisturbed
<1> QED
  BY <1>4, <1>6, <1>7, <1>8, DropKeeps

\* What is removed has left its loop's round, and no task is left to register it; and
\* nobody else is under its descriptor in its loop's map.
LEMMA ConnectionRemovedKeeps ==
    ASSUME ServerInv, NEW r \in Loops, NEW c \in Clients, ConnectionRemoved(r, c)
    PROVE  ServerInv'
<1>1. PICK m, f : m = Unregistered(r, c) /\ f = fd[c]
  OBVIOUS
<1>2. /\ handler[r] = {<<c, "closing">>} /\ life[c] # "destroyed"
      /\ handler' = [handler EXCEPT ![r] = IF loopPc[r] = "events"
                                           THEN {<<c, "removed">>} ELSE {}]
      /\ connections' = connections \ {c} \/ connections' = connections
      /\ early' = early \/ early' = early \cup {c}
      /\ currState' = [currState EXCEPT ![c] = "Disconnected"]
      /\ writing' = writing \ {c} /\ late' = late \ {c}
      /\ DropReferences({c}, m)
      /\ UNCHANGED <<instance, newConn, tasks, user, kernel, index, acceptPc, io,
                     callbacks, loopPc, round, revents, told, aborted>>
  BY <1>1 DEF ConnectionRemoved
<1> USE DEF tasks
<1>3. TypeOK /\ MuxInv /\ FdInv /\ LifeInv /\ RefInv /\ RoundInv
  BY DEF ServerInv
<1>4. Past(c) /\ io[c] = r /\ c \notin round[r] /\ Exists(c)
  <2>1. "closing" \in Stages
    BY DEF Stages
  <2>2. GoodHandler(r, c, "closing")
    BY <1>2, <1>3, <2>1 DEF RoundInv, RoundOf
  <2>3. Past(c) /\ io[c] = r /\ c \notin round[r]
    BY <2>2 DEF GoodHandler
  <2> QED
    BY <1>2, <1>3, <2>3 DEF Past, Exists, TypeOK
<1>5. /\ IsMultiplexer(m[r], Descriptors, Dispatchers)
      /\ DOMAIN m[r].map = Mapped(r) \ {f}
      /\ \A g \in Mapped(r) \ {f} : m[r].map[g] = mux[r].map[g]
      /\ m[r].watched = mux[r].watched \ {f}
      /\ \A q \in Loops : q # r => m[q] = mux[q]
  <2>1. IsMultiplexer(mux[r], Descriptors, Dispatchers)
    BY <1>3 DEF MuxInv
  <2>2. m[r] = Deleted(mux[r], f) /\ \A q \in Loops : q # r => m[q] = mux[q]
    BY <1>1, <1>3 DEF Unregistered, MuxInv
  <2> QED
    BY <2>1, <2>2, DeletedFacts DEF Mapped
<1>6. \A q \in Loops : IsMultiplexer(m[q], Descriptors, Dispatchers)
  BY <1>3, <1>5 DEF MuxInv
<1>7. /\ life' \in [Clients -> {"none", "constructed", "owned", "destroyed"}]
      /\ fd' \in [Clients -> Fds \cup {NoFd}]
      /\ MuxInv' /\ MuxTypes'
  BY <1>2, <1>3, <1>6, DropTypes
<1>8. /\ handler' \in [Loops -> SUBSET (Clients \X Stages)]
      /\ handler'[r] = IF loopPc[r] = "events" THEN {<<c, "removed">>} ELSE {}
      /\ \A q \in Loops : q # r => handler'[q] = handler[q]
  <2>1. {<<c, "removed">>} \in SUBSET (Clients \X Stages)
    BY DEF Stages
  <2> QED
    BY <1>2, <1>3, <2>1 DEF TypeOK
<1>9. TypeOK'
  <2>1. currState' \in [Clients -> States \cup {"unset"}]
    BY <1>2, <1>3 DEF TypeOK, States
  <2>2. /\ connections' \subseteq Clients /\ early' \subseteq Clients
        /\ writing' \subseteq Clients /\ late' \subseteq Clients
    BY <1>2, <1>3 DEF TypeOK
  <2> QED
    BY <1>2, <1>3, <1>7, <1>8, <2>1, <2>2, FixedKept DEF TypeOK, MuxTypes, kernel
<1>gone. PICK gone \in SUBSET {c} : DestroysOnly(gone, {c}, m)
  BY <1>2, <1>3, <1>6, <1>9, DropFacts
<1>10. /\ \A d \in gone : ~RefersTo(d)' /\ life'[d] = "destroyed" /\ fd'[d] = NoFd
       /\ \A d \in Clients : d \notin gone => /\ life'[d] = life[d] /\ fd'[d] = fd[d]
                                              /\ d = c => RefersTo(d)'
       /\ \A q \in Loops : /\ mux'[q].map = m[q].map
                           /\ mux'[q].watched \subseteq m[q].watched
  BY <1>gone DEF DestroysOnly
<1>11. \A d \in Clients : /\ Exists(d)' <=> Exists(d) /\ d \notin gone
                          /\ life[d] # "none" => life'[d] # "none"
                          /\ ~Exists(d)' => fd'[d] = NoFd
                          /\ d # c => /\ life'[d] = life[d] /\ fd'[d] = fd[d]
                                      /\ d \in late' <=> d \in late
                                      /\ Held(d)' <=> Held(d)
  BY <1>2, <1>3, <1>10 DEF Exists, FdInv, Held
<1>12. \A q \in Loops : /\ mux'[q].map = m[q].map
                        /\ mux'[q].watched \subseteq m[q].watched
  BY <1>10
<1>13. /\ \A q \in Loops : TasksOf(q)' = TasksOf(q)
       /\ \A d \in Clients : Fresh(d)' <=> Fresh(d)
       /\ \A d \in Clients : Past(d) => Past(d)'
  <2>1. /\ \A q \in Loops : TasksOf(q)' = TasksOf(q)
        /\ \A d \in Clients : Fresh(d)' <=> Fresh(d)
    BY <1>2 DEF TasksOf, Fresh
  <2> QED
    BY <1>2, <1>11, <2>1, FixedKept DEF Past
\* The entries left, and who they are of.
<1>14. ASSUME NEW q \in Loops, NEW g \in Mapped(q)'
       PROVE  /\ g \in Mapped(q) /\ mux'[q].map[g] = mux[q].map[g]
              /\ g \in mux'[q].watched => g \in mux[q].watched
              /\ ~(q = r /\ g = f)
  <2>1. g \in DOMAIN m[q].map /\ mux'[q].map[g] = m[q].map[g]
    BY <1>12, <1>14 DEF Mapped
  <2>2. CASE q = r
    BY <1>5, <1>12, <2>1, <2>2
  <2>3. CASE q # r
    BY <1>5, <1>12, <2>1, <2>3 DEF Mapped
  <2> QED
    BY <2>2, <2>3
<1>15. MapInv'
  <2> SUFFICES ASSUME NEW q \in Loops, NEW g \in Mapped(q)'
               PROVE  IF g = ListenFd THEN mux'[q].map[g] = Listener
                                      ELSE GoodEntry(q, g)'
    BY <1>2, FixedKept DEF MapInv
  <2>1. CASE g = ListenFd
    BY <1>14, <2>1 DEF ServerInv, MapInv
  <2>2. CASE g # ListenFd
    <3>1. GoodEntry(q, g)
      BY <1>14, <2>2 DEF ServerInv, MapInv
    <3>2. PICK d \in Clients : d = mux[q].map[g]
      BY <3>1 DEF GoodEntry
    <3>3. /\ Past(d) /\ io[d] = q
          /\ Exists(d) => fd[d] = g
          /\ d \notin late => Held(d)
          /\ g \in mux[q].watched => Exists(d)
      BY <3>1, <3>2 DEF GoodEntry
    <3>4. d # c
      BY <1>1, <1>4, <1>14, <3>3
    <3>5. mux'[q].map[g] = d /\ (g \in mux'[q].watched => Exists(d)')
      BY <1>10, <1>11, <1>14, <3>2, <3>3, <3>4
    <3>6. /\ Past(d)' /\ io'[d] = q
          /\ Exists(d)' => fd'[d] = g
          /\ d \notin late' => Held(d)'
      BY <1>2, <1>11, <1>13, <3>3, <3>4
    <3>7. GoodEntry(q, g)'
      BY <3>5, <3>6 DEF GoodEntry
    <3> QED
      BY <2>2, <3>7
  <2> QED
    BY <2>1, <2>2
\* What another connection has in a map stays.
<1>16. ASSUME NEW q \in Loops, NEW d \in Clients, d # c, Registered(q, d), d \notin late
       PROVE  Registered(q, d)' /\ d \notin late'
  <2>1. Exists(d) /\ fd[d] # f
    <3>1. Exists(d)
      BY <1>16, RegisteredFacts
    <3> QED
      BY <1>1, <1>3, <1>16, <3>1 DEF FdInv
  <2>2. fd[d] \in Mapped(q)' /\ mux'[q].map[fd[d]] = mux[q].map[fd[d]]
    <3>1. CASE q = r
      BY <1>5, <1>12, <1>16, <2>1, <3>1 DEF Registered, Mapped
    <3>2. CASE q # r
      BY <1>5, <1>12, <1>16, <3>2 DEF Registered, Mapped
    <3> QED
      BY <3>1, <3>2
  <2>3. fd'[d] = fd[d]
    BY <1>11, <1>16
  <2> QED
    BY <1>11, <1>16, <2>2, <2>3 DEF Registered
<1>17. ASSUME NEW q \in Loops
       PROVE  RoundOf(q)'
  <2>1. RoundOf(q)
    BY <1>3 DEF RoundInv
  <2>2. ASSUME NEW d \in round'[q] \ {Listener}
        PROVE  GoodRound(q, d)'
    <3>1. GoodRound(q, d)
      BY <1>2, <2>1, <2>2 DEF RoundOf
    <3>2. d \in Clients /\ d # c /\ Past(d)' /\ io'[d] = q
      BY <1>2, <1>4, <1>13, <2>2, <3>1 DEF GoodRound
    <3> QED
      BY <1>2, <1>11, <1>16, <3>1, <3>2 DEF GoodRound
  <2>3. ASSUME NEW d \in Clients, NEW st \in Stages, handler'[q] = {<<d, st>>}
        PROVE  GoodHandler(q, d, st)'
    <3>1. CASE q = r
      <4>1. loopPc[r] = "events" /\ {<<d, st>>} = {<<c, "removed">>}
        BY <1>8, <2>3, <3>1
      <4>2. <<d, st>> = <<c, "removed">>
        BY <4>1
      <4>3. d = c /\ st = "removed"
        BY <4>2
      <4> QED
        BY <1>2, <1>4, <1>13, <3>1, <4>1, <4>3 DEF GoodHandler
    <3>2. CASE q # r
      <4>1. GoodHandler(q, d, st)
        BY <1>8, <2>1, <2>3, <3>2 DEF RoundOf
      <4>2. d # c /\ Past(d)' /\ io'[d] = q
        BY <1>2, <1>4, <1>13, <3>2, <4>1 DEF GoodHandler
      <4> QED
        BY <1>2, <1>11, <1>16, <4>1, <4>2 DEF GoodHandler
    <3> QED
      BY <3>1, <3>2
  <2>4. \/ handler'[q] = {}
        \/ \E d \in Clients : \E st \in Stages : handler'[q] = {<<d, st>>}
    <3>1. "removed" \in Stages
      BY DEF Stages
    <3> QED
      BY <1>8, <2>1, <3>1 DEF RoundOf
  <2>5. loopPc'[q] # "events" => round'[q] = {}
    BY <1>2, <2>1 DEF RoundOf
  <2> QED
    BY <2>2, <2>3, <2>4, <2>5 DEF RoundOf
<1>18. RoundInv'
  BY <1>2, <1>17, FixedKept DEF RoundInv
<1>19. LifeInv'
  <2>1. \A d \in ToSet(listenQueue) : d \in Clients /\ d # c
    BY <1>3, <1>4, QueuedAreNew
  <2>2. \A d \in newConn : d \in Clients /\ d \notin gone
    BY <1>2, <1>3, <1>10 DEF RefersTo, TypeOK
  <2> QED
    BY <1>2, <1>3, <1>10, <1>11, <2>1, <2>2 DEF LifeInv, kernel
<1>20. FdInv'
  <2>1. \A d \in Clients : Exists(d)' => Exists(d) /\ fd'[d] = fd[d] /\ fd[d] \in Fds
    BY <1>3, <1>10, <1>11 DEF FdInv
  <2>2. ASSUME NEW d \in Clients, NEW e \in Clients, Exists(d)', fd'[d] = fd'[e]
        PROVE  d = e
    <3>1. Exists(e)'
      BY <1>3, <1>11, <2>1, <2>2, ServerTypes
    <3> QED
      BY <1>3, <2>1, <2>2, <3>1 DEF FdInv
  <2> QED
    BY <1>2, <1>11, <2>1, <2>2, FixedKept DEF FdInv
<1>21. RefInv'
  <2>1. ASSUME NEW d \in Clients, RefersTo(d)'
        PROVE  RefersTo(d) /\ d \notin gone
    BY <1>2, <1>10, <1>13, <2>1, FixedKept DEF RefersTo
  <2> QED
    BY <1>3, <1>9, <1>11, <2>1, Refers, RefersNext DEF RefInv
<1>22. TaskInv'
  <2>1. ASSUME NEW q \in Loops, NEW t \in TasksOf(q)
        PROVE  GoodTask(q, t)'
    <3>1. GoodTask(q, t) /\ t[2] \in Clients /\ t = <<t[1], t[2]>>
      BY <1>3, TasksAreTasks DEF ServerInv, TaskInv
    <3>2. t[1] = "register" => t[2] # c
      BY <1>4, <3>1 DEF Past
    <3> QED
      BY <1>2, <1>11, <3>1, <3>2 DEF GoodTask
  <2> QED
    BY <1>2, <1>13, <2>1, FixedKept DEF ServerInv, TaskInv
<1>23. UserInv' /\ FreshInv'
  <2>1. UserInv'
    BY <1>2, <1>13 DEF ServerInv, UserInv
  <2>2. FreshInv'
    BY <1>2, <1>13, FreshUndisturbed DEF ServerInv
  <2> QED
    BY <2>1, <2>2
<1> QED
  BY <1>7, <1>9, <1>15, <1>18, <1>19, <1>20, <1>21, <1>22, <1>23 DEF ServerInv

-----------------------------------------------------------------------------
(***************************************************************************)
(* The invariant holds.                                                    *)
(***************************************************************************)
LEMMA InitServerInv == ASSUME Init PROVE ServerInv
<1>1. TypeOK /\ MuxInv
  BY InitTypes
<1>2. 0 \in Loops /\ NoFd \notin Fds
  BY <1>1, ServerTypes
<1>3. \A r \in Loops : TasksOf(r) = {} /\ kept[r] = {} /\ handler[r] = {} /\ round[r] = {}
                       /\ pending[r] = <<>> /\ batch[r] = <<>>
  BY ToSetEmpty DEF Init, TasksOf
<1>4. \A c \in Clients : ~Exists(c) /\ fd[c] = NoFd
  BY DEF Init, Exists
<1>5. LifeInv
  BY ToSetEmpty, OnceEmpty DEF Init, LifeInv
<1>6. FdInv
  BY <1>4 DEF FdInv
<1>7. RefInv
  <2>1. \A c \in Clients : ~RefersTo(c)
    BY <1>3 DEF Init, RefersTo
  <2> QED
    BY <1>1, <2>1, Refers DEF RefInv
<1>8. MapInv
  <2> SUFFICES ASSUME NEW r \in Loops, NEW f \in Mapped(r)
               PROVE  f = ListenFd /\ mux[r].map[f] = Listener
    BY DEF MapInv
  <2> DEFINE u == Updated(NewMultiplexer, ListenFd, Listener)
  <2>1. mux[r] = IF r = 0 THEN u ELSE NewMultiplexer
    BY DEF Init
  <2>2. DOMAIN NewMultiplexer.map = {}
    BY DEF NewMultiplexer
  <2>3. DOMAIN u.map = {ListenFd} /\ u.map[ListenFd] = Listener
    BY <2>2 DEF Updated
  <2> QED
    BY <2>1, <2>2, <2>3 DEF Mapped
<1>9. RoundInv
  <2>1. ASSUME NEW r \in Loops
        PROVE  ~ \E c \in Clients : \E st \in Stages : handler[r] = {<<c, st>>}
    BY <1>3
  <2> QED
    BY <1>3, <2>1 DEF RoundInv, RoundOf
<1>10. TaskInv
  BY <1>3, LeadsEmpty, ToSetEmpty DEF TaskInv, Ordered
<1>11. UserInv /\ FreshInv
  BY DEF Init, UserInv, FreshInv, Fresh
<1> QED
  BY <1>1, <1>5, <1>6, <1>7, <1>8, <1>9, <1>10, <1>11 DEF ServerInv

LEMMA NextServerInv == ASSUME ServerInv, [Next]_vars PROVE ServerInv'
<1>1. CASE AcceptStep
  BY <1>1, AcceptKeeps, ListenerKeeps, ConstructKeeps, ListKeeps, EstablishKeeps,
     ReturnKeeps DEF AcceptStep
<1>2. CASE AcceptThrows \/ SetKeepAliveThrows
  BY <1>2, ListenerKeeps
<1>3. ASSUME NEW r \in AllLoops, LoopStep(r)
      PROVE  ServerInv'
  <2>1. r \in Loops
    BY <1>3 DEF LoopStep, Wait, HandleMessage, HandleEof, HandleNoInput,
                ConnectionRemoved, EndHandler, BeginTasks, RunRegister, RunEstablish,
                RunSend, RunClose, UseDestroyed, EndTasks, Enter, TakeTask, Between, Runs
  <2>2. CASE \E c \in Clients : \/ HandleMessage(r, c) \/ HandleEof(r, c)
                                \/ HandleNoInput(r, c) \/ ConnectionRemoved(r, c)
                                \/ EndHandler(r, c)
    BY <2>1, <2>2, HandleMessageKeeps, HandleQuietKeeps, ConnectionRemovedKeeps,
       EndHandlerKeeps
  <2>3. CASE \E c \in Clients : \/ RunRegister(r, c) \/ RunEstablish(r, c)
                                \/ RunSend(r, c) \/ RunClose(r, c)
                                \/ UseDestroyed(r, c)
    BY <2>1, <2>3, RunRegisterKeeps, RunEstablishKeeps, RunSendKeeps, RunCloseKeeps,
       UseDestroyedKeeps
  <2>4. CASE Wait(r) \/ BeginTasks(r) \/ EndTasks(r)
    BY <2>1, <2>4, WaitKeeps, BeginTasksKeeps, EndTasksKeeps
  <2> QED
    BY <1>3, <2>2, <2>3, <2>4 DEF LoopStep
<1>4. ASSUME NEW c \in Clients,
             \/ Connect(c) \/ ClientSends(c) \/ ClientCloses(c)
             \/ \E op \in {"send", "close"} : UserCalls(c, op)
             \/ UserStep(c)
      PROVE  ServerInv'
  BY <1>4, ConnectKeeps, ClientKeeps, UserLooksKeeps, UserQueuesKeeps, UserDropsKeeps
  DEF UserStep
<1>5. CASE UNCHANGED vars
  <2> USE <1>5 DEF vars, kernel, accept, conn, tasks, loop, output, history
  <2>1. Quiet
    BY DEF Quiet
  <2>2. TypeOK'
    BY FixedKept, MuxUndisturbed DEF ServerInv, TypeOK, MuxTypes
  <2>3. LifeInv' /\ RoundInv'
    BY <2>1, LifeUndisturbed, QuietRounds DEF ServerInv
  <2> QED
    BY <2>1, <2>2, <2>3, QuietKeeps
<1> QED
  BY <1>1, <1>2, <1>3, <1>4, <1>5 DEF Next

LEMMA ServerInvHolds == Spec => []ServerInv
<1>1. Init => ServerInv
  BY InitServerInv
<1>2. ServerInv /\ [Next]_vars => ServerInv'
  BY NextServerInv
<1> QED
  BY <1>1, <1>2, PTL DEF Spec

\* Every variable keeps its type, whatever thread does what to a connection; the
\* loops and the descriptors are those of the instance.
THEOREM TypeCorrect == Spec => []TypeOK
<1>1. ServerInv => TypeOK
  BY DEF ServerInv
<1> QED
  BY <1>1, ServerInvHolds, PTL

\* Wait never throws: epoll watches nothing that the map does not know.  And what it
\* watches besides the Acceptor's descriptor is the socket of a connection that
\* exists, even if it was registered again after its removal: the entry that this
\* leaves behind is never found (Multiplexer.cpp:79-92, TcpConnection.cpp:44-77).
THEOREM WaitFindsDispatcherHolds == Spec => []WaitFindsDispatcher
<1>1. ASSUME ServerInv
      PROVE  WaitFindsDispatcher
  <2>1. \A r \in Loops : Consistent(mux[r])
    BY <1>1 DEF ServerInv, MuxInv, IsMultiplexer
  <2>2. \A r \in Loops : \A f \in mux[r].watched \ {ListenFd} :
           Exists(mux[r].map[f]) /\ fd[mux[r].map[f]] = f
    BY <1>1, WatchedFacts
  <2> QED
    BY <2>1, <2>2 DEF WaitFindsDispatcher
<1>2. ServerInv => WaitFindsDispatcher
  BY <1>1
<1> QED
  BY <1>2, ServerInvHolds, PTL

\* The dispatcher of a connection that is gone, or that lives elsewhere or under
\* another descriptor, is in a map only if a send registered it again after
\* ConnectionRemoved had taken it out: nothing else leaves an entry behind, in
\* whatever order the loops, handleNewConn and the users' threads come
\* (Multiplexer.cpp:26-70, TcpServer.cpp:41-46, TcpConnection.cpp:44-52, 67-77).
THEOREM NoDanglingHolds == Spec => []NoDangling
<1>1. ASSUME ServerInv
      PROVE  NoDangling
  <2> SUFFICES ASSUME NEW r \in Loops, NEW f \in DOMAIN mux[r].map \ {ListenFd},
                      mux[r].map[f] \notin late
               PROVE  /\ Exists(mux[r].map[f])
                      /\ fd[mux[r].map[f]] = f /\ io[mux[r].map[f]] = r
    BY DEF NoDangling
  <2>1. GoodEntry(r, f)
    BY <1>1 DEF ServerInv, MapInv, Mapped
  <2>2. PICK c \in Clients : c = mux[r].map[f]
    BY <2>1 DEF GoodEntry
  <2>3. io[c] = r /\ (Exists(c) => fd[c] = f) /\ Held(c)
    BY <2>1, <2>2 DEF GoodEntry
  <2>4. Exists(c)
    BY <1>1, <2>3, HeldExists
  <2> QED
    BY <2>2, <2>3, <2>4
<1>2. ServerInv => NoDangling
  BY <1>1
<1> QED
  BY <1>2, ServerInvHolds, PTL

\* A loop comes upon the address of a connection that is gone only in one of three
\* ways: what is left of HandleReturnEvents after ConnectionRemoved; a connection
\* registered again late; a send or handleClose whose caller has dropped its
\* pointer since.  What it has still to handle, a handler before its
\* ConnectionRemoved, what it is to register or to establish, exists
\* (TcpConnection.cpp:17-22, 63, 86, 156-172, Dispatcher.cpp:11-40,
\* TcpServer.cpp:60-77).
THEOREM NoStaleAddressHolds == Spec => []NoStaleAddress
<1>1. ASSUME ServerInv
      PROVE  NoStaleAddress
  <2>1. TypeOK /\ RefInv
    BY <1>1 DEF ServerInv
  <2> SUFFICES ASSUME NEW r \in Loops
               PROVE  /\ \A c \in round[r] \ ({Listener} \cup late) : Exists(c)
                      /\ \A h \in handler[r] :
                            \/ Exists(h[1])
                            \/ h[2] = "rest" /\ h[1] \in late
                            \/ h[2] = "closing" /\ loopPc[r] = "tasks"
                               /\ user[h[1]] = "dropped"
                            \/ h[2] = "removed"
                      /\ \A t \in ToSet(pending[r] \o batch[r]) :
                            \/ Exists(t[2])
                            \/ t[1] \in {"send", "close"} /\ user[t[2]] = "dropped"
    BY DEF NoStaleAddress
  \* A caller that still keeps its pointer keeps the connection alive.
  <2>2. ASSUME NEW c \in Clients, user[c] \in {"called", "dropped"}
        PROVE  Exists(c) \/ user[c] = "dropped"
    <3>1. user[c] = "called" => RefersTo(c)
      BY DEF RefersTo
    <3> QED
      BY <2>1, <2>2, <3>1, Refers DEF RefInv
  <2>3. ASSUME NEW c \in round[r] \ ({Listener} \cup late)
        PROVE  Exists(c)
    <3>1. GoodRound(r, c)
      BY <1>1, <2>3 DEF ServerInv, RoundInv, RoundOf
    <3> QED
      BY <1>1, <2>3, <3>1, RegisteredFacts DEF GoodRound
  <2>4. ASSUME NEW h \in handler[r]
        PROVE  \/ Exists(h[1])
               \/ h[2] = "rest" /\ h[1] \in late
               \/ h[2] = "closing" /\ loopPc[r] = "tasks" /\ user[h[1]] = "dropped"
               \/ h[2] = "removed"
    <3>1. PICK c \in Clients, st \in Stages : handler[r] = {<<c, st>>}
      BY <1>1, <2>4 DEF ServerInv, RoundInv, RoundOf
    <3>2. h[1] = c /\ h[2] = st
      BY <2>4, <3>1
    <3>3. GoodHandler(r, c, st)
      BY <1>1, <3>1 DEF ServerInv, RoundInv, RoundOf
    <3>4. CASE st = "rest"
      BY <1>1, <3>2, <3>3, <3>4, RegisteredFacts DEF GoodHandler
    <3>5. CASE st = "closing" /\ loopPc[r] = "events"
      BY <1>1, <3>2, <3>3, <3>5, RegisteredFacts DEF GoodHandler
    <3>6. CASE st = "closing" /\ loopPc[r] # "events"
      <4>1. loopPc[r] = "tasks"
        BY <2>1, <3>3, <3>6 DEF GoodHandler, TypeOK
      <4> QED
        BY <2>2, <3>2, <3>3, <3>6, <4>1 DEF GoodHandler
    <3>7. CASE st = "removed"
      BY <3>2, <3>7
    <3> QED
      BY <3>4, <3>5, <3>6, <3>7 DEF Stages
  <2>5. ASSUME NEW t \in ToSet(pending[r] \o batch[r])
        PROVE  \/ Exists(t[2])
               \/ t[1] \in {"send", "close"} /\ user[t[2]] = "dropped"
    <3>1. t \in TasksOf(r)
      BY <2>1, <2>5, ToSetConcat DEF TasksOf, TypeOK
    <3>2. PICK c \in Clients : c = t[2]
      BY <2>1, <3>1, TasksAreTasks
    <3>3. GoodTask(r, t) /\ t = <<t[1], c>>
          /\ t[1] \in {"register", "establish", "send", "close"}
      BY <1>1, <2>1, <3>1, <3>2, TasksAreTasks DEF ServerInv, TaskInv
    <3>4. CASE t[1] = "register"
      BY <1>1, <3>2, <3>3, <3>4, HeldExists DEF GoodTask
    <3>5. CASE t[1] = "establish"
      <4>1. RefersTo(c)
        BY <3>1, <3>3, <3>5 DEF RefersTo
      <4> QED
        BY <2>1, <3>2, <4>1, Refers DEF RefInv
    <3>6. CASE t[1] \in {"send", "close"}
      BY <2>2, <3>2, <3>3, <3>6 DEF GoodTask
    <3> QED
      BY <3>3, <3>4, <3>5, <3>6
  <2> QED
    BY <2>3, <2>4, <2>5
<1>2. ServerInv => NoStaleAddress
  BY <1>1
<1> QED
  BY <1>2, ServerInvHolds, PTL

=============================================================================
