----------------------------- MODULE FilesProofs -----------------------------
(***************************************************************************)
(* Proofs about Files: for every size of the pool, every set of devices,   *)
(* file systems and names, and whatever their drivers implement.           *)
(***************************************************************************)
EXTENDS Files, WellFoundedInduction, SequenceTheorems, TLAPS

-----------------------------------------------------------------------------
(* The invariant.  Marked: which entries the searches of the pool see.     *)
(* Companions: the one descriptor that can share the device of a holder    *)
(* is the one the search for the lock did not look at, so it lies above    *)
(* the holder; none joins it later, and none below it can be granted the   *)
(* same device.  Fresh: the pool before main.                              *)
Flags   == {"APPEND", "NONBLOCK", "EXCL", "DEV"}
Entries == [dev : DevNames \union FsNames \union {None}, mode : Modes, flags : SUBSET Flags]
Pools   == [list : [Fds -> Entries], max : -1 .. MaxFd - 1]

Lists == alt_dev_list \in Seq(DevNames) /\ alt_fs_list \in Seq(FsNames)

Marked(t) ==
  /\ \A f \in Fds : f > 2 /\ t.list[f].dev # None => f <= t.max
  /\ \A f \in Fds : "DEV" \in t.list[f].flags => t.list[f].dev \in DevNames /\ t.max > 2
  /\ \A f \in Fds : t.list[f].dev = None => t.list[f] = Unused
  /\ \A f \in Fds : f <= 2 => t.list[f].dev # None

Companions(t) ==
  \A f \in Fds : "EXCL" \in t.list[f].flags =>
    /\ "DEV" \in t.list[f].flags
    /\ \A g \in Fds : f # g /\ t.list[g].dev = t.list[f].dev => f < g

Fresh(t) ==
  \A f \in Fds : "EXCL" \notin t.list[f].flags /\ (f > 2 => t.list[f].dev = None)

(* No descriptor comes to share the device of one that goes on holding it. *)
Apart(t, u) ==
  \A f, g \in Fds :
     ( /\ f # g /\ "EXCL" \in t.list[f].flags /\ "EXCL" \in u.list[f].flags
       /\ u.list[f].dev = u.list[g].dev )
     => t.list[g].dev = u.list[g].dev

Owners ==
  /\ owned \in [Fds -> [dev : DevNames \union FsNames \union {None}, mode : Modes]]
  /\ booted => \A f \in Fds : /\ owned[f].dev = pool.list[f].dev
                              /\ owned[f].dev # None => owned[f].mode = pool.list[f].mode

IInv ==
  /\ Lists /\ booted \in BOOLEAN /\ pool \in Pools
  /\ Marked(pool) /\ Companions(pool) /\ (~booted => Fresh(pool)) /\ Owners

(* What the proofs use of the assumption.                                  *)
LEMMA PoolSize == /\ MaxFd \in Nat /\ MaxFd > 3 /\ Null # None
                  /\ None \notin DevNames /\ None \notin FsNames
                  /\ \A d \in DevNames : d \notin FsNames
  BY FilesAssumption

USE DEF Fds

(* The invariant holds before any driver has registered.                   *)
LEMMA InitHolds == Init => IInv
<1> SUFFICES ASSUME Init PROVE IInv
  OBVIOUS
<1>1. Unused \in Entries /\ [Unused EXCEPT !.dev = Null] \in Entries
  BY FilesAssumption DEF Unused, Entries, Modes
<1>2. pool \in Pools /\ pool.max = -1
  BY <1>1, PoolSize DEF Init, Pools
<1>3. \A f \in Fds : pool.list[f] = IF f < 3 THEN [Unused EXCEPT !.dev = Null] ELSE Unused
  BY DEF Init
<1>4. Marked(pool) /\ Companions(pool) /\ Fresh(pool)
  <2>1. \A f \in Fds :
                        /\ pool.list[f].flags = {}
                        /\ pool.list[f].dev = (IF f < 3 THEN Null ELSE None)
                        /\ pool.list[f].dev = None => pool.list[f] = Unused
    <3>1. /\ Unused.flags = {} /\ Unused.dev = None
          /\ [Unused EXCEPT !.dev = Null].flags = {} /\ [Unused EXCEPT !.dev = Null].dev = Null
      BY DEF Unused
    <3>2. QED
      BY <1>3, <3>1, PoolSize
  <2>2. Marked(pool)
    BY <2>1, PoolSize DEF Marked
  <2>3. Fresh(pool)
    BY <2>1, PoolSize DEF Fresh
  <2>4. QED
    BY <2>1, <2>2, <2>3 DEF Companions
<1>5. Lists
  BY FilesAssumption DEF Init, Lists
<1>6. Owners
  BY FilesAssumption DEF Init, Owners, NoOwner, Modes
<1>7. QED
  BY <1>2, <1>4, <1>5, <1>6 DEF Init, IInv

-----------------------------------------------------------------------------
(* What the searches find.                                                 *)
LEMMA LeastExists ==
  ASSUME NEW S \in SUBSET Nat, S # {}
  PROVE  \E x \in S : \A y \in S : x <= y
<1>1. PICK x \in S : \A y \in S : ~ (<<y, x>> \in OpToRel(<, Nat))
  BY NatLessThanWellFounded, WFMin
<1>2. \A y \in S : x <= y
  <2>1. SUFFICES ASSUME NEW y \in S, y < x
                 PROVE  FALSE
    OBVIOUS
  <2>2. <<y, x>> \in Nat \X Nat /\ <<y, x>>[1] < <<y, x>>[2]
    BY <2>1
  <2>3. <<y, x>> \in OpToRel(<, Nat)
    BY <2>2, Zenon DEF OpToRel
  <2>4. QED
    BY <1>1, <2>3
<1>3. QED
  BY <1>2

(* What a search of a list finds is in the list.                           *)
LEMMA FirstIsIn ==
  ASSUME NEW S, NEW list \in Seq(S), NEW hits \in SUBSET (DOMAIN list)
  PROVE  First(list, hits) = None \/ First(list, hits) \in S
<1>1. SUFFICES ASSUME hits # {}
               PROVE  First(list, hits) \in S
  BY DEF First
<1>2. hits \subseteq Nat /\ hits \subseteq 1 .. Len(list)
  BY LenProperties
<1>3. (CHOOSE i \in hits : \A j \in hits : i <= j) \in hits
  BY <1>1, <1>2, LeastExists
<1>4. QED
  BY <1>1, <1>2, <1>3, ElementOfSeq DEF First

(* A name leads to a device or, failing that, to a file system.            *)
LEMMA FindsRegistered ==
  ASSUME Lists, NEW name
  PROVE  /\ alt_find_dev(name) = None \/ alt_find_dev(name) \in DevNames
         /\ alt_find_file(name) = None \/ alt_find_file(name) \in FsNames
<1>1. {i \in DOMAIN alt_dev_list : alt_dev_list[i] = name} \in SUBSET (DOMAIN alt_dev_list)
  OBVIOUS
<1>2. {i \in DOMAIN alt_fs_list : IsPrefix(alt_fs_list[i], name)} \in SUBSET (DOMAIN alt_fs_list)
  OBVIOUS
<1>3. QED
  BY <1>1, <1>2, FirstIsIn DEF Lists, alt_find_dev, alt_find_file

(* The descriptor that is found is unused.                                 *)
LEMMA LowestIsUnused ==
  ASSUME NEW t \in Pools
  PROVE  LowestUnused(t) = -1 \/
           (LowestUnused(t) \in Fds /\ t.list[LowestUnused(t)].dev = None)
<1> DEFINE unused == {f \in Fds : t.list[f].dev = None}
<1>1. SUFFICES ASSUME unused # {}
               PROVE  LowestUnused(t) \in unused
  BY DEF LowestUnused
<1>2. unused \in SUBSET Nat
  BY PoolSize DEF Fds
<1>3. (CHOOSE f \in unused : \A g \in unused : f <= g) \in unused
  BY <1>1, <1>2, LeastExists
<1>4. QED
  BY <1>1, <1>3 DEF LowestUnused

-----------------------------------------------------------------------------
(* What the calls do to a pool: its entries and its mark.                  *)
Entry(d, m, fl) == [dev |-> d, mode |-> m, flags |-> fl]

(* A pool with one entry changed, written as a record.                     *)
LEMMA PoolExcept ==
  ASSUME NEW l, NEW mx, NEW f, NEW v
  PROVE  /\ [[list |-> l, max |-> mx] EXCEPT !.list[f] = v] = [list |-> [l EXCEPT ![f] = v], max |-> mx]
         /\ [[list |-> l, max |-> mx] EXCEPT !.list[f].mode = v]
               = [list |-> [l EXCEPT ![f].mode = v], max |-> mx]
         /\ [[list |-> l, max |-> mx] EXCEPT !.list[f].flags = v]
               = [list |-> [l EXCEPT ![f].flags = v], max |-> mx]
<1>1. PICK t \in [list : {l}, max : {mx}] : t = [list |-> l, max |-> mx]
  OBVIOUS
<1>2. QED
  BY <1>1

(* The pool when open has taken f and before it calls the driver.          *)
Takes(t, f, d, m, fl) == [alt_get_fd(t, f, d) EXCEPT !.list[f].mode = m, !.list[f].flags = fl]

(* An entry that is taken, and the pool after it is released again.        *)
LEMMA TakesEntry ==
  ASSUME NEW t \in Pools, NEW f \in Fds, t.list[f] = Unused,
         NEW d \in DevNames \union FsNames, NEW m \in Modes, NEW fl \in SUBSET Flags,
         NEW taken, taken = Takes(t, f, d, m, fl)
  PROVE  /\ taken.list = [t.list EXCEPT ![f] = Entry(d, m, fl)]
         /\ taken \in Pools /\ taken.max >= t.max /\ taken.max >= f
         /\ f > 2 => /\ alt_release_fd(taken, f) \in Pools
                     /\ alt_release_fd(taken, f).list = t.list
                     /\ alt_release_fd(taken, f).max = taken.max
<1> DEFINE l1 == [t.list EXCEPT ![f].dev = d]
           l2 == [t.list EXCEPT ![f] = Entry(d, m, fl)]
           mx == IF f > t.max THEN f ELSE t.max
<1>1. t.list \in [Fds -> Entries] /\ t.max \in -1 .. MaxFd - 1
  BY DEF Pools
<1>2. Entry(d, m, fl) \in Entries /\ l2 \in [Fds -> Entries]
  BY <1>1 DEF Entry, Entries
<1>3. mx \in -1 .. MaxFd - 1 /\ mx >= t.max /\ mx >= f
  BY <1>1, PoolSize
<1>4. l1 \in [Fds -> Entries] /\ l1[f] = Entry(d, "RDONLY", {})
        /\ \A g \in Fds : g # f => l1[g] = t.list[g]
  <2>1. [Unused EXCEPT !.dev = d] = Entry(d, "RDONLY", {})
    <3>1. PICK no \in {None}, ro \in {"RDONLY"}, e \in {{}} :
            Unused = [dev |-> no, mode |-> ro, flags |-> e]
      BY DEF Unused
    <3>2. PICK u \in [dev : {no}, mode : {ro}, flags : {e}] : u = Unused
      BY <3>1
    <3>3. [u EXCEPT !.dev = d] = [dev |-> d, mode |-> u.mode, flags |-> u.flags]
      OBVIOUS
    <3>4. u.mode = "RDONLY" /\ u.flags = {}
      BY <3>1, <3>2
    <3>5. QED
      BY <3>2, <3>3, <3>4 DEF Entry
  <2>2. Entry(d, "RDONLY", {}) \in Entries
    BY DEF Entry, Entries, Modes
  <2>3. l1 = [t.list EXCEPT ![f] = Entry(d, "RDONLY", {})]
    BY <1>1, <2>1
  <2>4. QED
    BY <1>1, <2>2, <2>3
<1>5. taken = [list |-> [[l1 EXCEPT ![f].mode = m] EXCEPT ![f].flags = fl], max |-> mx]
  <2>1. alt_get_fd(t, f, d) = [list |-> l1, max |-> mx]
    BY DEF alt_get_fd
  <2>2. taken = [[[list |-> l1, max |-> mx] EXCEPT !.list[f].mode = m] EXCEPT !.list[f].flags = fl]
    BY <2>1 DEF Takes
  <2> HIDE DEF l1, mx
  <2>3. PICK l : l = [l1 EXCEPT ![f].mode = m]
    OBVIOUS
  <2>4. [[list |-> l1, max |-> mx] EXCEPT !.list[f].mode = m] = [list |-> l, max |-> mx]
    BY <2>3, PoolExcept
  <2>5. [[list |-> l, max |-> mx] EXCEPT !.list[f].flags = fl]
          = [list |-> [l EXCEPT ![f].flags = fl], max |-> mx]
    BY PoolExcept
  <2>6. taken = [[list |-> l, max |-> mx] EXCEPT !.list[f].flags = fl]
    BY <2>2, <2>4, Zenon
  <2>7. QED
    BY <2>3, <2>5, <2>6, Zenon
<1>6. [[l1 EXCEPT ![f].mode = m] EXCEPT ![f].flags = fl] = l2
  <2>1. [l1 EXCEPT ![f].mode = m] = [l1 EXCEPT ![f] = Entry(d, m, {})]
    BY <1>4 DEF Entry
  <2>2. [[l1 EXCEPT ![f].mode = m] EXCEPT ![f].flags = fl]
          = [[l1 EXCEPT ![f] = Entry(d, m, {})] EXCEPT ![f] = Entry(d, m, fl)]
    BY <1>4, <2>1 DEF Entry
  <2>3. QED
    BY <1>1, <1>4, <2>2
<1>7. taken = [list |-> l2, max |-> mx]
  BY <1>5, <1>6
<1>8. taken \in Pools
  BY <1>2, <1>3, <1>7 DEF Pools
<1>9. ASSUME f > 2
      PROVE  alt_release_fd(taken, f) = [list |-> t.list, max |-> mx]
  <2>1. alt_release_fd(taken, f) = [taken EXCEPT !.list[f] = Unused]
    BY <1>9 DEF alt_release_fd
  <2>2. [taken EXCEPT !.list[f] = Unused] = [list |-> [l2 EXCEPT ![f] = Unused], max |-> mx]
    <3> HIDE DEF l2, mx
    <3>1. QED
      BY <1>7, PoolExcept
  <2>3. [l2 EXCEPT ![f] = Unused] = t.list
    BY <1>1
  <2>4. QED
    BY <2>1, <2>2, <2>3
<1>10. [list |-> t.list, max |-> mx] \in Pools
  BY <1>1, <1>3 DEF Pools
<1>11. f > 2 => /\ alt_release_fd(taken, f) \in Pools
                /\ alt_release_fd(taken, f).list = t.list
                /\ alt_release_fd(taken, f).max = mx
  <2> HIDE DEF l1, l2, mx
  <2>1. QED
    BY <1>9, <1>10
<1>12. taken.max = mx
  <2> HIDE DEF l1, l2, mx
  <2>1. QED
    BY <1>7
<1>13. taken.max >= t.max /\ taken.max >= f
  BY <1>3, <1>12
<1>14. QED
  BY <1>7, <1>8, <1>11, <1>12, <1>13

(* open leaves all entries alone, or takes an unused one for a file system *)
(* or for a device that is not locked.                                     *)
Opened(t, u, f, mode) ==
  /\ f \in Fds /\ t.list[f].dev = None /\ f > 2 /\ u.max >= f
  /\ \E d \in DevNames \union FsNames, fl \in SUBSET Flags :
       /\ u.list = [t.list EXCEPT ![f] = Entry(d, mode, fl)]
       /\ "EXCL" \notin fl
       /\ \/ d \in FsNames /\ "DEV" \notin fl
          \/ d \in DevNames /\ ~alt_file_locked(u, f)

(* What open does to the pool, whatever the driver answers.                *)
LEMMA OpenShape ==
  ASSUME Lists, NEW t \in Pools, Marked(t), NEW name,
         NEW mode \in Modes, NEW flags \in SUBSET Flags, NEW opens \in BOOLEAN
  PROVE  LET o == alt_open(t, name, mode, flags, opens)
         IN  /\ o.pool \in Pools /\ o.pool.max >= t.max
             /\ (o.fd = -1 /\ o.pool.list = t.list) \/ Opened(t, o.pool, o.fd, mode)
<1> DEFINE o == alt_open(t, name, mode, flags, opens)
<1>1. PICK isafs \in BOOLEAN : isafs = (alt_find_dev(name) = None)
  OBVIOUS
<1>2. PICK d : d = IF isafs THEN alt_find_file(name) ELSE alt_find_dev(name)
  OBVIOUS
<1>3. PICK f : f = LowestUnused(t)
  OBVIOUS
<1>4. PICK fl : fl = (flags \ ALT_FD_FLAGS_MASK) \union (IF isafs THEN {} ELSE {"DEV"})
  OBVIOUS
<1>5. PICK taken : taken = Takes(t, f, d, mode, fl)
  OBVIOUS
<1>6. o = IF d = None THEN [pool |-> t, fd |-> -1, err |-> "ENODEV"]
          ELSE IF f = -1 THEN [pool |-> t, fd |-> -1, err |-> "EMFILE"]
          ELSE IF ~isafs /\ alt_file_locked(taken, f)
            THEN [pool |-> alt_release_fd(taken, f), fd |-> -1, err |-> "EACCES"]
          ELSE IF "open" \in Functions[d] /\ ~opens
            THEN [pool |-> alt_release_fd(taken, f), fd |-> -1, err |-> "EIO"]
          ELSE [pool |-> taken, fd |-> f, err |-> ""]
  BY <1>1, <1>2, <1>3, <1>4, <1>5 DEF alt_open, Takes
<1> HIDE DEF o
<1>7. t.max \in Int
  BY PoolSize DEF Pools
<1>8. CASE d = None \/ f = -1
  <2>1. o.pool = t /\ o.fd = -1
    BY <1>6, <1>8
  <2>2. QED
    BY <1>7, <2>1 DEF o
<1>9. CASE d # None /\ f # -1
  <2>1. f \in Fds /\ t.list[f].dev = None
    BY <1>3, <1>9, LowestIsUnused
  <2>2. t.list[f] = Unused /\ f > 2
    BY <2>1, PoolSize DEF Marked
  <2>3. (isafs /\ d \in FsNames) \/ (~isafs /\ d \in DevNames)
    BY <1>1, <1>2, <1>9, FindsRegistered
  <2>4. fl \in SUBSET Flags /\ "EXCL" \notin fl /\ (isafs => "DEV" \notin fl)
    BY <1>4 DEF ALT_FD_FLAGS_MASK, Flags
  <2>5. /\ taken.list = [t.list EXCEPT ![f] = Entry(d, mode, fl)]
        /\ taken \in Pools /\ taken.max >= t.max /\ taken.max >= f
        /\ alt_release_fd(taken, f) \in Pools
        /\ alt_release_fd(taken, f).list = t.list
        /\ alt_release_fd(taken, f).max = taken.max
    <3>1. d \in DevNames \union FsNames
      BY <2>3
    <3> HIDE DEF Fds
    <3>2. QED
      BY <1>5, <2>1, <2>2, <2>4, <3>1, TakesEntry
  <2>6. \/ o.fd = -1 /\ o.pool = alt_release_fd(taken, f)
        \/ o.fd = f /\ o.pool = taken /\ ~(~isafs /\ alt_file_locked(taken, f))
    BY <1>6, <1>9
  <2>7. CASE o.fd = -1 /\ o.pool = alt_release_fd(taken, f)
    BY <2>5, <2>7 DEF o
  <2>8. CASE o.fd = f /\ o.pool = taken /\ ~(~isafs /\ alt_file_locked(taken, f))
    <3>1. taken.list = [t.list EXCEPT ![f] = Entry(d, mode, fl)]
      BY <2>5
    <3>2. Opened(t, taken, f, mode)
      BY <2>1, <2>2, <2>3, <2>4, <2>5, <2>8, <3>1 DEF Opened
    <3>3. QED
      BY <2>5, <2>8, <3>2 DEF o
  <2>9. QED
    BY <2>6, <2>7, <2>8
<1>10. QED
  BY <1>8, <1>9

(* An entry taken is marked, and no holder gets a companion by it.         *)
LEMMA OpenKeeps ==
  ASSUME NEW t \in Pools, NEW u \in Pools, u.max >= t.max, NEW f, NEW mode,
         Marked(t), u.list = t.list \/ Opened(t, u, f, mode)
  PROVE  /\ Marked(u)
         /\ Companions(t) => Companions(u) /\ Apart(t, u)
<1>1. /\ t.max \in Int /\ u.max \in Int /\ t.max >= -1
      /\ t.list \in [Fds -> Entries] /\ u.list \in [Fds -> Entries]
  BY PoolSize DEF Pools
<1>2. CASE u.list = t.list
  <2>1. Marked(u)
    BY <1>1, <1>2, PoolSize DEF Marked
  <2>2. QED
    BY <1>2, <2>1 DEF Companions, Apart
<1>3. CASE Opened(t, u, f, mode)
  <2>1. f \in Fds /\ t.list[f].dev = None /\ f > 2 /\ u.max >= f
    BY <1>3 DEF Opened
  <2>2. PICK d \in DevNames \union FsNames, fl \in SUBSET Flags :
          /\ u.list = [t.list EXCEPT ![f] = Entry(d, mode, fl)]
          /\ "EXCL" \notin fl
          /\ \/ d \in FsNames /\ "DEV" \notin fl
             \/ d \in DevNames /\ ~alt_file_locked(u, f)
    BY <1>3 DEF Opened
  <2>3. /\ u.list[f].dev = d /\ u.list[f].flags = fl
        /\ \A g \in Fds : g # f => u.list[g] = t.list[g]
    <3>1. u.list[f] = Entry(d, mode, fl) /\ \A g \in Fds : g # f => u.list[g] = t.list[g]
      BY <1>1, <2>1, <2>2
    <3>2. QED
      BY <3>1 DEF Entry
  <2>4. d # None
    BY PoolSize
  <2>5. Marked(u)
    BY <1>1, <2>1, <2>2, <2>3, <2>4, PoolSize DEF Marked
  <2>6. ASSUME Companions(t), NEW h \in Fds, "EXCL" \in u.list[h].flags
        PROVE  /\ "DEV" \in u.list[h].flags
               /\ \A g \in Fds : h # g /\ u.list[g].dev = u.list[h].dev => h < g
               /\ u.list[f].dev # u.list[h].dev
    <3>1. h # f /\ u.list[h] = t.list[h]
      BY <2>2, <2>3, <2>6
    <3>2. /\ "DEV" \in t.list[h].flags
          /\ \A g \in Fds : h # g /\ t.list[g].dev = t.list[h].dev => h < g
      BY <2>6, <3>1 DEF Companions
    <3>3. u.list[f].dev # u.list[h].dev
      <4>1. t.list[h].dev \in DevNames /\ t.max > 2 /\ t.list[h].dev # None
        BY <3>2, PoolSize DEF Marked
      <4>2. h \in 0 .. u.max
        BY <1>1, <4>1, PoolSize DEF Marked
      <4>3. alt_file_locked(u, f) \/ u.list[h].dev # u.list[f].dev
        BY <2>6, <3>1, <4>2 DEF alt_file_locked
      <4>4. QED
        BY <2>2, <2>3, <3>1, <4>1, <4>3, PoolSize
    <3>4. QED
      BY <2>3, <3>1, <3>2, <3>3
  <2>7. Companions(t) => Companions(u)
    BY <2>6 DEF Companions
  <2>8. Companions(t) => Apart(t, u)
    BY <2>3, <2>6 DEF Apart
  <2>9. QED
    BY <2>5, <2>7, <2>8
<1>4. QED
  BY <1>2, <1>3

(* A pool with the flags of one entry changed.                             *)
WithFlags(t, f, fl) == [list |-> [t.list EXCEPT ![f].flags = fl], max |-> t.max]

FlagsMoved(t, u, f, fl) ==
  /\ u \in Pools /\ u.max = t.max
  /\ u.list = [t.list EXCEPT ![f].flags = fl]
  /\ \A g \in Fds : u.list[g].dev = t.list[g].dev /\ u.list[g].mode = t.list[g].mode

(* A change of flags leaves the pool a pool, its devices and modes alone.  *)
LEMMA FlagsShape ==
  ASSUME NEW t \in Pools, NEW f \in Fds, NEW fl \in SUBSET Flags
  PROVE  FlagsMoved(t, WithFlags(t, f, fl), f, fl)
<1>. DEFINE u == WithFlags(t, f, fl)
<1>1. t.list \in [Fds -> Entries] /\ t.max \in -1 .. MaxFd - 1
  BY DEF Pools
<1>2. PICK l : l = [t.list EXCEPT ![f].flags = fl]
  OBVIOUS
<1>3. l \in [Fds -> Entries]
  BY <1>1, <1>2 DEF Entries
<1>4. \A g \in Fds : l[g].dev = t.list[g].dev /\ l[g].mode = t.list[g].mode
  BY <1>1, <1>2 DEF Entries
<1>5. u = [list |-> l, max |-> t.max]
  BY <1>2 DEF WithFlags
<1>6. u \in Pools /\ u.list = l /\ u.max = t.max
  BY <1>1, <1>3, <1>5 DEF Pools
<1>7. QED
  BY <1>2, <1>4, <1>6 DEF FlagsMoved

(* An entry whose device and mode stay and whose lock and kind stay or     *)
(* whose lock goes.                                                        *)
LEMMA FlagsKeep ==
  ASSUME NEW t \in Pools, NEW u \in Pools, NEW f \in Fds, NEW fl,
         Marked(t), Companions(t), t.list[f].dev # None,
         u.max = t.max, u.list = [t.list EXCEPT ![f].flags = fl],
         "DEV" \in fl <=> "DEV" \in t.list[f].flags,
         "EXCL" \in fl => "EXCL" \in t.list[f].flags
  PROVE  Marked(u) /\ Companions(u)
<1>1. t.list \in [Fds -> Entries]
  BY DEF Pools
<1>2. /\ u.list[f].dev = t.list[f].dev /\ u.list[f].flags = fl
      /\ \A g \in Fds : g # f => u.list[g] = t.list[g]
  BY <1>1 DEF Entries
<1>3. \A g \in Fds : u.list[g].dev = t.list[g].dev
  BY <1>2
<1>4. \A g \in Fds : /\ "EXCL" \in u.list[g].flags => "EXCL" \in t.list[g].flags
                     /\ "DEV" \in u.list[g].flags <=> "DEV" \in t.list[g].flags
  BY <1>2
<1>5. Companions(u)
  BY <1>3, <1>4 DEF Companions
<1>6. Marked(u)
  BY <1>2, <1>3, <1>4, PoolSize DEF Marked
<1>7. QED
  BY <1>5, <1>6

(* The search for the lock stops below the mark: what it leaves out lies   *)
(* above the descriptor that gets the lock.                                *)
LEMMA LockKeeps ==
  ASSUME NEW t \in Pools, NEW u \in Pools, NEW f \in Fds,
         Marked(t), Companions(t), "DEV" \in t.list[f].flags,
         u.max = t.max, u.list = [t.list EXCEPT ![f].flags = t.list[f].flags \union {"EXCL"}],
         \A i \in 0 .. t.max - 1 : i # f => t.list[i].dev # t.list[f].dev
  PROVE  Marked(u) /\ Companions(u)
<1>1. t.list \in [Fds -> Entries] /\ t.max \in -1 .. MaxFd - 1 /\ t.max \in Int
  BY PoolSize DEF Pools
<1>2. /\ u.list[f].dev = t.list[f].dev /\ u.list[f].flags = t.list[f].flags \union {"EXCL"}
      /\ \A g \in Fds : g # f => u.list[g] = t.list[g]
  BY <1>1 DEF Entries
<1>3. \A g \in Fds : u.list[g].dev = t.list[g].dev
  BY <1>2
<1>4. \A g \in Fds : "DEV" \in u.list[g].flags <=> "DEV" \in t.list[g].flags
  BY <1>2
<1>5. t.max > 2 /\ t.list[f].dev \in DevNames /\ t.list[f].dev # None
  BY PoolSize DEF Marked
<1>6. Marked(u)
  BY <1>2, <1>3, <1>4, <1>5, PoolSize DEF Marked
<1>7. \A g \in Fds : g # f /\ t.list[g].dev = t.list[f].dev => f < g
  <2>1. SUFFICES ASSUME NEW g \in Fds, g # f, t.list[g].dev = t.list[f].dev
                 PROVE  f < g
    OBVIOUS
  <2>2. g \notin 0 .. t.max - 1
    BY <2>1
  <2>3. g >= t.max
    BY <1>1, <2>1, <2>2, PoolSize
  <2>4. f <= t.max
    BY <1>1, <1>5, PoolSize DEF Marked
  <2>5. QED
    BY <1>1, <2>1, <2>3, <2>4, PoolSize
<1>8. ASSUME NEW h \in Fds, "EXCL" \in u.list[h].flags
      PROVE  /\ "DEV" \in u.list[h].flags
             /\ \A g \in Fds : h # g /\ u.list[g].dev = u.list[h].dev => h < g
  <2>1. CASE h = f
    BY <1>3, <1>4, <1>7, <2>1
  <2>2. CASE h # f
    BY <1>2, <1>3, <1>4, <1>8, <2>2 DEF Companions
  <2>3. QED
    BY <2>1, <2>2
<1>9. QED
  BY <1>6, <1>8 DEF Companions

(* A close clears one entry, or none of the standard streams.              *)
LEMMA ReleaseKeeps ==
  ASSUME NEW t \in Pools, NEW f \in Fds, Marked(t), Companions(t)
  PROVE  LET u == alt_release_fd(t, f)
         IN  /\ u \in Pools /\ Marked(u) /\ Companions(u)
             /\ u.list = IF f > 2 THEN [t.list EXCEPT ![f] = Unused] ELSE t.list
<1>1. CASE ~(f > 2)
  BY <1>1 DEF alt_release_fd
<1>2. CASE f > 2
  <2>1. t.list \in [Fds -> Entries] /\ t.max \in -1 .. MaxFd - 1
        /\ t = [list |-> t.list, max |-> t.max]
    BY DEF Pools
  <2>2. PICK u : u = alt_release_fd(t, f)
    OBVIOUS
  <2>3. u = [list |-> [t.list EXCEPT ![f] = Unused], max |-> t.max]
    BY <1>2, <2>1, <2>2, PoolExcept DEF alt_release_fd
  <2>4. Unused \in Entries
    BY DEF Unused, Entries, Modes
  <2>5. u \in Pools /\ u.max = t.max /\ u.list = [t.list EXCEPT ![f] = Unused]
    BY <2>1, <2>3, <2>4 DEF Pools
  <2>6. /\ u.list[f] = Unused /\ Unused.dev = None /\ Unused.flags = {}
        /\ \A g \in Fds : g # f => u.list[g] = t.list[g]
    BY <2>1, <2>5 DEF Unused
  <2>7. Marked(u)
    BY <1>2, <2>5, <2>6, PoolSize DEF Marked
  <2>8. \A h \in Fds : "EXCL" \in t.list[h].flags => t.list[h].dev # None
    BY PoolSize DEF Companions, Marked
  <2>9. Companions(u)
    BY <2>6, <2>8 DEF Companions
  <2>10. QED
    BY <1>2, <2>2, <2>5, <2>7, <2>9
<1>3. QED
  BY <1>1, <1>2

-----------------------------------------------------------------------------
(* The redirection of the standard streams: before main there is no lock,  *)
(* and the entries it takes for a moment are given back.                   *)
LEMMA RedirectKeeps ==
  ASSUME Lists, NEW t \in Pools, Marked(t), Fresh(t), NEW f \in {0, 1, 2}, NEW name,
         NEW mode \in Modes, NEW opens \in BOOLEAN
  PROVE  LET u == alt_open_fd(t, f, name, mode, opens)
         IN  /\ u \in Pools /\ Marked(u) /\ Fresh(u)
             /\ u.list[f] = t.list[f] \/ u.list[f].mode = mode
             /\ \A g \in {0, 1, 2} : g # f => u.list[g] = t.list[g]
<1>1. PICK o : o = alt_open(t, name, mode, {}, opens)
  OBVIOUS
<1>2. {} \in SUBSET Flags
  OBVIOUS
<1>3. /\ o.pool \in Pools /\ o.pool.max >= t.max
      /\ (o.fd = -1 /\ o.pool.list = t.list) \/ Opened(t, o.pool, o.fd, mode)
  BY <1>1, <1>2, OpenShape
<1>4. CASE o.fd = -1
  BY <1>1, <1>4 DEF alt_open_fd
<1>5. CASE o.fd # -1
  <2>1. PICK k : k = o.fd
    OBVIOUS
  <2>2. Opened(t, o.pool, k, mode) /\ k \in Fds /\ k > 2 /\ t.list[k].dev = None /\ o.pool.max >= k
    BY <1>3, <1>5, <2>1 DEF Opened
  <2>3. PICK d \in DevNames \union FsNames, fl \in SUBSET Flags :
          /\ o.pool.list = [t.list EXCEPT ![k] = Entry(d, mode, fl)]
          /\ "EXCL" \notin fl
          /\ (d \in FsNames /\ "DEV" \notin fl) \/ d \in DevNames
    BY <2>2 DEF Opened
  <2>4. PICK mx : mx = o.pool.max
    OBVIOUS
  <2>5. PICK l : l = o.pool.list
    OBVIOUS
  <2>6. /\ t.list \in [Fds -> Entries] /\ t.max \in -1 .. MaxFd - 1
        /\ o.pool = [list |-> l, max |-> mx] /\ mx \in -1 .. MaxFd - 1
        /\ l \in [Fds -> Entries] /\ mx >= t.max
    BY <1>3, <2>4, <2>5 DEF Pools
  <2>7. f \in Fds /\ f # k /\ ~(f > 2)
    BY <2>2, PoolSize
  <2>8. l[k] = Entry(d, mode, fl) /\ \A g \in Fds : g # k => l[g] = t.list[g]
    BY <2>2, <2>3, <2>5, <2>6
  <2>9. PICK u : u = alt_open_fd(t, f, name, mode, opens)
    OBVIOUS
  <2>10. u = [list |-> [[l EXCEPT ![f] = l[k]] EXCEPT ![k] = Unused], max |-> mx]
    <3>1. u = alt_release_fd([o.pool EXCEPT !.list[f] = o.pool.list[k]], k)
      BY <1>1, <1>5, <2>1, <2>9 DEF alt_open_fd
    <3>2. [o.pool EXCEPT !.list[f] = o.pool.list[k]] = [list |-> [l EXCEPT ![f] = l[k]], max |-> mx]
      BY <2>5, <2>6, PoolExcept
    <3>3. PICK m : m = [l EXCEPT ![f] = l[k]]
      OBVIOUS
    <3>4. u = [[list |-> m, max |-> mx] EXCEPT !.list[k] = Unused]
      BY <2>2, <3>1, <3>2, <3>3 DEF alt_release_fd
    <3>5. QED
      BY <3>3, <3>4, PoolExcept
  <2>11. t.list[k] = Unused /\ Unused \in Entries
    BY <2>2 DEF Marked, Unused, Entries, Modes
  <2>12. /\ u.list \in [Fds -> Entries] /\ u.max = mx /\ u \in Pools
         /\ u.list[f] = Entry(d, mode, fl)
         /\ \A g \in Fds : g # f => u.list[g] = t.list[g]
    <3>1. [[l EXCEPT ![f] = l[k]] EXCEPT ![k] = Unused] \in [Fds -> Entries]
      BY <2>2, <2>6, <2>7, <2>11
    <3>2. u.list = [[l EXCEPT ![f] = l[k]] EXCEPT ![k] = Unused] /\ u.max = mx
      BY <2>10
    <3>3. u \in Pools
      BY <2>6, <2>10, <3>1 DEF Pools
    <3>4. u.list[f] = l[k] /\ \A g \in Fds : g # f /\ g # k => u.list[g] = l[g]
      BY <2>2, <2>6, <2>7, <3>2
    <3>5. u.list[k] = Unused
      BY <2>2, <2>6, <3>2
    <3>6. QED
      BY <2>8, <2>11, <3>1, <3>2, <3>3, <3>4, <3>5
  <2>13. /\ u.list[f].dev = d /\ u.list[f].flags = fl /\ d # None
         /\ u.max > 2 /\ u.max >= t.max /\ u.max \in Int /\ t.max \in Int
    BY <2>2, <2>4, <2>6, <2>12, PoolSize DEF Entry
  <2>14. Marked(u)
    <3>1. "DEV" \in fl => d \in DevNames
      BY <2>3
    <3>2. \A g \in Fds : g > 2 => g # f
      BY <2>7
    <3>3. \A g \in Fds : g > 2 /\ u.list[g].dev # None => g <= u.max
      BY <2>12, <2>13, <3>2, PoolSize DEF Marked
    <3>4. \A g \in Fds : "DEV" \in u.list[g].flags => u.list[g].dev \in DevNames
      BY <2>12, <2>13, <3>1 DEF Marked
    <3>5. \A g \in Fds : /\ u.list[g].dev = None => u.list[g] = Unused
                         /\ g <= 2 => u.list[g].dev # None
      BY <2>12, <2>13 DEF Marked
    <3>6. QED
      BY <2>13, <3>3, <3>4, <3>5 DEF Marked
  <2>15. Fresh(u)
    BY <2>3, <2>7, <2>12, <2>13, PoolSize DEF Fresh
  <2>16. u.list[f].mode = mode /\ \A g \in {0, 1, 2} : g # f => u.list[g] = t.list[g]
    BY <2>12, PoolSize DEF Entry
  <2>17. QED
    BY <2>9, <2>12, <2>14, <2>15, <2>16
<1>6. QED
  BY <1>4, <1>5

(* The access mode a standard stream is redirected with.                   *)
StreamMode(f) == IF f = 0 THEN "RDONLY" ELSE "WRONLY"

(* The redirection of the three streams leaves the pool fresh, and each    *)
(* stream as it was or with its own mode.                                  *)
LEMMA BootKeeps ==
  ASSUME Lists, NEW t \in Pools, Marked(t), Fresh(t), NEW opens \in [{0, 1, 2} -> BOOLEAN]
  PROVE  LET u == alt_io_redirect(t, opens)
         IN  /\ u \in Pools /\ Marked(u) /\ Companions(u) /\ Fresh(u)
             /\ \A f \in {0, 1, 2} : u.list[f] = t.list[f] \/ u.list[f].mode = StreamMode(f)
<1>1. opens[0] \in BOOLEAN /\ opens[1] \in BOOLEAN /\ opens[2] \in BOOLEAN
  OBVIOUS
<1>2. "RDONLY" \in Modes /\ "WRONLY" \in Modes
  BY DEF Modes
<1>3. PICK t1 : t1 = alt_open_fd(t, 1, Std[1], "WRONLY", opens[1])
  OBVIOUS
<1>4. /\ t1 \in Pools /\ Marked(t1) /\ Fresh(t1)
      /\ t1.list[1] = t.list[1] \/ t1.list[1].mode = "WRONLY"
      /\ t1.list[0] = t.list[0] /\ t1.list[2] = t.list[2]
  BY <1>1, <1>2, <1>3, RedirectKeeps
<1>5. PICK t0 : t0 = alt_open_fd(t1, 0, Std[0], "RDONLY", opens[0])
  OBVIOUS
<1>6. /\ t0 \in Pools /\ Marked(t0) /\ Fresh(t0)
      /\ t0.list[0] = t1.list[0] \/ t0.list[0].mode = "RDONLY"
      /\ t0.list[1] = t1.list[1] /\ t0.list[2] = t1.list[2]
  BY <1>1, <1>2, <1>4, <1>5, RedirectKeeps
<1>7. PICK u : u = alt_open_fd(t0, 2, Std[2], "WRONLY", opens[2])
  OBVIOUS
<1>8. /\ u \in Pools /\ Marked(u) /\ Fresh(u)
      /\ u.list[2] = t0.list[2] \/ u.list[2].mode = "WRONLY"
      /\ u.list[0] = t0.list[0] /\ u.list[1] = t0.list[1]
  BY <1>1, <1>2, <1>6, <1>7, RedirectKeeps
<1>9. u = alt_io_redirect(t, opens)
  BY <1>3, <1>5, <1>7 DEF alt_io_redirect
<1>10. Companions(u)
  BY <1>8 DEF Companions, Fresh
<1>11. \A f \in {0, 1, 2} : u.list[f] = t.list[f] \/ u.list[f].mode = StreamMode(f)
  BY <1>4, <1>6, <1>8 DEF StreamMode
<1>12. QED
  BY <1>8, <1>9, <1>10, <1>11

-----------------------------------------------------------------------------
(* The steps.                                                              *)
LEMMA StepKeeps ==
  ASSUME IInv, [Next]_vars
  PROVE  IInv' /\ Apart(pool, pool')
<1>1. Lists /\ pool \in Pools /\ Marked(pool) /\ Companions(pool) /\ Owners /\ booted \in BOOLEAN
  BY DEF IInv
<1>2. CASE Register \/ Mount
  <2>1. UNCHANGED <<booted, pool, owned>>
    BY <1>2 DEF Register, Mount, alt_dev_reg, alt_fs_reg
  <2>2. Lists'
    <3>1. CASE Register
      <4>1. PICK d \in DevNames \union {None} :
              alt_dev_list' = alt_dev_llist_insert(d, alt_dev_list) /\ alt_fs_list' = alt_fs_list
        BY <3>1 DEF Register, alt_dev_reg
      <4>2. CASE d = None
        BY <1>1, <4>1, <4>2 DEF Lists, alt_dev_llist_insert
      <4>3. CASE d # None
        <5>1. d \in DevNames /\ <<d>> \in Seq(DevNames)
          BY <4>3
        <5>2. QED
          BY <1>1, <4>1, <4>3, <5>1, ConcatProperties DEF Lists, alt_dev_llist_insert
      <4>4. QED
        BY <4>2, <4>3
    <3>2. CASE Mount
      <4>1. PICK d \in FsNames :
              alt_fs_list' = alt_dev_llist_insert(d, alt_fs_list) /\ alt_dev_list' = alt_dev_list
        BY <3>2 DEF Mount, alt_fs_reg
      <4>2. d # None /\ <<d>> \in Seq(FsNames)
        BY PoolSize
      <4>3. QED
        BY <1>1, <4>1, <4>2, ConcatProperties DEF Lists, alt_dev_llist_insert
    <3>3. QED
      BY <1>2, <3>1, <3>2
  <2>3. QED
    BY <1>1, <2>1, <2>2 DEF IInv, Owners, Apart
<1>3. CASE Start
  <2>1. PICK opens \in [{0, 1, 2} -> BOOLEAN] : Boot(opens)
    BY <1>3 DEF Start
  <2>2. pool' \in Pools /\ Marked(pool') /\ Companions(pool') /\ Fresh(pool')
    BY <1>1, <2>1, BootKeeps DEF Boot, IInv
  <2>3. Owners'
    <3>1. pool'.list \in [Fds -> Entries]
      BY <2>2 DEF Pools
    <3>2. owned' = [f \in Fds |-> IF f < 3 THEN [dev |-> pool'.list[f].dev,
                                                mode |-> pool'.list[f].mode] ELSE NoOwner]
      BY <2>1 DEF Boot
    <3>3. owned' \in [Fds -> [dev : DevNames \union FsNames \union {None}, mode : Modes]]
      BY <3>1, <3>2 DEF Entries, NoOwner, Modes
    <3>4. ASSUME NEW f \in Fds
          PROVE  /\ owned'[f].dev = pool'.list[f].dev
                 /\ owned'[f].dev # None => owned'[f].mode = pool'.list[f].mode
      <4>1. CASE f < 3
        BY <3>2, <4>1
      <4>2. CASE ~(f < 3)
        <5>1. f > 2 /\ owned'[f] = NoOwner
          BY <3>2, <4>2, PoolSize
        <5>2. QED
          BY <2>2, <5>1 DEF Fresh, NoOwner
      <4>3. QED
        BY <4>1, <4>2
    <3>5. QED
      BY <3>3, <3>4 DEF Owners
  <2>4. Lists' /\ booted' = TRUE
    BY <1>1, <2>1 DEF Boot, Lists
  <2>5. Apart(pool, pool')
    BY <2>1 DEF Boot, IInv, Fresh, Apart
  <2>6. QED
    BY <2>2, <2>3, <2>4, <2>5 DEF IInv
<1>4. CASE Open
  <2>1. PICK n \in Names, m \in AskedModes, fl \in AskedFlags, ok \in BOOLEAN : open(n, m, fl, ok)
    BY <1>4 DEF Open
  <2>2. m \in Modes /\ fl \in SUBSET Flags
    BY FilesAssumption DEF Flags
  <2>3. PICK o : o = alt_open(pool, n, m, fl, ok)
    OBVIOUS
  <2>4. /\ o.pool \in Pools /\ o.pool.max >= pool.max
        /\ (o.fd = -1 /\ o.pool.list = pool.list) \/ Opened(pool, o.pool, o.fd, m)
    BY <1>1, <2>2, <2>3, OpenShape
  <2>5. Marked(o.pool) /\ Companions(o.pool) /\ Apart(pool, o.pool)
    BY <1>1, <2>4, OpenKeeps
  <2>6. /\ booted /\ booted' = booted /\ pool' = o.pool
        /\ UNCHANGED <<alt_dev_list, alt_fs_list>>
        /\ owned' = IF o.fd = -1 THEN owned
                     ELSE [owned EXCEPT ![o.fd] = [dev |-> o.pool.list[o.fd].dev, mode |-> m]]
    BY <2>1, <2>3 DEF open
  <2>7. Owners'
    <3>1. CASE o.fd = -1
      <4>1. pool'.list = pool.list /\ owned' = owned
        <5>1. ~Opened(pool, o.pool, o.fd, m)
          BY <3>1, PoolSize DEF Opened
        <5>2. QED
          BY <2>4, <2>6, <3>1, <5>1
      <4>2. QED
        BY <1>1, <2>6, <4>1 DEF Owners
    <3>2. CASE o.fd # -1
      <4>1. PICK k : k = o.fd
        OBVIOUS
      <4>2. k \in Fds
        BY <2>4, <3>2, <4>1 DEF Opened
      <4>3. PICK d \in DevNames \union FsNames, fl2 \in SUBSET Flags :
              o.pool.list = [pool.list EXCEPT ![k] = Entry(d, m, fl2)]
        BY <2>4, <3>2, <4>1 DEF Opened
      <4>4. pool.list \in [Fds -> Entries]
        BY <1>1 DEF Pools
      <4>5. /\ pool'.list[k] = Entry(d, m, fl2)
            /\ \A g \in Fds : g # k => pool'.list[g] = pool.list[g]
        BY <2>6, <4>2, <4>3, <4>4
      <4>6. pool'.list[k].dev = d /\ pool'.list[k].mode = m
        BY <4>5 DEF Entry
      <4>7. owned' = [owned EXCEPT ![k] = [dev |-> d, mode |-> m]]
        BY <2>6, <3>2, <4>1, <4>6
      <4>8. owned' \in [Fds -> [dev : DevNames \union FsNames \union {None}, mode : Modes]]
        BY <1>1, <2>2, <4>2, <4>7 DEF Owners
      <4>9. owned'[k].dev = d /\ owned'[k].mode = m /\ \A g \in Fds : g # k => owned'[g] = owned[g]
        BY <1>1, <4>2, <4>7 DEF Owners
      <4>10. \A g \in Fds : /\ owned[g].dev = pool.list[g].dev
                            /\ owned[g].dev # None => owned[g].mode = pool.list[g].mode
        BY <1>1, <2>6 DEF Owners
      <4>11. \A g \in Fds : /\ owned'[g].dev = pool'.list[g].dev
                            /\ owned'[g].dev # None => owned'[g].mode = pool'.list[g].mode
        BY <4>5, <4>6, <4>9, <4>10
      <4>12. QED
        BY <4>8, <4>11 DEF Owners
    <3>3. QED
      BY <3>1, <3>2
  <2>8. QED
    BY <1>1, <2>4, <2>5, <2>6, <2>7 DEF IInv, Lists
<1>5. CASE Close
  <2>1. PICK f \in Fds : close(f)
    BY <1>5 DEF Close
  <2>2. PICK u : u = alt_release_fd(pool, f)
    OBVIOUS
  <2>3. /\ u \in Pools /\ Marked(u) /\ Companions(u)
        /\ u.list = IF f > 2 THEN [pool.list EXCEPT ![f] = Unused] ELSE pool.list
    BY <1>1, <2>2, ReleaseKeeps
  <2>4. /\ booted /\ booted' = booted /\ pool' = u
        /\ UNCHANGED <<alt_dev_list, alt_fs_list>>
        /\ owned' = IF f > 2 THEN [owned EXCEPT ![f] = NoOwner] ELSE owned
    BY <2>1, <2>2 DEF close
  <2>5. Owners'
    <3>1. CASE f > 2
      <4>1. pool.list \in [Fds -> Entries]
        BY <1>1 DEF Pools
      <4>2. pool'.list[f] = Unused /\ \A g \in Fds : g # f => pool'.list[g] = pool.list[g]
        BY <2>3, <2>4, <3>1, <4>1
      <4>3. owned' = [owned EXCEPT ![f] = NoOwner] /\ NoOwner.dev = None /\ Unused.dev = None
            /\ NoOwner \in [dev : DevNames \union FsNames \union {None}, mode : Modes]
        BY <2>4, <3>1 DEF NoOwner, Unused, Modes
      <4>4. QED
        BY <1>1, <2>4, <4>2, <4>3 DEF Owners
    <3>2. CASE ~(f > 2)
      BY <1>1, <2>3, <2>4, <3>2 DEF Owners
    <3>3. QED
      BY <3>1, <3>2
  <2>6. Apart(pool, pool')
    <3>1. CASE f > 2
      <4>1. pool.list \in [Fds -> Entries]
        BY <1>1 DEF Pools
      <4>2. pool'.list[f] = Unused /\ \A g \in Fds : g # f => pool'.list[g] = pool.list[g]
        BY <2>3, <2>4, <3>1, <4>1
      <4>3. Unused.dev = None /\ Unused.flags = {}
        BY DEF Unused
      <4>4. \A g \in Fds : "EXCL" \in pool.list[g].flags => pool.list[g].dev # None
        BY <1>1, PoolSize DEF Companions, Marked
      <4>5. QED
        BY <4>2, <4>3, <4>4 DEF Apart
    <3>2. CASE ~(f > 2)
      BY <2>3, <2>4, <3>2 DEF Apart
    <3>3. QED
      BY <3>1, <3>2
  <2>7. QED
    BY <1>1, <2>3, <2>4, <2>5, <2>6 DEF IInv, Lists
<1>6. CASE Ioctl
  <2>1. PICK f \in Fds, req \in {"TIOCEXCL", "TIOCNXCL"} : ioctl(f, req)
    BY <1>6 DEF Ioctl
  <2>2. /\ booted /\ booted' = booted /\ "DEV" \in pool.list[f].flags
        /\ UNCHANGED <<alt_dev_list, alt_fs_list, owned>>
        /\ \/ pool' = alt_fd_lock(pool, f).pool
           \/ pool' = alt_fd_unlock(pool, f)
    BY <2>1 DEF ioctl
  <2>3. /\ pool.list \in [Fds -> Entries]
        /\ pool = [list |-> pool.list, max |-> pool.max]
    BY <1>1 DEF Pools
  <2>4. pool.list[f].flags \in SUBSET Flags /\ pool.list[f].dev # None
    BY <1>1, <2>2, <2>3, PoolSize DEF Entries, Marked
  <2>5. CASE pool' = alt_fd_lock(pool, f).pool
    <3>1. CASE \E i \in 0 .. pool.max - 1 : i # f /\ pool.list[i].dev = pool.list[f].dev
      <4>1. pool' = pool
        BY <2>5, <3>1 DEF alt_fd_lock
      <4>2. QED
        BY <1>1, <2>2, <4>1 DEF IInv, Lists, Owners, Apart
    <3>2. CASE ~(\E i \in 0 .. pool.max - 1 : i # f /\ pool.list[i].dev = pool.list[f].dev)
      <4>1. PICK fl : fl = pool.list[f].flags \union {"EXCL"}
        OBVIOUS
      <4>2. pool' = [pool EXCEPT !.list[f].flags = fl]
        BY <2>5, <3>2, <4>1 DEF alt_fd_lock
      <4>3. PICK u : u = pool'
        OBVIOUS
      <4>4. u = WithFlags(pool, f, fl)
        BY <2>3, <4>2, <4>3, PoolExcept DEF WithFlags
      <4>5. fl \in SUBSET Flags
        BY <2>4, <4>1 DEF Flags
      <4>6. /\ u \in Pools /\ u.max = pool.max
          /\ u.list = [pool.list EXCEPT ![f].flags = fl]
          /\ \A g \in Fds : /\ u.list[g].dev = pool.list[g].dev
                            /\ u.list[g].mode = pool.list[g].mode
        <5>1. FlagsMoved(pool, WithFlags(pool, f, fl), f, fl)
          BY <1>1, <4>5, FlagsShape
        <5>2. QED
          BY <4>4, <5>1 DEF FlagsMoved
      <4>7. Marked(u) /\ Companions(u)
        BY <1>1, <2>2, <3>2, <4>1, <4>6, LockKeeps
      <4>8. Owners'
        BY <1>1, <2>2, <4>3, <4>6 DEF Owners
      <4>9. QED
        BY <1>1, <2>2, <4>3, <4>6, <4>7, <4>8 DEF IInv, Lists, Apart
    <3>3. QED
      BY <3>1, <3>2
  <2>6. CASE pool' = alt_fd_unlock(pool, f)
    <3>1. PICK fl : fl = pool.list[f].flags \ {"EXCL"}
      OBVIOUS
    <3>2. pool' = [pool EXCEPT !.list[f].flags = fl]
      BY <2>6, <3>1 DEF alt_fd_unlock
    <3>3. PICK u : u = pool'
      OBVIOUS
    <3>4. u = WithFlags(pool, f, fl)
      BY <2>3, <3>2, <3>3, PoolExcept DEF WithFlags
    <3>5. fl \in SUBSET Flags
      BY <2>4, <3>1
    <3>6. /\ u \in Pools /\ u.max = pool.max
        /\ u.list = [pool.list EXCEPT ![f].flags = fl]
        /\ \A g \in Fds : /\ u.list[g].dev = pool.list[g].dev
                          /\ u.list[g].mode = pool.list[g].mode
      <4>1. FlagsMoved(pool, WithFlags(pool, f, fl), f, fl)
        BY <1>1, <3>5, FlagsShape
      <4>2. QED
        BY <3>4, <4>1 DEF FlagsMoved
    <3>7. ("DEV" \in fl <=> "DEV" \in pool.list[f].flags)
          /\ ("EXCL" \in fl => "EXCL" \in pool.list[f].flags)
      BY <3>1
    <3>8. Marked(u) /\ Companions(u)
      BY <1>1, <2>4, <3>6, <3>7, FlagsKeep
    <3>9. Owners'
      BY <1>1, <2>2, <3>3, <3>6 DEF Owners
    <3>10. QED
      BY <1>1, <2>2, <3>3, <3>6, <3>8, <3>9 DEF IInv, Lists, Apart
  <2>7. QED
    BY <2>2, <2>5, <2>6
<1>7. CASE Fcntl
  <2>1. PICK f \in Fds, m \in AskedModes, asked \in AskedFlags : fcntl(f, m, asked)
    BY <1>7 DEF Fcntl
  <2>2. /\ booted /\ booted' = booted /\ f \in Usable
        /\ UNCHANGED <<alt_dev_list, alt_fs_list, owned>>
        /\ pool' = [pool EXCEPT !.list[f] = SetFlags(pool.list[f], m, asked)]
    BY <2>1 DEF fcntl
  <2>3. /\ pool.list \in [Fds -> Entries] /\ pool.list[f] \in Entries
        /\ pool = [list |-> pool.list, max |-> pool.max]
    BY <1>1 DEF Pools
  <2>4. pool.list[f].dev # None /\ pool.list[f].flags \in SUBSET Flags
    BY <1>1, <2>2, <2>3 DEF Usable, Owners, Entries
  <2>5. PICK fl : fl = (pool.list[f].flags \ ALT_FCNTL_FLAGS_MASK)
                         \union (asked \intersect ALT_FCNTL_FLAGS_MASK)
    OBVIOUS
  <2>6. PICK u : u = pool'
    OBVIOUS
  <2>7. u = WithFlags(pool, f, fl)
    <3>1. PICK e : e = SetFlags(pool.list[f], m, asked)
      OBVIOUS
    <3>2. e = [pool.list[f] EXCEPT !.flags = fl]
      BY <2>5, <3>1 DEF SetFlags
    <3>3. u = [list |-> [pool.list EXCEPT ![f] = e], max |-> pool.max]
      BY <2>2, <2>3, <2>6, <3>1, PoolExcept
    <3>4. [pool.list EXCEPT ![f] = e] = [pool.list EXCEPT ![f].flags = fl]
      BY <2>3, <3>2
    <3>5. QED
      BY <3>3, <3>4 DEF WithFlags
  <2>8. fl \in SUBSET Flags
    BY <2>4, <2>5 DEF ALT_FCNTL_FLAGS_MASK, Flags
  <2>9. /\ u \in Pools /\ u.max = pool.max
      /\ u.list = [pool.list EXCEPT ![f].flags = fl]
      /\ \A g \in Fds : /\ u.list[g].dev = pool.list[g].dev
                        /\ u.list[g].mode = pool.list[g].mode
    <3>1. FlagsMoved(pool, WithFlags(pool, f, fl), f, fl)
      BY <1>1, <2>8, FlagsShape
    <3>2. QED
      BY <2>7, <3>1 DEF FlagsMoved
  <2>10. ("DEV" \in fl <=> "DEV" \in pool.list[f].flags)
         /\ ("EXCL" \in fl => "EXCL" \in pool.list[f].flags)
    BY <2>5 DEF ALT_FCNTL_FLAGS_MASK
  <2>11. Marked(u) /\ Companions(u)
    BY <1>1, <2>4, <2>9, <2>10, FlagsKeep
  <2>12. Owners'
    BY <1>1, <2>2, <2>6, <2>9 DEF Owners
  <2>13. QED
    BY <1>1, <2>2, <2>6, <2>9, <2>11, <2>12 DEF IInv, Lists, Apart
<1>8. CASE UNCHANGED vars
  BY <1>8 DEF vars, IInv, Lists, Owners, Apart
<1>9. QED
  BY <1>2, <1>3, <1>4, <1>5, <1>6, <1>7, <1>8 DEF Next

-----------------------------------------------------------------------------
(* The invariant holds for any pool, devices, file systems and drivers.    *)
THEOREM FilesInvariance == Spec => []IInv
  BY InitHolds, StepKeeps, PTL DEF Spec

(* Descriptors, devices and access modes belong together for every size of *)
(* the pool.                                                               *)
THEOREM PoolIsOwned == Spec => []OwnersOnly
<1>1. IInv => OwnersOnly
  BY DEF IInv, Owners, Marked, OwnersOnly
<1>2. QED
  BY FilesInvariance, <1>1, PTL

(* Two descriptors never hold one device.                                  *)
THEOREM HoldsAlone == Spec => []OneHolder
<1>1. IInv => OneHolder
  <2>1. SUFFICES ASSUME IInv, NEW f \in Fds, NEW g \in Fds, "EXCL" \in pool.list[f].flags
                 PROVE  /\ "DEV" \in pool.list[f].flags
                        /\ f # g /\ pool.list[f].dev = pool.list[g].dev
                             => "EXCL" \notin pool.list[g].flags
    BY DEF OneHolder
  <2>2. "DEV" \in pool.list[f].flags
    BY <2>1 DEF IInv, Companions
  <2>3. ASSUME f # g, pool.list[f].dev = pool.list[g].dev, "EXCL" \in pool.list[g].flags
        PROVE  FALSE
    <3>1. f < g /\ g < f
      BY <2>1, <2>3 DEF IInv, Companions
    <3>2. QED
      BY <3>1, PoolSize
  <2>4. QED
    BY <2>2, <2>3
<1>2. QED
  BY FilesInvariance, <1>1, PTL

-----------------------------------------------------------------------------
(* A standard stream is still on the null device or was redirected with    *)
(* its own access mode; no call gives it out anew.                         *)
Streams ==
  \A f \in {0, 1, 2} :
    IF booted THEN owned[f].dev = Null \/ owned[f].mode = StreamMode(f)
              ELSE pool.list[f].dev = Null

(* The steps leave the streams alone, but for the redirection.             *)
LEMMA StreamsKeep ==
  ASSUME IInv, Streams, [Next]_vars
  PROVE  Streams'
<1>1. Lists /\ pool \in Pools /\ Marked(pool) /\ Owners /\ booted \in BOOLEAN
  BY DEF IInv
<1>2. CASE Start
  <2>1. PICK opens \in [{0, 1, 2} -> BOOLEAN] : Boot(opens)
    BY <1>2 DEF Start
  <2>2. \A f \in {0, 1, 2} : pool'.list[f] = pool.list[f] \/ pool'.list[f].mode = StreamMode(f)
    BY <1>1, <2>1, BootKeeps DEF Boot, IInv
  <2>3. booted' = TRUE /\ ~booted
    BY <2>1 DEF Boot
  <2>4. \A f \in {0, 1, 2} : owned'[f].dev = pool'.list[f].dev /\ owned'[f].mode = pool'.list[f].mode
    BY <2>1, PoolSize DEF Boot
  <2>5. QED
    BY <2>2, <2>3, <2>4 DEF Streams
<1>3. CASE Open
  <2>1. PICK n \in Names, m \in AskedModes, fl \in AskedFlags, ok \in BOOLEAN : open(n, m, fl, ok)
    BY <1>3 DEF Open
  <2>2. m \in Modes /\ fl \in SUBSET Flags
    BY FilesAssumption DEF Flags
  <2>3. PICK o : o = alt_open(pool, n, m, fl, ok)
    OBVIOUS
  <2>4. o.fd = -1 \/ Opened(pool, o.pool, o.fd, m)
    BY <1>1, <2>2, <2>3, OpenShape
  <2>5. /\ booted /\ booted' = booted
        /\ owned' = IF o.fd = -1 THEN owned
                     ELSE [owned EXCEPT ![o.fd] = [dev |-> o.pool.list[o.fd].dev, mode |-> m]]
    BY <2>1, <2>3 DEF open
  <2>6. \A f \in {0, 1, 2} : owned'[f] = owned[f]
    BY <1>1, <2>4, <2>5, PoolSize DEF Owners, Opened
  <2>7. QED
    BY <2>5, <2>6 DEF Streams
<1>4. CASE Close
  <2>1. PICK k \in Fds : close(k)
    BY <1>4 DEF Close
  <2>2. \A f \in {0, 1, 2} : owned'[f] = owned[f]
    BY <1>1, <2>1, PoolSize DEF close, Owners
  <2>3. QED
    BY <2>1, <2>2 DEF close, Streams
<1>5. CASE Ioctl \/ Fcntl
  BY <1>5 DEF Ioctl, Fcntl, ioctl, fcntl, Streams
<1>6. CASE Register \/ Mount
  BY <1>6 DEF Register, Mount, alt_dev_reg, alt_fs_reg, Streams
<1>7. CASE UNCHANGED vars
  BY <1>7 DEF vars, Streams
<1>8. QED
  BY <1>2, <1>3, <1>4, <1>5, <1>6, <1>7 DEF Next

(* Calls reach the device that was opened, for what it was opened for, and *)
(* through a redirected stream the driver that the calls compiled in reach *)
(* (alt_read.c:58-123 and its like); the errors may differ.                *)
THEOREM AccessIsKept == Spec => []KeepsAccess
<1>1. Init => Streams
  <2>1. \A f \in {0, 1, 2} : f \in Fds /\ f < 3
    BY PoolSize
  <2>2. ASSUME Init PROVE \A f \in {0, 1, 2} : pool.list[f].dev = Null /\ booted = FALSE
    BY <2>1, <2>2 DEF Init, Unused
  <2>3. QED
    BY <2>2 DEF Streams
<1>2. IInv /\ Streams => KeepsAccess
  <2> SUFFICES ASSUME IInv, Streams, booted, NEW f \in Usable
      PROVE  /\ \A fn \in DOMAIN Answers(f) : Answers(f)[fn].dev \in {None, owned[f].dev}
             /\ Answers(f).read.dev # None => owned[f].mode # "WRONLY"
             /\ Answers(f).write.dev # None => owned[f].mode # "RDONLY"
             /\ f < 3 /\ pool.list[f].dev = Std[f] =>
                  \A fn \in DOMAIN Answers(f) : Answers(f)[fn].dev = DirectAnswers(f)[fn].dev
    BY DEF KeepsAccess
  <2> DEFINE calls == {"read", "write", "lseek", "fstat", "isatty", "ioctl"}
  <2>1. /\ f \in Fds /\ owned[f].dev = pool.list[f].dev /\ owned[f].dev # None
        /\ owned[f].mode = pool.list[f].mode
    BY DEF Usable, IInv, Owners
  <2>2. /\ \A d : Reaches(d).dev = d
        /\ ByItself.dev = None /\ \A e : Refused(e).dev = None
    BY DEF Reaches, ByItself, Refused
  <2>3. /\ DOMAIN Answers(f) = calls
        /\ Answers(f).read = ReadAnswer(f) /\ Answers(f).write = WriteAnswer(f)
        /\ Answers(f).lseek = LseekAnswer(f) /\ Answers(f).fstat = FstatAnswer(f)
        /\ Answers(f).isatty = IsattyAnswer(f) /\ Answers(f).ioctl = IoctlAnswer(f)
    BY DEF Answers
  <2>4. \A fn \in calls : Answers(f)[fn].dev \in {None, owned[f].dev}
    BY <2>1, <2>2, <2>3 DEF ReadAnswer, WriteAnswer, LseekAnswer, FstatAnswer, IsattyAnswer, IoctlAnswer
  <2>5. /\ Answers(f).read.dev # None => owned[f].mode # "WRONLY"
        /\ Answers(f).write.dev # None => owned[f].mode # "RDONLY"
    BY <2>1, <2>2, <2>3 DEF ReadAnswer, WriteAnswer
  <2>6. ASSUME f < 3, pool.list[f].dev = Std[f]
        PROVE  \A fn \in calls : Answers(f)[fn].dev = DirectAnswers(f)[fn].dev
    <3>1. f \in {0, 1, 2}
      BY <2>1, <2>6, PoolSize
    <3>2. /\ {"read", "write", "ioctl"} \subseteq Functions[Std[f]]
          /\ "lseek" \notin Functions[Std[f]] /\ "fstat" \notin Functions[Std[f]]
      BY <3>1, StreamsAssumption
    <3>3. Std[f] # Null
      BY <3>2, FilesAssumption
    <3>4. pool.list[f].mode = StreamMode(f)
      BY <2>1, <2>6, <3>1, <3>3 DEF Streams
    <3>5. /\ DirectAnswers(f).read = DirectRead(f) /\ DirectAnswers(f).write = DirectWrite(f)
          /\ DirectAnswers(f).lseek = DirectLseek(f) /\ DirectAnswers(f).fstat = DirectFstat(f)
          /\ DirectAnswers(f).isatty = DirectIsatty(f) /\ DirectAnswers(f).ioctl = DirectIoctl(f)
      BY DEF DirectAnswers
    <3>6. /\ ReadAnswer(f).dev = DirectRead(f).dev /\ WriteAnswer(f).dev = DirectWrite(f).dev
      BY <2>2, <2>6, <3>1, <3>2, <3>4 DEF ReadAnswer, WriteAnswer, DirectRead, DirectWrite, StreamMode
    <3>7. /\ LseekAnswer(f).dev = DirectLseek(f).dev /\ FstatAnswer(f).dev = DirectFstat(f).dev
          /\ IsattyAnswer(f).dev = DirectIsatty(f).dev /\ IoctlAnswer(f).dev = DirectIoctl(f).dev
      BY <2>2, <2>6, <3>1, <3>2 DEF LseekAnswer, FstatAnswer, IsattyAnswer, IoctlAnswer,
         DirectLseek, DirectFstat, DirectIsatty, DirectIoctl
    <3>8. QED
      BY <2>3, <3>5, <3>6, <3>7
  <2>7. QED
    BY <2>3, <2>4, <2>5, <2>6
<1>3. QED
  BY FilesInvariance, StreamsKeep, <1>1, <1>2, PTL DEF Spec

(* While a descriptor holds a device, no other comes to refer to it.       *)
THEOREM OthersStayOut == Spec => LockKeepsOthersOut
<1>1. ASSUME IInv, [Next]_vars
      PROVE  [\A f, g \in Fds :
               ( /\ f # g /\ "EXCL" \in pool.list[f].flags /\ "EXCL" \in pool'.list[f].flags
                 /\ pool'.list[f].dev = pool'.list[g].dev )
               => pool.list[g].dev = pool'.list[g].dev]_vars
  BY <1>1, StepKeeps DEF Apart
<1>2. QED
  BY FilesInvariance, <1>1, PTL DEF Spec, LockKeepsOthersOut
=============================================================================
