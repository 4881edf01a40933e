-------------------------------- MODULE Files --------------------------------
(***************************************************************************)
(* The file layer of the processor's library (c_program_bsp/HAL/src,       *)
(* alt_open.c to alt_write.c): the lists of registered devices and file    *)
(* systems, the pool of file descriptors, the redirection of the standard  *)
(* streams at start-up, and the calls a program makes on a descriptor.     *)
(*                                                                         *)
(* The library is single threaded (os/alt_sem.h defines the pool's         *)
(* semaphore away), so a call is one action.  A name is the sequence of    *)
(* its path components, the flags of a descriptor are an access mode and a *)
(* set of flags, and a driver function succeeds or fails as it likes.      *)
(*                                                                         *)
(* A call that changes nothing here is an operator that says what it       *)
(* answers: the driver it reaches, or the error it ends with (Answers).     *)
(* owned is a history variable.                                            *)
(***************************************************************************)
EXTENDS Integers, Sequences, SequencesExt

CONSTANTS
  MaxFd,        \* ALT_MAX_FD, the size of the pool
  Names,        \* the names a program opens
  DevNames,     \* the names devices register under ...
  FsNames,      \* ... and the mount points of the file systems
  Functions,    \* the functions each driver, named by its name, implements
  Std,          \* the names stdin, stdout and stderr are redirected to
  AskedModes,   \* the access modes and ...
  AskedFlags    \* ... the sets of flags the program asks for

Null == <<"dev", "null">>   \* alt_dev_null
None == <<"no device">>     \* a null pointer
Fds  == 0 .. MaxFd - 1
Modes == {"RDONLY", "WRONLY", "RDWR"}

ASSUME FilesAssumption ==
  /\ MaxFd \in Nat /\ MaxFd > 3
  /\ Null \in DevNames /\ None \notin DevNames \union FsNames
  /\ DevNames \intersect FsNames = {}
  /\ Functions \in [DevNames \union FsNames ->
       SUBSET {"open", "close", "read", "write", "lseek", "fstat", "ioctl"}]
  /\ Functions[Null] = {"write"}
  /\ DOMAIN Std = {0, 1, 2}
  /\ AskedModes \subseteq Modes
  /\ AskedFlags \subseteq SUBSET {"APPEND", "NONBLOCK", "EXCL", "DEV"}

(* The streams go to a driver like the console's: it reads, writes and     *)
(* takes requests, and has neither lseek nor fstat (system.h,              *)
(* altera_avalon_jtag_uart.h).  KeepsAccess compares direct calls to it.   *)
ASSUME StreamsAssumption ==
  \A f \in {0, 1, 2} : /\ Std[f] \in DevNames
                       /\ {"read", "write", "ioctl"} \subseteq Functions[Std[f]]
                       /\ Functions[Std[f]] \intersect {"lseek", "fstat"} = {}

VARIABLES
  alt_dev_list, \* the registered devices, the newest first
  alt_fs_list,  \* the registered file systems, the newest first
  booted,       \* has alt_main called main?
  pool,         \* [list |-> alt_fd_list, max |-> alt_max_fd]
  owned         \* the device and mode a descriptor was given out with

vars == <<alt_dev_list, alt_fs_list, booted, pool, owned>>

ALT_FD_FLAGS_MASK    == {"EXCL", "DEV"}
ALT_FCNTL_FLAGS_MASK == {"APPEND", "NONBLOCK"}

Unused  == [dev |-> None, mode |-> "RDONLY", flags |-> {}]
NoOwner == [dev |-> None, mode |-> "RDONLY"]

Init ==
  /\ alt_dev_list = <<Null>> /\ alt_fs_list = <<>>
  /\ booted = FALSE
  /\ pool = [list |-> [f \in Fds |-> IF f < 3 THEN [Unused EXCEPT !.dev = Null] ELSE Unused],
             max |-> -1]
  /\ owned = [f \in Fds |-> NoOwner]

-----------------------------------------------------------------------------
(* The first of the entries of a list that hit.                            *)
First(list, hits) ==
  IF hits = {} THEN None ELSE list[CHOOSE i \in hits : \A j \in hits : i <= j]

alt_find_dev(name)  == First(alt_dev_list, {i \in DOMAIN alt_dev_list : alt_dev_list[i] = name})
alt_find_file(name) == First(alt_fs_list, {i \in DOMAIN alt_fs_list : IsPrefix(alt_fs_list[i], name)})

(* The lowest unused descriptor of the pool, -1 if there is none.          *)
LowestUnused(t) ==
  LET unused == {f \in Fds : t.list[f].dev = None}
  IN  IF unused = {} THEN -1 ELSE CHOOSE f \in unused : \A g \in unused : f <= g

(* The pool with descriptor f taken for dev.                               *)
alt_get_fd(t, f, dev) ==
  [list |-> [t.list EXCEPT ![f].dev = dev], max |-> IF f > t.max THEN f ELSE t.max]

(* Standard streams are never released.                                    *)
alt_release_fd(t, f) == IF f > 2 THEN [t EXCEPT !.list[f] = Unused] ELSE t

(* A search that stops short of the high water mark.                       *)
alt_file_lockedShort(t, f) ==
  \E i \in 0 .. t.max - 1 :
     i # f /\ t.list[i].dev = t.list[f].dev /\ "EXCL" \in t.list[i].flags

(* Does another descriptor hold the device of f for itself?                *)
alt_file_locked(t, f) ==
  \E i \in 0 .. t.max :
     i # f /\ t.list[i].dev = t.list[f].dev /\ "EXCL" \in t.list[i].flags

(* open(): the pool after it, the descriptor or -1, the error.  opens says *)
(* whether the driver's own open function succeeds.                        *)
alt_open(t, name, mode, flags, opens) ==
  LET isafs == alt_find_dev(name) = None
      dev   == IF isafs THEN alt_find_file(name) ELSE alt_find_dev(name)
      f     == LowestUnused(t)
      taken == [alt_get_fd(t, f, dev) EXCEPT
                 !.list[f].mode = mode,
                 !.list[f].flags = (flags \ ALT_FD_FLAGS_MASK)
                                     \union (IF isafs THEN {} ELSE {"DEV"})]
      Fail(pl, e) == [pool |-> pl, fd |-> -1, err |-> e]
  IN  IF dev = None THEN Fail(t, "ENODEV")
      ELSE IF f = -1 THEN Fail(t, "EMFILE")
      ELSE IF ~isafs /\ alt_file_locked(taken, f) THEN Fail(alt_release_fd(taken, f), "EACCES")
      ELSE IF "open" \in Functions[dev] /\ ~opens THEN Fail(alt_release_fd(taken, f), "EIO")
      ELSE [pool |-> taken, fd |-> f, err |-> ""]

(* A descriptor of its own for f that keeps the one it was copied from.    *)
alt_open_fdKeeps(t, f, name, mode, opens) ==
  LET o == alt_open(t, name, mode, {}, opens)
  IN  IF o.fd = -1 THEN t ELSE [o.pool EXCEPT !.list[f] = o.pool.list[o.fd]]

(* A descriptor of its own for f: the one opened is copied and released.   *)
alt_open_fd(t, f, name, mode, opens) ==
  LET o == alt_open(t, name, mode, {}, opens)
  IN  IF o.fd = -1 THEN t
      ELSE alt_release_fd([o.pool EXCEPT !.list[f] = o.pool.list[o.fd]], o.fd)

(* The order of the three streams: stdout, stdin, stderr.                  *)
alt_io_redirect(t, opens) ==
  LET t1 == alt_open_fd(t,  1, Std[1], "WRONLY", opens[1])
      t0 == alt_open_fd(t1, 0, Std[0], "RDONLY", opens[0])
  IN  alt_open_fd(t0, 2, Std[2], "WRONLY", opens[2])

(* A lock refused only where another descriptor holds it.                  *)
alt_fd_lockLax(t, f) ==
  IF \E i \in 0 .. t.max - 1 : /\ i # f /\ t.list[i].dev = t.list[f].dev
                               /\ "EXCL" \in t.list[i].flags
  THEN [pool |-> t, err |-> "EACCES"]
  ELSE [pool |-> [t EXCEPT !.list[f].flags = @ \union {"EXCL"}], err |-> ""]

(* The lock is granted if no descriptor below the high water mark but f    *)
(* refers to its device: the descriptor at the mark is not looked at.      *)
alt_fd_lock(t, f) ==
  IF \E i \in 0 .. t.max - 1 : i # f /\ t.list[i].dev = t.list[f].dev
  THEN [pool |-> t, err |-> "EACCES"]
  ELSE [pool |-> [t EXCEPT !.list[f].flags = @ \union {"EXCL"}], err |-> ""]

alt_fd_unlock(t, f) == [t EXCEPT !.list[f].flags = @ \ {"EXCL"}]

-----------------------------------------------------------------------------
(* A driver joins the list of devices, a file system that of file systems; *)
(* one without a name is refused.                                          *)
alt_dev_llist_insert(d, list) == IF d = None THEN list ELSE <<d>> \o list

alt_dev_reg(d) ==
  /\ d \notin ToSet(alt_dev_list)
  /\ alt_dev_list' = alt_dev_llist_insert(d, alt_dev_list)
  /\ UNCHANGED <<alt_fs_list, booted, pool, owned>>

alt_fs_reg(d) ==
  /\ d \notin ToSet(alt_fs_list)
  /\ alt_fs_list' = alt_dev_llist_insert(d, alt_fs_list)
  /\ UNCHANGED <<alt_dev_list, booted, pool, owned>>

(* alt_main: the streams are redirected, then main() is called.            *)
Boot(opens) ==
  /\ ~booted
  /\ booted' = TRUE
  /\ pool' = alt_io_redirect(pool, opens)
  /\ owned' = [f \in Fds |-> IF f < 3 THEN [dev |-> pool'.list[f].dev,
                                            mode |-> pool'.list[f].mode] ELSE NoOwner]
  /\ UNCHANGED <<alt_dev_list, alt_fs_list>>

(* The descriptors a program may use: those it was given.  The library     *)
(* itself only tells the -1 of a failed open from the others.              *)
Usable == {f \in Fds : owned[f].dev # None}

open(name, mode, flags, opens) ==
  LET o == alt_open(pool, name, mode, flags, opens)
  IN  /\ booted
      /\ pool' = o.pool
      /\ owned' = IF o.fd = -1 THEN owned
                  ELSE [owned EXCEPT ![o.fd] = [dev |-> o.pool.list[o.fd].dev, mode |-> mode]]
      /\ UNCHANGED <<alt_dev_list, alt_fs_list, booted>>

(* The descriptor is released whatever the driver's close returns.         *)
close(f) ==
  /\ booted /\ f \in Usable
  /\ pool' = alt_release_fd(pool, f)
  /\ owned' = IF f > 2 THEN [owned EXCEPT ![f] = NoOwner] ELSE owned
  /\ UNCHANGED <<alt_dev_list, alt_fs_list, booted>>

(* The two requests the library handles itself, for a device.  Any other   *)
(* request, and any on a file system, goes to the driver (IoctlAnswer).    *)
ioctl(f, req) ==
  /\ booted /\ f \in Usable
  /\ "DEV" \in pool.list[f].flags
  /\ \/ req = "TIOCEXCL" /\ pool' = alt_fd_lock(pool, f).pool
     \/ req = "TIOCNXCL" /\ pool' = alt_fd_unlock(pool, f)
  /\ UNCHANGED <<alt_dev_list, alt_fs_list, booted, owned>>

(* F_SETFL that takes over what it is given.                               *)
SetFlagsUnmasked(entry, mode, asked) == [entry EXCEPT !.mode = mode, !.flags = asked]

(* Only APPEND and NONBLOCK can be set: what is asked for beside them, an  *)
(* access mode too, is ignored.                                            *)
SetFlags(entry, mode, asked) ==
  [entry EXCEPT !.flags = (@ \ ALT_FCNTL_FLAGS_MASK) \union (asked \intersect ALT_FCNTL_FLAGS_MASK)]

(* fcntl with F_SETFL; F_GETFL and the EINVAL of another command change    *)
(* nothing.                                                                *)
fcntl(f, mode, asked) ==
  /\ booted /\ f \in Usable
  /\ pool' = [pool EXCEPT !.list[f] = SetFlags(pool.list[f], mode, asked)]
  /\ UNCHANGED <<alt_dev_list, alt_fs_list, booted, owned>>

(* What a call on descriptor f comes to: it reaches the function of a      *)
(* driver, the library answers by itself, or it ends with an error.        *)
Reaches(dev) == [dev |-> dev, err |-> ""]
ByItself     == [dev |-> None, err |-> ""]
Refused(e)   == [dev |-> None, err |-> e]

ReadAnswer(f) ==
  IF pool.list[f].mode # "WRONLY" /\ "read" \in Functions[pool.list[f].dev]
  THEN Reaches(pool.list[f].dev) ELSE Refused("EACCES")

WriteAnswer(f) ==
  IF pool.list[f].mode # "RDONLY" /\ "write" \in Functions[pool.list[f].dev]
  THEN Reaches(pool.list[f].dev) ELSE Refused("EACCES")

LseekAnswer(f) ==
  IF "lseek" \in Functions[pool.list[f].dev] THEN Reaches(pool.list[f].dev) ELSE Refused("ENOTSUP")

(* Without a function of the driver the library says character device; a   *)
(* terminal is what says so.                                               *)
FstatAnswer(f) ==
  IF "fstat" \in Functions[pool.list[f].dev] THEN Reaches(pool.list[f].dev) ELSE ByItself

IsattyAnswer(f) == IF "fstat" \notin Functions[pool.list[f].dev] THEN ByItself ELSE FstatAnswer(f)

(* A request other than the two of ioctl.                                  *)
IoctlAnswer(f) ==
  IF "ioctl" \in Functions[pool.list[f].dev] THEN Reaches(pool.list[f].dev) ELSE Refused("ENOTTY")

(* The calls as this build compiles them (ALT_USE_DIRECT_DRIVERS): no      *)
(* pool, the device of the stream is compiled in.                          *)
DirectRead(f)   == IF f = 0 THEN Reaches(Std[0]) ELSE Refused("EBADFD")
DirectWrite(f)  == IF f \in {1, 2} THEN Reaches(Std[f]) ELSE Refused("EBADFD")
DirectIoctl(f)  == IF f \in {0, 1, 2} THEN Reaches(Std[f]) ELSE Refused("EBADFD")
DirectFstat(f)  == IF f \in {0, 1, 2} THEN ByItself ELSE Refused("")
DirectIsatty(f) == IF f \in {0, 1, 2} THEN ByItself ELSE Refused("")
DirectLseek(f)  == Refused("ENOSYS")

Answers(f) ==
  [read |-> ReadAnswer(f), write |-> WriteAnswer(f), lseek |-> LseekAnswer(f),
   fstat |-> FstatAnswer(f), isatty |-> IsattyAnswer(f), ioctl |-> IoctlAnswer(f)]
DirectAnswers(f) ==
  [read |-> DirectRead(f), write |-> DirectWrite(f), lseek |-> DirectLseek(f),
   fstat |-> DirectFstat(f), isatty |-> DirectIsatty(f), ioctl |-> DirectIoctl(f)]

Register == \E d \in DevNames \union {None} : alt_dev_reg(d)
Mount    == \E d \in FsNames : alt_fs_reg(d)
Start    == \E opens \in [{0, 1, 2} -> BOOLEAN] : Boot(opens)
Open     == \E n \in Names, m \in AskedModes, fl \in AskedFlags, ok \in BOOLEAN : open(n, m, fl, ok)
Close    == \E f \in Fds : close(f)
Ioctl    == \E f \in Fds, req \in {"TIOCEXCL", "TIOCNXCL"} : ioctl(f, req)
Fcntl    == \E f \in Fds, m \in AskedModes, fl \in AskedFlags : fcntl(f, m, fl)

Next == Register \/ Mount \/ Start \/ Open \/ Close \/ Ioctl \/ Fcntl

Spec == Init /\ [][Next]_vars

-----------------------------------------------------------------------------
(* The pool and its users agree: once main runs the descriptors in use are *)
(* those some open returned and no close released, each still with the     *)
(* device and the access mode it was opened with, through failed opens,    *)
(* redirections, fcntl and reuse; and none of them lies above the mark the *)
(* searches of the pool stop at.                                           *)
OwnersOnly ==
  /\ booted => \A f \in Fds : /\ owned[f].dev = pool.list[f].dev
                              /\ owned[f].dev # None => owned[f].mode = pool.list[f].mode
  /\ \A f \in Fds : f > 2 /\ pool.list[f].dev # None => f <= pool.max
  /\ \A f \in Fds : pool.list[f].dev = None => pool.list[f] = Unused

(* No two descriptors hold the same device for themselves, whichever asks  *)
(* first and whatever is opened and closed between, although each request  *)
(* looks at a part of the pool only; and only descriptors of devices hold. *)
OneHolder ==
  \A f, g \in Fds :
     "EXCL" \in pool.list[f].flags =>
        /\ "DEV" \in pool.list[f].flags
        /\ f # g /\ pool.list[f].dev = pool.list[g].dev => "EXCL" \notin pool.list[g].flags

(* While a descriptor holds a device, no other comes to refer to it.       *)
LockKeepsOthersOut ==
  [][\A f, g \in Fds :
       ( /\ f # g /\ "EXCL" \in pool.list[f].flags /\ "EXCL" \in pool'.list[f].flags
         /\ pool'.list[f].dev = pool'.list[g].dev )
       => pool.list[g].dev = pool'.list[g].dev]_vars

(* Through a descriptor a driver is only asked for what the descriptor was *)
(* opened for, on the device that was opened; and where a stream is on its *)
(* device, the calls of this build (compiled in) reach the same driver as  *)
(* the calls through the pool do, or reach none where those reach none.    *)
(* The error a call ends with may differ between the two forms.            *)
KeepsAccess ==
  booted => \A f \in Usable :
     /\ \A fn \in DOMAIN Answers(f) : Answers(f)[fn].dev \in {None, owned[f].dev}
     /\ Answers(f).read.dev # None => owned[f].mode # "WRONLY"
     /\ Answers(f).write.dev # None => owned[f].mode # "RDONLY"
     /\ f < 3 /\ pool.list[f].dev = Std[f] =>
          \A fn \in DOMAIN Answers(f) : Answers(f)[fn].dev = DirectAnswers(f)[fn].dev

(* alt_fd_lock.c: the lock is granted if no other open descriptor refers   *)
(* to the device, and opens fail while it is held.  The search misses the  *)
(* descriptor at the high water mark.                                      *)
LockMeansAlone ==
  \A f, g \in Fds : f # g /\ "EXCL" \in pool.list[f].flags => pool.list[g].dev # pool.list[f].dev
=============================================================================
