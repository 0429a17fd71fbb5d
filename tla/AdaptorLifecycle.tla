-------------------------- MODULE AdaptorLifecycle --------------------------
(***************************************************************************)
(* The life of dogbox::fuse::adaptor (fuse_adaptor/adaptor.cpp, channel.h, *)
(* deleter.h, unmount.cpp) as its clients live it (fuse_adaptor_test.cpp:  *)
(* 25 to 46, and the benchmarks in the same way): one thread constructs    *)
(* the adaptor, starts a second thread in fuse_loop, uses the file system, *)
(* calls fuse_exit, destroys the adaptor, and waits for the second thread. *)
(* The process may be killed at any time and started again.                *)
(*                                                                         *)
(* libfuse and the kernel are external.  fuse_exit sets a flag that the    *)
(* loop looks at before it waits for the next request; unmounting wakes    *)
(* the thread that waits.                                                  *)
(***************************************************************************)
EXTENDS Integers

CONSTANT
  MaxRuns         \* bound on how often the program is started

VARIABLES
  runs,           \* how often it was started
  owner,          \* what the constructing thread does next
  mount,          \* the mount point: "none", "live", or "stale" after a crash
  channel,        \* adaptor::channel has a handle
  fuse,           \* adaptor::fuse_handle: "none", "valid" or "destroyed"
  exited,         \* the flag of the FUSE session
  loop,           \* where the second thread is in fuse_loop
  served,         \* a request has been answered
  faults,         \* something external has failed in this run
  undefined,      \* the second thread has used what was destroyed
  result          \* what fuse_loop has returned: empty or one number

lifeVars == <<runs, owner, mount, channel, fuse, exited, loop, served, faults, undefined, result>>
owned == <<owner, mount, channel, fuse, exited, faults>>
worker == <<loop, served, undefined, result>>

LifeInit ==
  /\ runs = 1 /\ owner = "unmount" /\ mount \in {"none", "stale"}
  /\ channel = FALSE /\ fuse = "none" /\ exited = FALSE /\ loop = "none"
  /\ served = FALSE /\ faults = FALSE /\ undefined = FALSE /\ result = {}

-----------------------------------------------------------------------------
(* adaptor::adaptor *)

\* A TO_DO or an exception of the constructor: the members that were
\* constructed are destroyed.
ConstructorThrows ==
  /\ faults' = TRUE
  /\ owner' = IF channel THEN "unwind" ELSE "failed"
  /\ UNCHANGED <<runs, mount, channel, fuse, exited, worker>>

\* fusermount -zu: what is mounted goes, and that nothing is mounted is no
\* error.  The defect is to leave it in place.
LeftMounted == mount
AfterUnmount == "none"

Unmount ==
  /\ owner = "unmount"
  /\ \/ /\ mount' = AfterUnmount /\ owner' = "mount"
        /\ UNCHANGED <<runs, channel, fuse, exited, faults, worker>>
     \/ ConstructorThrows

\* create_directories and fuse_mount, which fail on a stale mount.
MountChannel ==
  /\ owner = "mount"
  /\ \/ /\ IF mount = "none"
           THEN mount' = "live" /\ channel' = TRUE /\ owner' = "new"
           ELSE owner' = "failed" /\ UNCHANGED <<mount, channel>>
        /\ UNCHANGED <<runs, fuse, exited, faults, worker>>
     \/ ConstructorThrows

\* fuse_new
New ==
  /\ owner = "new"
  /\ \/ /\ fuse' = "valid" /\ owner' = "start"
        /\ UNCHANGED <<runs, mount, channel, exited, faults, worker>>
     \/ ConstructorThrows

-----------------------------------------------------------------------------
(* fuse_loop in the second thread.  A step of it that needs what was       *)
(* destroyed has no defined outcome.                                       *)

Uses(alive, step) ==
  IF alive
  THEN step /\ UNCHANGED <<runs, owned, undefined>>
  ELSE /\ undefined' = TRUE
       /\ loop' = "returned"
       /\ \E garbage \in {0, -1} : result' = {garbage}
       /\ UNCHANGED <<runs, owned, served>>

Use(step) == Uses(fuse = "valid", step)

\* The flag first, then the channel.
Check ==
  /\ loop = "check"
  /\ Uses(fuse = "valid" /\ (exited \/ channel),
          loop' = (IF exited THEN "leave" ELSE "read") /\ UNCHANGED <<served, result>>)

\* A request arrives while the file system is mounted, and is handled.
Request == loop = "read" /\ mount = "live" /\ Use(loop' = "handle" /\ UNCHANGED <<served, result>>)
HandleRequest == loop = "handle" /\ Use(loop' = "check" /\ served' = TRUE /\ UNCHANGED result)

\* Without a mount the read ends, and the flag is set.
Wake == loop = "read" /\ mount # "live" /\ Use(loop' = "leave" /\ UNCHANGED <<served, result>>)
Leave == loop = "leave" /\ Use(loop' = "returned" /\ result' = {0} /\ UNCHANGED served)

LoopStep == Check \/ HandleRequest \/ Wake \/ Leave

-----------------------------------------------------------------------------
(* The caller of the constructor, and the end of the adaptor *)

\* Members are destroyed in the reverse of the order they are declared in; and
\* the defect that channel is declared before fuse_handle.
DestructorsSwapped == <<"~fuse", "~channel">>
Destructors == <<"~channel", "~fuse">>

\* std::async starts the second thread, or throws, and the adaptor is destroyed.
StartLoop ==
  /\ owner = "start"
  /\ \/ loop' = "check" /\ owner' = "use" /\ UNCHANGED faults
     \/ faults' = TRUE /\ owner' = Destructors[1] /\ UNCHANGED loop
  /\ UNCHANGED <<runs, mount, channel, fuse, exited, served, undefined, result>>

\* The caller is done with the file system, or leaves by an exception and
\* does not call fuse_exit.
Exit ==
  /\ owner = "use"
  /\ \/ served /\ exited' = TRUE /\ UNCHANGED faults
     \/ faults' = TRUE /\ UNCHANGED exited
  /\ owner' = Destructors[1]
  /\ UNCHANGED <<runs, mount, channel, fuse, worker>>

\* What comes after a destructor.  Without a second thread an exception is on
\* its way.
Destroyed ==
  owner' = IF owner = Destructors[1] THEN Destructors[2]
           ELSE IF loop = "none" THEN "failed" ELSE "join"

\* The destructor of channel calls fuse_unmount, unless it has no handle; and
\* the defect that it never has one.
AfterLostChannel == mount
AfterChannel == IF channel THEN "none" ELSE mount

DestroyChannel ==
  /\ owner \in {"~channel", "unwind"}
  /\ mount' = AfterChannel
  /\ channel' = FALSE
  /\ Destroyed
  /\ UNCHANGED <<runs, fuse, exited, faults, worker>>

\* fuse_deleter: fuse_destroy.
DestroyFuse ==
  /\ owner = "~fuse"
  /\ fuse' = "destroyed"
  /\ Destroyed
  /\ UNCHANGED <<runs, mount, channel, exited, faults, worker>>

\* worker.get()
Join ==
  /\ owner = "join" /\ loop = "returned"
  /\ owner' = "done"
  /\ UNCHANGED <<runs, mount, channel, fuse, exited, faults, worker>>

-----------------------------------------------------------------------------
Restart ==
  /\ runs < MaxRuns
  /\ runs' = runs + 1
  /\ owner' = "unmount"
  /\ channel' = FALSE /\ fuse' = "none" /\ exited' = FALSE /\ loop' = "none"
  /\ served' = FALSE /\ faults' = FALSE /\ undefined' = FALSE /\ result' = {}

\* The process is killed: what it had mounted stays behind, without anybody to
\* answer.
Kill ==
  /\ owner \notin {"done", "failed"}
  /\ mount' = IF mount = "live" THEN "stale" ELSE mount
  /\ Restart

StartAgain == owner \in {"done", "failed"} /\ UNCHANGED mount /\ Restart

Destruction == DestroyChannel \/ DestroyFuse \/ Join

LifeNext ==
  \/ Unmount \/ MountChannel \/ New
  \/ StartLoop \/ Exit \/ Destruction
  \/ Request \/ LoopStep
  \/ Kill \/ StartAgain

LifeSpec == LifeInit /\ [][LifeNext]_lifeVars

\* Both threads go on when they can.  The kernel need not send any request,
\* and the caller may use the file system as long as it likes.
LifeFairSpec == LifeSpec /\ WF_lifeVars(Destruction) /\ WF_lifeVars(LoopStep)

-----------------------------------------------------------------------------
\* The types of the variables; adaptor::channel has a handle only while the
\* constructor or an adaptor is there, and whoever has it is mounted.
TypeOK ==
  /\ mount \in {"none", "live", "stale"}
  /\ fuse \in {"none", "valid", "destroyed"}
  /\ loop \in {"none", "check", "read", "handle", "leave", "returned"}
  /\ result \subseteq {0, -1}
  /\ channel \in BOOLEAN
  /\ channel <=> owner \in {"new", "start", "use", "~channel", "unwind"}
  /\ channel <=> mount = "live"

\* "fuse_unmount has to be called before fuse_destroy" (adaptor.h:20).
UnmountedBeforeDestroyed == fuse = "destroyed" => mount # "live" /\ ~ channel

\* However the constructor or the start of the thread fails, and whenever the
\* adaptor is destroyed, the kernel is not left with a mount that nobody serves;
\* and a run that is given no reason to fail does not, even after a crash has
\* left one behind (adaptor.cpp:15 and channel.h:23 to 30).
NothingLeftMounted ==
  /\ owner = "done" => mount = "none"
  /\ owner = "failed" => faults /\ mount # "live"

\* Destruction ends: unmounting wakes the thread in fuse_loop, also without
\* fuse_exit and without another request (fuse_adaptor_test.cpp:44 to 46).
\* Nothing can be said once that thread has used what was destroyed.
DestructionEnds ==
  owner \in {"~channel", "unwind"} ~>
    (owner \in {"done", "failed"} \/ undefined \/ owner = "unmount")

\* "0 == fuse_loop(&fuse.get_fuse_handle())" (fuse_adaptor_test.cpp:32), when
\* nothing external has failed.
LoopReturnsZero == ~ faults => result \subseteq {0}
=============================================================================
