------------------------------- MODULE RootFS -------------------------------
(***************************************************************************)
(* The root directory that all pods share (FSConfig.Rootfs, one fixed path *)
(* in DefaultSpec) and what PrepareRoot and PivotRoot (lib/fs.go) do to    *)
(* it.  The mounts a workload makes are private to it; the files are not.  *)
(*   bb   bin/busybox: absent, truncated and not written yet, whole        *)
(*   sh   the link bin/sh; it stands for the five links of the loop        *)
(*   old  the directory .pivot_old                                         *)
(* The device files are created if absent and never removed: left out.     *)
(***************************************************************************)
FS == [bb : {"none", "torn", "whole"}, sh : BOOLEAN, old : BOOLEAN]

(* The directory outlives the supervisor: an earlier one may have left a   *)
(* busybox without contents.  Whatever else it left PrepareRoot makes anew. *)
FoundFS == [bb : {"none", "torn"}, sh : {FALSE}, old : {FALSE}]

(* os.Stat(busybox) fails with IsNotExist. *)
NoBusybox(fs) == fs.bb = "none"

(* os.WriteFile opens with O_TRUNC and writes all of it in one call. *)
Truncate(fs) == [fs EXCEPT !.bb = "torn"]
Complete(fs) == [fs EXCEPT !.bb = "whole"]

(* os.Remove(target); os.Symlink("busybox", target): errors are dropped. *)
Unlink(fs) == [fs EXCEPT !.sh = FALSE]
Symlink(fs) == [fs EXCEPT !.sh = TRUE]

(* MkdirAll(".pivot_old").  (Mutant: forgotten.) *)
NoDir(fs) == fs
MkdirOld(fs) == [fs EXCEPT !.old = TRUE]

(* os.RemoveAll("/.pivot_old") *)
RemoveOld(fs) == [fs EXCEPT !.old = FALSE]

(* exec of /bin/sh: the link is there, busybox is whole. *)
Executable(fs) == fs.sh /\ fs.bb = "whole"
=============================================================================
