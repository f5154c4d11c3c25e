------------------------------- MODULE FileTable -------------------------------
(***************************************************************************)
(* The HAL's table of open files: how alt_main connects the three standard *)
(* streams to the JTAG UART, and open, close, fcntl and the exclusive use  *)
(* of a device through ioctl.                                              *)
(***************************************************************************)
EXTENDS Integers, FiniteSets

CONSTANTS
  MaxFd,         \* ALT_MAX_FD
  Devices,       \* the devices there are; one of them is
  DevNull,       \* alt_dev_null, and one
  Uart,          \* the JTAG UART
  FileSystems    \* the file systems there are

ASSUME FileTableAssumption ==
  /\ MaxFd \in Nat /\ MaxFd > 3
  /\ {DevNull, Uart} \subseteq Devices /\ DevNull # Uart
  /\ Devices \cap FileSystems = {} /\ "free" \notin Devices \cup FileSystems

VARIABLES
  stage,          \* how far alt_main is
  alt_dev_list, alt_fs_list,   \* what has been registered
  alt_fd_list,    \* the table
  alt_max_fd      \* the highest entry ever allocated

fileVars == <<stage, alt_dev_list, alt_fs_list, alt_fd_list, alt_max_fd>>

Fds == 0 .. MaxFd - 1
Streams == 0 .. 2   \* stdin, stdout and stderr
NoDevice == "free"      \* dev is 0
Modes == {"O_RDONLY", "O_WRONLY", "O_RDWR"}
Options == {"O_NONBLOCK", "ALT_FD_EXCL", "ALT_FD_DEV"}

File(d, access, f) == [dev |-> d, mode |-> access, flags |-> f]
NoFile == File(NoDevice, "O_RDONLY", {})

FileTypeOK ==
  /\ stage \in {"sys init", "stdout", "stdin", "stderr", "main"}
  /\ alt_dev_list \subseteq Devices /\ alt_fs_list \subseteq FileSystems
  /\ alt_fd_list \in [Fds -> [dev : Devices \cup FileSystems \cup {NoDevice}, mode : Modes,
                             flags : SUBSET Options]]
  /\ alt_max_fd \in -1 .. MaxFd - 1

FileInit ==
  /\ stage = "sys init"
  /\ alt_dev_list = {DevNull} /\ alt_fs_list = {}
  /\ alt_fd_list = [i \in Fds |-> IF i \in Streams THEN File(DevNull, "O_RDONLY", {}) ELSE NoFile]
  /\ alt_max_fd = -1

-----------------------------------------------------------------------------
(* alt_get_fd, alt_release_fd and alt_file_locked                          *)

FreeFds == {i \in Fds : alt_fd_list[i].dev = NoDevice}
FirstFree == CHOOSE i \in FreeFds : \A j \in FreeFds : i <= j

(* alt_max_fd, after entry i has been allocated.                           *)
HighWater(i) == IF i > alt_max_fd THEN i ELSE alt_max_fd

(* Mutant: the standard streams are released like any other.               *)
ReleasedAny(table, i) == [table EXCEPT ![i] = NoFile]

(* The standard streams stay reserved.                                     *)
Released(table, i) ==
  IF i > 2 THEN [table EXCEPT ![i] = NoFile] ELSE table

(* Mutant: the search stops short of the mark.                             *)
LockedBelow(d, i) ==
  \E j \in 0 .. HighWater(i) - 1 : j # i /\ alt_fd_list[j].dev = d /\ "ALT_FD_EXCL" \in alt_fd_list[j].flags

Locked(d, i) ==
  \E j \in 0 .. HighWater(i) : j # i /\ alt_fd_list[j].dev = d /\ "ALT_FD_EXCL" \in alt_fd_list[j].flags

(* The entry open makes of a name that is registered.                      *)
Opened(d, access, f) ==
  File(d, access, IF d \in Devices THEN f \cup {"ALT_FD_DEV"} ELSE f)

-----------------------------------------------------------------------------
(* alt_main, until main is called.                                         *)

DevReg(d) ==
  /\ stage = "sys init" /\ alt_dev_list' = alt_dev_list \cup {d}
  /\ UNCHANGED <<stage, alt_fs_list, alt_fd_list, alt_max_fd>>

FsReg(d) ==
  /\ stage = "sys init" /\ alt_fs_list' = alt_fs_list \cup {d}
  /\ UNCHANGED <<stage, alt_dev_list, alt_fd_list, alt_max_fd>>

(* alt_sys_init comes to its end: the JTAG UART is among the devices.      *)
SysInit ==
  /\ stage = "sys init" /\ Uart \in alt_dev_list
  /\ stage' = "stdout"
  /\ UNCHANGED <<alt_dev_list, alt_fs_list, alt_fd_list, alt_max_fd>>

(* alt_open_fd: open, copy, and release without closing.                   *)
Redirect(from, stream, access, next) ==
  /\ stage = from
  /\ alt_fd_list' = [alt_fd_list EXCEPT ![stream] = Opened(Uart, access, {})]
  /\ alt_max_fd' = HighWater(FirstFree)
  /\ stage' = next
  /\ UNCHANGED <<alt_dev_list, alt_fs_list>>

-----------------------------------------------------------------------------
(* What a program may call.  A descriptor that is not open is never used:  *)
(* the code does not look.                                                 *)

IsOpen(i) == stage = "main" /\ alt_fd_list[i].dev # NoDevice

DevFound(d) == d \in alt_dev_list
FileFound(d) == d \in alt_fs_list

Open(d, access, f) ==
  /\ stage = "main" /\ (DevFound(d) \/ FileFound(d))
  /\ FreeFds # {}
  /\ alt_max_fd' = HighWater(FirstFree)
  /\ \/ /\ d \in Devices => ~Locked(d, FirstFree)
        /\ alt_fd_list' = [alt_fd_list EXCEPT ![FirstFree] = Opened(d, access, f)]
     \/ /\ d \in {DevNull, Uart} => Locked(d, FirstFree)   \* others may refuse on their own
        /\ alt_fd_list' = Released(alt_fd_list, FirstFree)
  /\ UNCHANGED <<stage, alt_dev_list, alt_fs_list>>

(* Released even if the driver's close has failed.                         *)
CloseFile(i) ==
  /\ IsOpen(i)
  /\ alt_fd_list' = Released(alt_fd_list, i)
  /\ UNCHANGED <<stage, alt_dev_list, alt_fs_list, alt_max_fd>>

(* fcntl with F_SETFL                                                      *)
SetFlags(i, f) ==
  /\ IsOpen(i)
  /\ alt_fd_list' = [alt_fd_list EXCEPT ![i].flags = (@ \ {"O_NONBLOCK"}) \cup f]
  /\ UNCHANGED <<stage, alt_dev_list, alt_fs_list, alt_max_fd>>

(* ioctl passes TIOCEXCL and TIOCNXCL on, for devices.                     *)
Ioctl(i) == IsOpen(i) /\ "ALT_FD_DEV" \in alt_fd_list[i].flags

Lock(i) ==
  /\ Ioctl(i)
  /\ \A j \in 0 .. alt_max_fd - 1 : j # i => alt_fd_list[j].dev # alt_fd_list[i].dev
  /\ alt_fd_list' = [alt_fd_list EXCEPT ![i].flags = @ \cup {"ALT_FD_EXCL"}]
  /\ UNCHANGED <<stage, alt_dev_list, alt_fs_list, alt_max_fd>>

Unlock(i) ==
  /\ Ioctl(i)
  /\ alt_fd_list' = [alt_fd_list EXCEPT ![i].flags = @ \ {"ALT_FD_EXCL"}]
  /\ UNCHANGED <<stage, alt_dev_list, alt_fs_list, alt_max_fd>>

FileNext ==
  \/ SysInit \/ (\E d \in Devices : DevReg(d)) \/ (\E d \in FileSystems : FsReg(d))
  \/ Redirect("stdout", 1, "O_WRONLY", "stdin")
  \/ Redirect("stdin", 0, "O_RDONLY", "stderr")
  \/ Redirect("stderr", 2, "O_WRONLY", "main")
  \/ \E d \in Devices \cup FileSystems, access \in Modes, f \in SUBSET {"O_NONBLOCK"} :
       Open(d, access, f)
  \/ \E i \in Fds, f \in SUBSET {"O_NONBLOCK"} : SetFlags(i, f)
  \/ \E i \in Fds : CloseFile(i) \/ Lock(i) \/ Unlock(i)

FileSpec == FileInit /\ [][FileNext]_fileVars

-----------------------------------------------------------------------------
(* Where read and write end up: at the driver, or with EACCES.  The null   *)
(* device has no read.                                                     *)
ReadReaches(i) ==
  IF alt_fd_list[i].mode # "O_WRONLY" /\ alt_fd_list[i].dev # DevNull THEN alt_fd_list[i].dev ELSE "EACCES"

WriteReaches(i) == IF alt_fd_list[i].mode # "O_RDONLY" THEN alt_fd_list[i].dev ELSE "EACCES"

(* No file is open above the mark, where the searches for a device and for *)
(* a lock would not find it; the streams are there from the beginning.     *)
FileInv ==
  /\ FileTypeOK
  /\ \A i \in Fds \ Streams : alt_fd_list[i].dev # NoDevice => i <= alt_max_fd

(* From main on printf reaches the JTAG UART, and so would scanf, whatever *)
(* is opened, closed and locked.                                           *)
StreamsStay ==
  stage = "main" => ReadReaches(0) = Uart /\ WriteReaches(1) = Uart /\ WriteReaches(2) = Uart

(* The files open on a device.                                             *)
Users(d) == {i \in Fds : alt_fd_list[i].dev = d}

(* While a device is locked nobody else gets to open it.                   *)
LockKeepsOut ==
  [][\A i \in Fds : "ALT_FD_EXCL" \in alt_fd_list[i].flags /\ "ALT_FD_EXCL" \in alt_fd_list'[i].flags =>
       Users(alt_fd_list[i].dev)' \subseteq Users(alt_fd_list[i].dev)]_fileVars

(* What alt_fd_lock.c promises at line 38: ioctl(fd, TIOCEXCL) gains       *)
(* exclusive access, so nobody else has the device open when it succeeds.  *)
LockIsExclusive ==
  [][\A i \in Fds : "ALT_FD_EXCL" \notin alt_fd_list[i].flags /\ "ALT_FD_EXCL" \in alt_fd_list'[i].flags =>
       Users(alt_fd_list[i].dev) = {i}]_fileVars
=============================================================================
