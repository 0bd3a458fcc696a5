------------------------------ MODULE MCKernel ------------------------------
(***************************************************************************)
(* Small instances of Kernel.  The configurations choose among these the   *)
(* messages, the names and the bounds that make their question arise.      *)
(***************************************************************************)
EXTENDS Kernel

BootSrv == [n \in {"srv"} |-> "Srv"]
BootApt == [n \in {"apt"} |-> "AptU"]
BootAll ==
    [n \in {"srv", "fs", "apt", "gsp", "hid"} |->
        CASE n = "srv" -> "Srv" [] n = "fs" -> "FsUser" [] n = "apt" -> "AptU"
          [] n = "gsp" -> "GspGpu" [] n = "hid" -> "HidUser"]
BootFs == [n \in {"fs"} |-> "FsUser"]

Msg(cmd, len, name, arg, path) ==
    [cmd |-> cmd, len |-> len, name |-> name, arg |-> arg, path |-> path]

\* srv: register and connect, one of each with too few words.
SrvMessages ==
    {Msg(1, 3, n, 0, "a") : n \in {"srv", "app"}}
    \cup {Msg(5, 2, "app", 0, "a")}
    \cup {Msg(1, 2, "app", 0, "a")}

\* fs: open an archive (Save, RomFs, a bad id, the default), open and read a
\* file through any handle, and commands with too few words.
FsMessages ==
    {Msg(1, 1, "fs", a, "a") : a \in {1, 2, 4}} \cup {Msg(1, 0, "fs", 0, "a")}
    \cup {Msg(2, 2, "fs", h, "a") : h \in Handles}
    \cup {Msg(3, 3, "fs", h, "a") : h \in Handles}
    \cup {Msg(2, 1, "fs", 0, "a")}

\* Between them these change the state of every service: register, open an
\* archive, set the application's state, clear and draw, set the input.
AllMessages ==
    {Msg(1, 3, "apt", 1, "a"), Msg(2, 1, "apt", 5, "a"), Msg(2, 3, "apt", 2, "a"),
     Msg(10, 0, "apt", 0, "a"), Msg(11, 3, "apt", 7, "a")}

\* A message any service answers with success (apt) or failure (others).
AnyMessage == {Msg(1, 0, "apt", 0, "a")}

OneImage == {{"a"}}
TwoImages == {{"a"}, {}}
NoImages == {}

-----------------------------------------------------------------------------
(* Slices of Next: the operations a question is about, with larger bounds  *)
(* than all of Next allows.                                                *)

\* Queueing, serving, blocking and waking; every request is refused, so the
\* handle tables stay as they are.
IpcNext ==
    \/ Pump
    \/ \E p \in Pids, msg \in Messages : QueueCommand(p, MaxHandle, msg)
    \/ \E p \in Pids : PopResponse(p)
    \/ \E p \in Pids : Syscall(p, 50, <<>>)
    \/ TakeScheduleEvents
    \/ \E p \in Pids : SchedulerWake(p)
    \/ LoadRom
    \/ ResetRuntime

IpcSpec == Init /\ [][IpcNext]_vars
IpcLiveSpec == IpcSpec /\ Fairness

\* Requests on sessions, and on ports, which the kernel refuses; connections
\* and closed handles may come between a request and its service.
SendNext ==
    \/ Pump
    \/ \E p \in Pids, h \in Handles, msg \in Messages :
          handles[p][h].type \in {"Session", "Port"} /\ QueueCommand(p, h, msg)
    \/ \E p \in Pids, n \in Names : ConnectToService(p, n)
    \/ \E p \in Pids, h \in Handles :
          handles[p][h] # NoObject /\ Syscall(p, 41, <<h>>)

\* Names and handles: with duplicates, and the reset that gives new numbers.
NameNext ==
    \/ SendNext
    \/ \E p \in Pids, h \in Handles :
          handles[p][h] # NoObject /\ Syscall(p, 39, <<h>>)
    \/ ResetRuntime

NameSpec == Init /\ [][NameNext]_vars

\* The state of all services.
ServiceNext == SendNext \/ DrainGpuHandoff

ServiceSpec == Init /\ [][ServiceNext]_vars

\* The services, called synchronously (a process sends when it has collected the
\* answer to its last request), together with every system call, with and
\* without a handle, and with what the host calls: handles, SWIs, RomFS images,
\* taking what was dispatched last.
HostNext ==
    \/ Pump
    \/ \E p \in Pids, h \in Handles, msg \in Messages :
          /\ handles[p][h].type \in {"Session", "Port"}
          /\ requests[p] = <<>> /\ responses[p] = <<>>
          /\ QueueCommand(p, h, msg)
    \/ \E p \in Pids : PopResponse(p)
    \/ \E p \in Pids, n \in Names : ConnectToService(p, n)
    \/ \E p \in Pids, imm \in SwiNumbers, h \in Handles : Syscall(p, imm, <<h>>)
    \/ \E p \in Pids, h \in Handles : HandleCall(p, h)
    \/ \E imm \in SwiNumbers : HandleSwi(imm)
    \/ \E img \in Images : MountRomFs(img)
    \/ DrainGpuHandoff
    \/ TakeLastIpc
    \/ TakeLastSwi
    \/ ResetRuntime

HostSpec == Init /\ [][HostNext]_vars

=============================================================================
