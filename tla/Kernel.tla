------------------------------- MODULE Kernel -------------------------------
(***************************************************************************)
(* The high-level kernel of the emulator (src/src/core/kernel.rs): guest   *)
(* processes, their handle tables, the service ports, the IPC queues and   *)
(* the five built-in services.                                             *)
(*                                                                         *)
(* Every public operation of `Kernel` that changes state is an action.     *)
(* The kernel is single-threaded; what is concurrent is the ORDER in which *)
(* the guest, the emulator loop and the scheduler call it, which Next      *)
(* leaves open, and the iteration order of its HashMaps, which the code    *)
(* cannot rely on and which is a choice here (Pump, Numberings).           *)
(*                                                                         *)
(* Left out: `ticks`, `gpu_frame_completions` and `last_error`, which no   *)
(* kernel operation reads, and all but the last entry of `svc_log`.        *)
(***************************************************************************)
EXTENDS Integers, Sequences, FiniteSets

CONSTANTS
    Pids,        \* process ids, KernelPid among them
    KernelPid,   \* KERNEL_PROCESS_ID
    Names,       \* service names a request can spell
    Boot,        \* the bootstrap registry: name -> target
    Paths,       \* file names a request can spell
    Images,      \* the RomFS images a host can mount, each a set of Paths
    HandleBase,  \* first handle number, 0x20 in the code
    MaxHandle,   \* last handle number, u32::MAX in the code
    Messages,    \* the IPC messages processes send
    SwiNumbers,  \* the SWI immediates the guest executes
    MaxRead,     \* bound: longest read a RomFS file returns
    MaxSent,     \* bound: requests a process queues
    MaxWakes     \* bound: wakes outstanding for a process

Targets == {"Srv", "FsUser", "AptU", "GspGpu", "HidUser"}
Archives == 0..3
RomFsArchive == 2
Handles == HandleBase..MaxHandle
BootEnd == HandleBase + Cardinality(DOMAIN Boot)

(***************************************************************************)
(* A message, as far as the services look at it: the command, the number   *)
(* of normal words, the name the first two words spell, the first word as  *)
(* a number (a handle, an archive id, a colour, the buttons ...), and the  *)
(* file name the second word spells.  A command buffer that does not parse *)
(* is queued as the message with cmd 0 and no words.                       *)
(***************************************************************************)
Message == [cmd : Nat, len : Nat, name : Names, arg : Nat, path : Paths]

ASSUME KernelAssumption ==
    /\ KernelPid \in Pids
    /\ IsFiniteSet(DOMAIN Boot)
    /\ DOMAIN Boot \subseteq Names
    /\ Boot \in [DOMAIN Boot -> Targets]
    /\ Images \subseteq SUBSET Paths
    /\ HandleBase \in Nat \ {0}
    /\ MaxHandle \in Nat
    /\ BootEnd <= MaxHandle
    /\ Messages \subseteq Message
    /\ SwiNumbers \subseteq Nat
    /\ MaxRead \in Nat
    /\ MaxSent \in Nat
    /\ MaxWakes \in Nat \ {0}

NoObject == [type |-> "None"]
Port(t) == [type |-> "Port", target |-> t]
Session(t) == [type |-> "Session", target |-> t]
Event == [type |-> "Event"]
Archive(a) == [type |-> "Archive", archive |-> a]
File(a, f) == [type |-> "File", archive |-> a, path |-> f]

Objects ==
    {Port(t) : t \in Targets} \cup {Session(t) : t \in Targets} \cup {Event}
    \cup {Archive(a) : a \in Archives} \cup {File(a, f) : a \in Archives, f \in Paths}

Results == {"Ok", "NotFound", "InvalidHandle", "InvalidCommand"}

NoPort == [pid |-> KernelPid, handle |-> 0]
NoTarget == "None"
NoIpc == [cmd |-> 0, handle |-> 0, result |-> "None"]
NoSwi == -1
NoRomFs == [mounted |-> FALSE, files |-> {}]

VARIABLES
    processes,     \* the pids that have a ProcessState
    handles,       \* handle table of each process
    requests,      \* pending_requests of each process
    responses,     \* pending_responses of each process
    lastResult,    \* last_result_code of each process
    blocked,       \* blocked_on_ipc of each process
    nextHandle,    \* next_handle, one counter for all processes
    servicePorts,  \* service_ports: name -> (pid, handle)
    registry,      \* registry: name -> target
    appState,      \* service_runtime.app_state
    gpuHandoff,    \* service_runtime.gpu_handoff
    hid,           \* service_runtime.hid_state, as one number
    romfs,         \* vfs.romfs
    lastIpc,       \* last_ipc
    lastSwi,       \* last_service_imm24, and the last entry of svc_log
    pendingWakes,  \* pending_schedule_events, how many for each process
    scheduled,     \* wakes handed to the scheduler and not yet delivered
    stranded,      \* history: blocked processes whose wakes a load_rom dropped
    sent,          \* history: requests the process has queued
    got            \* history: place of the last response it popped

processVars == <<processes, requests, responses, lastResult, blocked, sent, got>>
handleVars == <<handles, nextHandle>>
nameVars == <<servicePorts, registry>>
runtimeVars == <<appState, gpuHandoff, hid>>
wakeVars == <<pendingWakes, scheduled, stranded>>
vars == <<processVars, handleVars, nameVars, runtimeVars, wakeVars,
          romfs, lastIpc, lastSwi>>

Request == [session : Nat, msg : Messages, tag : Nat]
Response == [to : Nat, result : Results, words : Seq(Nat)]

(***************************************************************************)
(* Init: Kernel::new.  The bootstrap services are registered in the        *)
(* iteration order of a HashMap, so any numbering of their ports can come  *)
(* out.                                                                    *)
(***************************************************************************)
Numberings ==
    {f \in [DOMAIN Boot -> HandleBase..(BootEnd - 1)] :
        \A m, n \in DOMAIN Boot : f[m] = f[n] => m = n}

BootHandles(num) ==
    [p \in Pids |-> [h \in Handles |->
        IF p = KernelPid /\ \E n \in DOMAIN Boot : num[n] = h
        THEN Port(Boot[CHOOSE n \in DOMAIN Boot : num[n] = h])
        ELSE NoObject]]

BootPorts(num) ==
    [n \in Names |-> IF n \in DOMAIN Boot
                     THEN [pid |-> KernelPid, handle |-> num[n]]
                     ELSE NoPort]

BootRegistry == [n \in Names |-> IF n \in DOMAIN Boot THEN Boot[n] ELSE NoTarget]

Init ==
    /\ processes = {KernelPid}
    /\ requests = [p \in Pids |-> <<>>]
    /\ responses = [p \in Pids |-> <<>>]
    /\ lastResult = [p \in Pids |-> "Ok"]
    /\ blocked = [p \in Pids |-> FALSE]
    /\ nextHandle = BootEnd
    /\ \E num \in Numberings :
          /\ handles = BootHandles(num)
          /\ servicePorts = BootPorts(num)
    /\ registry = BootRegistry
    /\ appState = 1
    /\ gpuHandoff = <<>>
    /\ hid = 0
    /\ romfs = NoRomFs
    /\ lastIpc = NoIpc
    /\ lastSwi = NoSwi
    /\ pendingWakes = [p \in Pids |-> 0]
    /\ scheduled = [p \in Pids |-> 0]
    /\ stranded = {}
    /\ sent = [p \in Pids |-> 0]
    /\ got = [p \in Pids |-> 0]

-----------------------------------------------------------------------------
(* Handles *)

Object(p, h) == IF h \in Handles THEN handles[p][h] ELSE NoObject

\* Mutations of Allocate: the counter overflows instead of saturating; the
\* counter is not advanced; the lowest number free in the process is used.
AllocateOverflows(p, live, obj) ==
    /\ nextHandle' = nextHandle + 1
    /\ handles' = IF p \in live
                  THEN [handles EXCEPT ![p][nextHandle] = obj]
                  ELSE handles

AllocateStays(p, live, obj) ==
    /\ nextHandle' = nextHandle
    /\ handles' = IF p \in live
                  THEN [handles EXCEPT ![p][nextHandle] = obj]
                  ELSE handles

AllocateFirstFree(p, live, obj) ==
    /\ nextHandle' = IF nextHandle = MaxHandle THEN MaxHandle ELSE nextHandle + 1
    /\ \E h \in HandleBase..MaxHandle :
          /\ \A g \in HandleBase..h : handles[p][g] = NoObject <=> g = h
          /\ handles' = IF p \in live THEN [handles EXCEPT ![p][h] = obj] ELSE handles

\* allocate_handle: the counter saturates, so at MaxHandle the number is
\* handed out again and the entry overwritten.  A process without a
\* ProcessState does not keep the object.
Allocate(p, live, obj) ==
    /\ nextHandle' = IF nextHandle = MaxHandle THEN MaxHandle ELSE nextHandle + 1
    /\ handles' = IF p \in live
                  THEN [handles EXCEPT ![p][nextHandle] = obj]
                  ELSE handles

Duplicate(p, live, h) ==
    \/ /\ Object(p, h) # NoObject
       /\ Allocate(p, live, Object(p, h))
    \/ /\ Object(p, h) = NoObject
       /\ UNCHANGED handleVars

\* Mutation of Close: the number goes back to the allocator.
CloseReuses(p, h) ==
    /\ handles' = IF h \in Handles
                  THEN [handles EXCEPT ![p][h] = NoObject]
                  ELSE handles
    /\ nextHandle' = IF Object(p, h) # NoObject THEN h ELSE nextHandle

Close(p, h) ==
    /\ handles' = IF h \in Handles
                  THEN [handles EXCEPT ![p][h] = NoObject]
                  ELSE handles
    /\ UNCHANGED nextHandle

-----------------------------------------------------------------------------
(* Services.  Each takes the process and the request it has popped.        *)

\* Mutations of Reply: the answer jumps the queue; the request stays queued.
ReplyPushFront(p, req, result, words) ==
    /\ requests' = [requests EXCEPT ![p] = Tail(@)]
    /\ responses' = [responses EXCEPT ![p] =
                        <<[to |-> req.tag, result |-> result, words |-> words]>> \o @]
    /\ lastResult' = [lastResult EXCEPT ![p] = result]
    /\ lastIpc' = [cmd |-> req.msg.cmd, handle |-> req.session, result |-> result]

ReplyPeeks(p, req, result, words) ==
    /\ UNCHANGED requests
    /\ responses' = [responses EXCEPT ![p] =
                        Append(@, [to |-> req.tag, result |-> result, words |-> words])]
    /\ lastResult' = [lastResult EXCEPT ![p] = result]
    /\ lastIpc' = [cmd |-> req.msg.cmd, handle |-> req.session, result |-> result]

Reply(p, req, result, words) ==
    /\ requests' = [requests EXCEPT ![p] = Tail(@)]
    /\ responses' = [responses EXCEPT ![p] =
                        Append(@, [to |-> req.tag, result |-> result, words |-> words])]
    /\ lastResult' = [lastResult EXCEPT ![p] = result]
    /\ lastIpc' = [cmd |-> req.msg.cmd, handle |-> req.session, result |-> result]

Refuse(p, req, result) ==
    /\ Reply(p, req, result, <<>>)
    /\ UNCHANGED <<handleVars, nameVars, runtimeVars>>

\* The result of opening something: a fresh handle to obj, in the reply.
ReplyHandle(p, req, obj) ==
    /\ Allocate(p, processes, obj)
    /\ Reply(p, req, "Ok", <<nextHandle>>)
    /\ UNCHANGED <<nameVars, runtimeVars>>

\* register_service_port, after registry.register: any process may publish
\* any name, an existing one included, and the port's target is always Srv.
RegisterService(p, req) ==
    /\ Allocate(p, processes, Port("Srv"))
    /\ registry' = [registry EXCEPT ![req.msg.name] = "Srv"]
    /\ servicePorts' = [servicePorts EXCEPT ![req.msg.name] =
                            [pid |-> p, handle |-> nextHandle]]
    /\ Reply(p, req, "Ok", <<nextHandle>>)
    /\ UNCHANGED runtimeVars

\* What connect_to_service finds behind a name: the object the owner's
\* handle names now, if that is a port.
Published(n) == Object(servicePorts[n].pid, servicePorts[n].handle)
IsPublished(n) == Published(n).type = "Port"

DispatchSrv(p, req) ==
    \/ /\ req.msg.cmd = 1 /\ req.msg.len >= 3
       /\ RegisterService(p, req)
    \/ /\ req.msg.cmd = 5 /\ req.msg.len >= 2 /\ IsPublished(req.msg.name)
       /\ ReplyHandle(p, req, Session(Published(req.msg.name).target))
    \/ /\ req.msg.cmd = 5 /\ req.msg.len >= 2 /\ ~IsPublished(req.msg.name)
       /\ Refuse(p, req, "NotFound")
    \/ /\ ~(req.msg.cmd = 1 /\ req.msg.len >= 3)
       /\ ~(req.msg.cmd = 5 /\ req.msg.len >= 2)
       /\ Refuse(p, req, "InvalidCommand")

ArchiveId(msg) == IF msg.len = 0 THEN 1 ELSE msg.arg

\* Mutation of CanOpenArchive: RomFS opens before it is mounted.
CanOpenAnyArchive(a) == a \in Archives

CanOpenArchive(a) == a \in Archives /\ (a = RomFsArchive => romfs.mounted)
CanOpenFile(a, f) == a = RomFsArchive => romfs.mounted /\ f \in romfs.files

OpenArchive(p, req) ==
    LET a == ArchiveId(req.msg) IN
    \/ CanOpenArchive(a) /\ ReplyHandle(p, req, Archive(a))
    \/ ~CanOpenArchive(a) /\ Refuse(p, req, "NotFound")

OpenFile(p, req) ==
    LET dir == Object(p, req.msg.arg) IN
    \/ /\ dir.type = "Archive" /\ CanOpenFile(dir.archive, req.msg.path)
       /\ ReplyHandle(p, req, File(dir.archive, req.msg.path))
    \/ /\ dir.type = "Archive" /\ ~CanOpenFile(dir.archive, req.msg.path)
       /\ Refuse(p, req, "NotFound")
    \/ /\ dir.type # "Archive"
       /\ Refuse(p, req, "InvalidHandle")

\* Only RomFS files have data; the reply holds the length read.
ReadFile(p, req) ==
    LET file == Object(p, req.msg.arg) IN
    \/ /\ file.type = "File" /\ CanOpenFile(file.archive, file.path)
       /\ \E n \in IF file.archive = RomFsArchive THEN 0..MaxRead ELSE {0} :
             Reply(p, req, "Ok", <<n>>)
       /\ UNCHANGED <<handleVars, nameVars, runtimeVars>>
    \/ /\ file.type = "File" /\ ~CanOpenFile(file.archive, file.path)
       /\ Refuse(p, req, "NotFound")
    \/ /\ file.type # "File"
       /\ Refuse(p, req, "InvalidHandle")

DispatchFs(p, req) ==
    \/ req.msg.cmd = 1 /\ OpenArchive(p, req)
    \/ req.msg.cmd = 2 /\ req.msg.len >= 2 /\ OpenFile(p, req)
    \/ req.msg.cmd = 3 /\ req.msg.len >= 3 /\ ReadFile(p, req)
    \/ /\ req.msg.cmd # 1
       /\ ~(req.msg.cmd = 2 /\ req.msg.len >= 2)
       /\ ~(req.msg.cmd = 3 /\ req.msg.len >= 3)
       /\ Refuse(p, req, "InvalidCommand")

DispatchApt(p, req) ==
    \/ /\ req.msg.cmd \in {1, 2}
       /\ appState' = IF req.msg.cmd = 2 /\ req.msg.len >= 1 THEN req.msg.arg
                      ELSE appState
       /\ Reply(p, req, "Ok", <<appState'>>)
       /\ UNCHANGED <<handleVars, nameVars, gpuHandoff, hid>>
    \/ /\ req.msg.cmd \notin {1, 2}
       /\ Refuse(p, req, "InvalidCommand")

\* One packet list per command: Clear is one packet, DrawPoint two.
GpuPackets(msg) == IF msg.cmd = 1 THEN "Clear" ELSE "DrawPoint"

DispatchGsp(p, req) ==
    \/ /\ req.msg.cmd = 1 \/ (req.msg.cmd = 2 /\ req.msg.len >= 3)
       /\ gpuHandoff' = Append(gpuHandoff, GpuPackets(req.msg))
       /\ Reply(p, req, "Ok", <<>>)
       /\ UNCHANGED <<handleVars, nameVars, appState, hid>>
    \/ /\ ~(req.msg.cmd = 1 \/ (req.msg.cmd = 2 /\ req.msg.len >= 3))
       /\ Refuse(p, req, "InvalidCommand")

DispatchHid(p, req) ==
    \/ /\ req.msg.cmd = 1
       /\ hid' = 0
       /\ Reply(p, req, "Ok", <<1>>)
       /\ UNCHANGED <<handleVars, nameVars, appState, gpuHandoff>>
    \/ /\ req.msg.cmd = 10
       /\ Reply(p, req, "Ok", <<hid>>)
       /\ UNCHANGED <<handleVars, nameVars, runtimeVars>>
    \/ /\ req.msg.cmd = 11 /\ req.msg.len >= 3
       /\ hid' = req.msg.arg
       /\ Reply(p, req, "Ok", <<>>)
       /\ UNCHANGED <<handleVars, nameVars, appState, gpuHandoff>>
    \/ /\ req.msg.cmd \notin {1, 10} /\ ~(req.msg.cmd = 11 /\ req.msg.len >= 3)
       /\ Refuse(p, req, "InvalidCommand")

\* Mutation of DispatchRequest: a port is as good as a session.
DispatchAnyEndpoint(p, req) ==
    LET obj == Object(p, req.session) IN
    \/ obj.type \notin {"Session", "Port"} /\ Refuse(p, req, "InvalidHandle")
    \/ obj \in {Session("Srv"), Port("Srv")} /\ DispatchSrv(p, req)
    \/ obj \in {Session("FsUser"), Port("FsUser")} /\ DispatchFs(p, req)
    \/ obj \in {Session("AptU"), Port("AptU")} /\ DispatchApt(p, req)
    \/ obj \in {Session("GspGpu"), Port("GspGpu")} /\ DispatchGsp(p, req)
    \/ obj \in {Session("HidUser"), Port("HidUser")} /\ DispatchHid(p, req)

DispatchRequest(p, req) ==
    LET obj == Object(p, req.session) IN
    \/ obj.type # "Session" /\ Refuse(p, req, "InvalidHandle")
    \/ obj = Session("Srv") /\ DispatchSrv(p, req)
    \/ obj = Session("FsUser") /\ DispatchFs(p, req)
    \/ obj = Session("AptU") /\ DispatchApt(p, req)
    \/ obj = Session("GspGpu") /\ DispatchGsp(p, req)
    \/ obj = Session("HidUser") /\ DispatchHid(p, req)

\* Mutation of Servable: the loop looks at one process and gives up.
ServableKernelOnly(flags) ==
    {p \in {KernelPid} : ~flags[p] /\ requests[p] # <<>>}

\* pump_ipc_events(1), with the blocked flags as its caller has left them:
\* some process that is not blocked and has a request is served.  blocked,
\* processes and the histories are the caller's to set.
Servable(flags) == {p \in processes : ~flags[p] /\ requests[p] # <<>>}

PumpOne(flags) ==
    \/ \E p \in Servable(flags) : DispatchRequest(p, Head(requests[p]))
    \/ /\ Servable(flags) = {}
       /\ UNCHANGED <<requests, responses, lastResult, lastIpc,
                      handleVars, nameVars, runtimeVars>>

-----------------------------------------------------------------------------
(* Operations *)

\* pump_ipc_events, one request at a time, as the emulator loop calls it.
Pump ==
    /\ Servable(blocked) # {}
    /\ PumpOne(blocked)
    /\ UNCHANGED <<processes, blocked, sent, got, wakeVars, romfs, lastSwi>>

\* Mutation of QueueCommand: the process stays blocked.
QueueKeepsBlocked(p, h, msg) ==
    /\ sent[p] < MaxSent
    /\ processes' = processes \cup {p}
    /\ requests' = [requests EXCEPT ![p] =
                        Append(@, [session |-> h, msg |-> msg, tag |-> sent[p] + 1])]
    /\ sent' = [sent EXCEPT ![p] = @ + 1]
    /\ UNCHANGED <<blocked, responses, lastResult, got, handleVars, nameVars,
                   runtimeVars, wakeVars, romfs, lastIpc, lastSwi>>

QueueCommand(p, h, msg) ==
    /\ sent[p] < MaxSent
    /\ processes' = processes \cup {p}
    /\ requests' = [requests EXCEPT ![p] =
                        Append(@, [session |-> h, msg |-> msg, tag |-> sent[p] + 1])]
    /\ blocked' = [blocked EXCEPT ![p] = FALSE]
    /\ stranded' = stranded \ {p}
    /\ sent' = [sent EXCEPT ![p] = @ + 1]
    /\ UNCHANGED <<responses, lastResult, got, handleVars, nameVars, runtimeVars,
                   pendingWakes, scheduled, romfs, lastIpc, lastSwi>>

PopResponse(p) ==
    /\ responses[p] # <<>>
    /\ responses' = [responses EXCEPT ![p] = Tail(@)]
    /\ got' = [got EXCEPT ![p] = Head(responses[p]).to]
    /\ UNCHANGED <<processes, requests, lastResult, blocked, sent, handleVars,
                   nameVars, runtimeVars, wakeVars, romfs, lastIpc, lastSwi>>

\* SendSyncRequest (SVC 0x32) with the caller's queue empty blocks it and
\* asks for a wake; otherwise it pumps one request, whosever it is.
SendSyncRequest(p) ==
    \/ /\ requests[p] = <<>>
       /\ pendingWakes[p] + scheduled[p] < MaxWakes
       /\ blocked' = [blocked EXCEPT ![p] = TRUE]
       /\ pendingWakes' = [pendingWakes EXCEPT ![p] = @ + 1]
       /\ stranded' = stranded \ {p}
       /\ UNCHANGED <<requests, responses, lastResult, lastIpc, handleVars,
                      nameVars, runtimeVars>>
    \/ /\ requests[p] # <<>>
       /\ PumpOne(blocked)
       /\ UNCHANGED <<blocked, pendingWakes, stranded>>

\* dispatch_syscall: args is <<>> or <<handle>>.
DispatchSyscall(p, imm, args) ==
    /\ processes' = processes \cup {p}
    /\ \/ imm = 50 /\ SendSyncRequest(p)
       \/ /\ imm # 50
          /\ \/ imm = 35 /\ Allocate(p, processes', Event)
             \/ imm = 39 /\ args # <<>> /\ Duplicate(p, processes', args[1])
             \/ imm = 41 /\ args # <<>> /\ Close(p, args[1])
             \/ /\ imm # 35 /\ (imm \in {39, 41} => args = <<>>)
                /\ UNCHANGED handleVars
          /\ UNCHANGED <<requests, responses, lastResult, lastIpc, blocked,
                         nameVars, runtimeVars, pendingWakes, stranded>>
    /\ UNCHANGED <<scheduled, sent, got, romfs>>

Syscall(p, imm, args) ==
    /\ DispatchSyscall(p, imm, args)
    /\ UNCHANGED lastSwi

\* handle_swi: the emulator passes every SWI to the kernel process, and
\* never an argument.
HandleSwi(imm) ==
    /\ DispatchSyscall(KernelPid, imm, <<>>)
    /\ lastSwi' = imm

\* Mutation of TakeScheduleEvents: one event is scheduled, all are dropped.
TakeOneScheduleEvent ==
    /\ \E p \in Pids :
          /\ pendingWakes[p] > 0
          /\ scheduled' = [scheduled EXCEPT ![p] = @ + 1]
    /\ pendingWakes' = [p \in Pids |-> 0]
    /\ UNCHANGED <<processVars, handleVars, nameVars, runtimeVars, stranded, romfs,
                   lastIpc, lastSwi>>

\* take_pending_schedule_events, and the schedule_in the emulator makes of
\* each event.
TakeScheduleEvents ==
    /\ \E p \in Pids : pendingWakes[p] > 0
    /\ pendingWakes' = [p \in Pids |-> 0]
    /\ scheduled' = [p \in Pids |-> scheduled[p] + pendingWakes[p]]
    /\ UNCHANGED <<processVars, handleVars, nameVars, runtimeVars, stranded, romfs,
                   lastIpc, lastSwi>>

\* Mutation of SchedulerWake: the wake only pumps.
WakeKeepsBlocked(p) ==
    /\ scheduled[p] > 0
    /\ scheduled' = [scheduled EXCEPT ![p] = @ - 1]
    /\ PumpOne(blocked)
    /\ UNCHANGED <<processes, blocked, sent, got, pendingWakes, stranded, romfs, lastSwi>>

\* on_scheduler_wake, when the scheduler delivers a wake.
SchedulerWake(p) ==
    LET flags == [blocked EXCEPT ![p] = FALSE] IN
    /\ scheduled[p] > 0
    /\ scheduled' = [scheduled EXCEPT ![p] = @ - 1]
    /\ blocked' = flags
    /\ PumpOne(flags)
    /\ stranded' = stranded \ {p}
    /\ UNCHANGED <<processes, sent, got, pendingWakes, romfs, lastSwi>>

ConnectToService(p, n) ==
    /\ processes' = processes \cup {p}
    /\ \/ IsPublished(n) /\ Allocate(p, processes', Session(Published(n).target))
       \/ ~IsPublished(n) /\ UNCHANGED handleVars
    /\ UNCHANGED <<requests, responses, lastResult, blocked, sent, got, nameVars,
                   runtimeVars, wakeVars, romfs, lastIpc, lastSwi>>

\* The public create_event, duplicate_handle and close_handle: unlike the
\* system calls, they do not make the process exist.
HandleCall(p, h) ==
    /\ \/ Allocate(p, processes, Event)
       \/ Duplicate(p, processes, h)
       \/ Close(p, h)
    /\ UNCHANGED <<processVars, nameVars, runtimeVars, wakeVars, romfs, lastIpc,
                   lastSwi>>

MountRomFs(img) ==
    /\ romfs' = [mounted |-> TRUE, files |-> img]
    /\ UNCHANGED <<processVars, handleVars, nameVars, runtimeVars, wakeVars,
                   lastIpc, lastSwi>>

DrainGpuHandoff ==
    /\ gpuHandoff # <<>>
    /\ gpuHandoff' = <<>>
    /\ UNCHANGED <<processVars, handleVars, nameVars, appState, hid, wakeVars,
                   romfs, lastIpc, lastSwi>>

TakeLastIpc ==
    /\ lastIpc # NoIpc
    /\ lastIpc' = NoIpc
    /\ UNCHANGED <<processVars, handleVars, nameVars, runtimeVars, wakeVars,
                   romfs, lastSwi>>

TakeLastSwi ==
    /\ lastSwi # NoSwi
    /\ lastSwi' = NoSwi
    /\ UNCHANGED <<processVars, handleVars, nameVars, runtimeVars, wakeVars,
                   romfs, lastIpc>>

\* Emulator3ds::load_rom resets the scheduler, and with it the wakes it was
\* handed, but not the kernel: a process that waits for one stays blocked.
LoadRom ==
    /\ scheduled' = [p \in Pids |-> 0]
    /\ stranded' = {p \in Pids : blocked[p] /\ pendingWakes[p] = 0}
    /\ UNCHANGED <<processVars, handleVars, nameVars, runtimeVars, pendingWakes,
                   romfs, lastIpc, lastSwi>>

\* Emulator3ds::reset: reset_runtime here, and scheduler.reset, which drops
\* the wakes that were handed over.
ResetRuntime ==
    /\ processes' = {KernelPid}
    /\ requests' = [p \in Pids |-> <<>>]
    /\ responses' = [p \in Pids |-> <<>>]
    /\ lastResult' = [p \in Pids |-> "Ok"]
    /\ blocked' = [p \in Pids |-> FALSE]
    /\ nextHandle' = BootEnd
    /\ \E num \in Numberings :
          /\ handles' = BootHandles(num)
          /\ servicePorts' = BootPorts(num)
    /\ registry' = BootRegistry
    /\ appState' = 1
    /\ gpuHandoff' = <<>>
    /\ hid' = 0
    /\ romfs' = NoRomFs
    /\ lastIpc' = NoIpc
    /\ lastSwi' = NoSwi
    /\ pendingWakes' = [p \in Pids |-> 0]
    /\ scheduled' = [p \in Pids |-> 0]
    /\ stranded' = {}
    /\ sent' = [p \in Pids |-> 0]
    /\ got' = [p \in Pids |-> 0]

Next ==
    \/ Pump
    \/ \E p \in Pids, h \in Handles, msg \in Messages : QueueCommand(p, h, msg)
    \/ \E p \in Pids : PopResponse(p)
    \/ \E p \in Pids, imm \in SwiNumbers, args \in {<<>>} \cup {<<h>> : h \in Handles} :
          Syscall(p, imm, args)
    \/ \E imm \in SwiNumbers : HandleSwi(imm)
    \/ TakeScheduleEvents
    \/ \E p \in Pids : SchedulerWake(p)
    \/ \E p \in Pids, n \in Names : ConnectToService(p, n)
    \/ \E p \in Pids, h \in Handles : HandleCall(p, h)
    \/ \E img \in Images : MountRomFs(img)
    \/ DrainGpuHandoff
    \/ TakeLastIpc
    \/ TakeLastSwi
    \/ LoadRom
    \/ ResetRuntime

Spec == Init /\ [][Next]_vars

(***************************************************************************)
(* Fairness: every iteration of run_cycles pumps, and drains the scheduler *)
(* of what is due; the wakes of a SWI are taken right after it.            *)
(***************************************************************************)
Fairness ==
    /\ WF_vars(Pump)
    /\ WF_vars(TakeScheduleEvents)
    /\ \A p \in Pids : WF_vars(SchedulerWake(p))

LiveSpec == Spec /\ Fairness

-----------------------------------------------------------------------------
(* Properties *)

\* Every variable holds a value of its type.
TypeOK ==
    /\ processes \subseteq Pids
    /\ handles \in [Pids -> [Handles -> Objects \cup {NoObject}]]
    /\ requests \in [Pids -> Seq(Request)]
    /\ responses \in [Pids -> Seq(Response)]
    /\ lastResult \in [Pids -> Results]
    /\ blocked \in [Pids -> BOOLEAN]
    /\ nextHandle \in BootEnd..MaxHandle
    /\ servicePorts \in [Names -> [pid : Pids, handle : Nat]]
    /\ registry \in [Names -> Targets \cup {NoTarget}]
    /\ appState \in Nat
    /\ gpuHandoff \in Seq({"Clear", "DrawPoint"})
    /\ hid \in Nat
    /\ romfs \in [mounted : BOOLEAN, files : SUBSET Paths]
    /\ lastIpc \in [cmd : Nat, handle : Nat, result : Results \cup {"None"}]
    /\ lastSwi \in Nat \cup {NoSwi}
    /\ pendingWakes \in [Pids -> Nat]
    /\ scheduled \in [Pids -> Nat]
    /\ stranded \subseteq Pids
    /\ sent \in [Pids -> Nat]
    /\ got \in [Pids -> Nat]

\* A process blocked on IPC has nothing queued, so the pump's skipping of
\* blocked processes (kernel.rs:187) never holds a request back.
BlockedHasNoRequests ==
    \A p \in Pids : blocked[p] => requests[p] = <<>>

\* A blocked process always has a wake on its way: in the kernel's queue of
\* schedule events, or with the scheduler.  Wakes that come early or late,
\* for a process that was unblocked meanwhile, do not use it up.  Only a
\* load_rom can strand it, and only until it blocks, queues or wakes again.
BlockedHasWake ==
    \A p \in Pids : blocked[p] /\ p \notin stranded => pendingWakes[p] + scheduled[p] > 0

\* allocate_handle never gives two objects one number, in one process or in
\* two, as long as its counter has not saturated: what is in use lies below
\* the counter, and no number is in use in two tables.
HandlesFresh ==
    \A p \in Pids, h \in Handles :
        h # MaxHandle /\ handles[p][h] # NoObject =>
            /\ h < nextHandle
            /\ \A q \in Pids \ {p} : handles[q][h] = NoObject

\* The name table, the registry and the owner's handle table agree: a name
\* leads to nothing, or to a port of the target the registry has for it.
\* A closed port's number never becomes something else that a client would
\* be connected to (until the counter saturates).
PortsFollowRegistry ==
    \A n \in Names :
        LET port == servicePorts[n] IN
        /\ registry[n] = NoTarget <=> port = NoPort
        /\ port # NoPort /\ port.handle # MaxHandle =>
              /\ port.handle \in HandleBase..(nextHandle - 1)
              /\ handles[port.pid][port.handle] \in {Port(registry[n]), NoObject}

\* An archive or file handle of the RomFS archive exists only while a RomFS
\* is mounted.
RomFsHandlesBacked ==
    \A p \in Pids, h \in Handles :
        /\ handles[p][h].type \in {"Archive", "File"}
        /\ handles[p][h].archive = RomFsArchive
        => romfs.mounted

\* The places of a process's responses and then of its requests follow the
\* last one collected without a gap: no request is lost, answered twice or
\* overtaken, however pumps, system calls and wakes interleave.
NothingLost ==
    \A p \in Pids :
        /\ \A i \in 1..Len(responses[p]) : responses[p][i].to = got[p] + i
        /\ \A i \in 1..Len(requests[p]) :
              requests[p][i].tag = got[p] + Len(responses[p]) + i
        /\ sent[p] = got[p] + Len(responses[p]) + Len(requests[p])

\* What a handle names never changes under its holder, and the number of a
\* closed handle names nothing again: both up to the saturation of the
\* counter, and up to a reset.
HandleStability ==
    [][\/ \A p \in Pids, h \in Handles :
             h # MaxHandle /\ h < nextHandle =>
                handles'[p][h] \in {handles[p][h], NoObject}
       \/ ResetRuntime]_vars

\* In this step, a request of p on its session with service t was served.
ServedOn(p, t) ==
    /\ requests[p] # <<>>
    /\ requests'[p] = Tail(requests[p])
    /\ Object(p, Head(requests[p]).session) = Session(t)

\* Only a process that holds a session on a service acts on that service's
\* state: the name table (srv:), archives and files (fs:USER), the app state
\* (apt:u), the GPU hand-off (gsp::Gpu), the input state (hid:USER).  A port
\* or any other handle never stands in for the session.
ServiceAuthority ==
    [][\/ /\ nameVars' # nameVars => \E p \in Pids : ServedOn(p, "Srv")
          /\ \A p \in Pids, h \in Handles :
                /\ handles'[p][h].type \in {"Archive", "File"}
                /\ \A g \in Handles : handles'[p][h] # handles[p][g]
                => ServedOn(p, "FsUser")
          /\ appState' # appState => \E p \in Pids : ServedOn(p, "AptU")
          /\ Len(gpuHandoff') > Len(gpuHandoff) => \E p \in Pids : ServedOn(p, "GspGpu")
          /\ hid' # hid => \E p \in Pids : ServedOn(p, "HidUser")
       \/ ResetRuntime]_vars

\* The kernel implements the IPC channels: queueing is Submit, serving a
\* request is Answer, popping a response is Collect.
Channels == INSTANCE IpcChannels WITH
    submitted <- sent,
    answered <- [p \in Pids |-> sent[p] - Len(requests[p])],
    delivered <- got

ImplementsChannels == Channels!ChanSpec

\* ... and, with the emulator loop pumping, no request is held for ever,
\* although the pump may pick any process that has one.  MaxSent is part of
\* this: a process that queued a request before every pump, without end, could
\* keep the others waiting.
AnswersEveryRequest == Channels!ChanLiveSpec

\* A process that SendSyncRequest has blocked is eventually unblocked, unless
\* a load_rom strands it or the host never stops loading ROMs.
BlockedIsWoken ==
    <>[][~LoadRom]_vars
    => \A p \in Pids : blocked[p] ~> ~blocked[p] \/ p \in stranded

=============================================================================
