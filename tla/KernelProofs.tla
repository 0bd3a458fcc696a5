---------------------------- MODULE KernelProofs ----------------------------
(***************************************************************************)
(* Theorems about Kernel, for every set of processes, names, messages and  *)
(* every handle width.                                                     *)
(*                                                                         *)
(* The services differ in what they compute, but each does one of a few    *)
(* things to the handle tables and the queues.  The lemmas state those     *)
(* effects once, and the invariants are proved from the effects.           *)
(***************************************************************************)
EXTENDS Kernel, FiniteSetTheorems, TLAPS

IpcRecords == [cmd : Nat, handle : Nat, result : Results \cup {"None"}]

\* What serving a request does to the queues of its process.
Served(p) ==
    \E result \in Results, words \in Seq(Nat) :
        /\ requests' = [requests EXCEPT ![p] = Tail(@)]
        /\ responses' = [responses EXCEPT ![p] =
                            Append(@, [to |-> Head(requests[p]).tag,
                                       result |-> result, words |-> words])]
        /\ lastResult' = [lastResult EXCEPT ![p] = result]
        /\ lastIpc' \in IpcRecords

IsRomFs(obj) == obj.type \in {"Archive", "File"} /\ obj.archive = RomFsArchive

\* A handle is given to an object: a RomFS one only if p has it already, or a
\* RomFS is mounted.
Allocated(p, live) ==
    \E obj \in Objects :
        /\ Allocate(p, live, obj)
        /\ \/ ~IsRomFs(obj)
           \/ romfs.mounted
           \/ \E h \in Handles : handles[p][h] = obj

Registered(p) ==
    \E n \in Names :
        /\ Allocate(p, processes, Port("Srv"))
        /\ registry' = [registry EXCEPT ![n] = "Srv"]
        /\ servicePorts' = [servicePorts EXCEPT ![n] = [pid |-> p, handle |-> nextHandle]]

\* What serving a request of p does to the handle tables and the name table.
ServedHandles(p) ==
    \/ UNCHANGED <<handleVars, nameVars>>
    \/ Allocated(p, processes) /\ UNCHANGED nameVars
    \/ p \in processes /\ Registered(p)

RuntimeType ==
    /\ appState \in Nat
    /\ gpuHandoff \in Seq({"Clear", "DrawPoint"})
    /\ hid \in Nat

\* The handle numbers are naturals and hold the next one.
LEMMA HandleNumbers ==
    /\ BootEnd \in Nat
    /\ HandleBase \in Nat /\ MaxHandle \in Nat
    /\ 0 < HandleBase /\ HandleBase <= BootEnd /\ BootEnd <= MaxHandle
BY FS_CardinalityType, KernelAssumption DEF BootEnd

\* Every kernel object is of one of five forms.
LEMMA ObjectForms ==
    ASSUME NEW obj \in Objects \cup {NoObject}
    PROVE  \/ obj = NoObject
           \/ obj = Event
           \/ \E t \in Targets : obj = Port(t) \/ obj = Session(t)
           \/ \E a \in Archives : obj = Archive(a)
           \/ \E a \in Archives, f \in Paths : obj = File(a, f)
BY DEF Objects

\* Each form of object has its own type tag.
LEMMA ObjectTypes ==
    /\ NoObject.type = "None" /\ Event.type = "Event"
    /\ \A t \in Targets : /\ Port(t).type = "Port" /\ Port(t).target = t
                          /\ Session(t).type = "Session"
    /\ \A a \in Archives : Archive(a).type = "Archive" /\ Archive(a).archive = a
    /\ \A a \in Archives, f \in Paths :
          File(a, f).type = "File" /\ File(a, f).archive = a /\ File(a, f).path = f
BY DEF NoObject, Event, Port, Session, Archive, File

\* What the tag of an object says about its fields.
LEMMA ObjectFacts ==
    ASSUME NEW obj \in Objects \cup {NoObject}
    PROVE  /\ obj.type = "None" <=> obj = NoObject
           /\ obj \in Objects <=> obj # NoObject
           /\ obj.type = "Port" => obj.target \in Targets /\ obj = Port(obj.target)
           /\ obj.type = "Archive" => obj.archive \in Archives
           /\ obj.type = "File" => obj.archive \in Archives /\ obj.path \in Paths
<1>1. NoObject \notin Objects
  BY ObjectTypes DEF Objects
<1>. QED
  BY <1>1, ObjectForms, ObjectTypes

\* What a handle names is an object, or nothing.
LEMMA ObjectType ==
    ASSUME TypeOK, NEW p \in Pids, NEW h
    PROVE  /\ Object(p, h) \in Objects \cup {NoObject}
           /\ Object(p, h) # NoObject =>
                h \in Handles /\ Object(p, h) = handles[p][h]
BY DEF TypeOK, Object

\* The word lists that answers carry.
LEMMA Words == <<>> \in Seq(Nat) /\ \A n \in Nat : <<n>> \in Seq(Nat)
OBVIOUS

\* The request the pump pops is well formed.
LEMMA HeadRequest ==
    ASSUME TypeOK, NEW p \in Pids, requests[p] # <<>>
    PROVE  /\ Head(requests[p]) \in Request
           /\ Head(requests[p]).session \in Nat
           /\ Head(requests[p]).tag \in Nat
           /\ Head(requests[p]).msg \in Message
           /\ Head(requests[p]).msg.cmd \in Nat
           /\ Head(requests[p]).msg.name \in Names
           /\ Head(requests[p]).msg.arg \in Nat
           /\ Head(requests[p]).msg.path \in Paths
<1>1. requests[p] \in Seq(Request)
  BY DEF TypeOK
<1>2. Head(requests[p]) \in Request
  BY <1>1
<1>3. Head(requests[p]).msg \in Message
  BY <1>2, KernelAssumption DEF Request
<1>. QED
  BY <1>2, <1>3 DEF Request, Message

\* A reply takes the first request off and appends its answer.
LEMMA ReplyServes ==
    ASSUME TypeOK, NEW p \in Pids, requests[p] # <<>>,
           NEW result \in Results, NEW words \in Seq(Nat),
           Reply(p, Head(requests[p]), result, words)
    PROVE  Served(p)
<1>3. lastIpc' \in IpcRecords
  BY HeadRequest DEF Reply, IpcRecords
<1>. QED
  BY <1>3 DEF Reply, Served

\* The three effects of serving a request of p.
ServiceStep(p) == Served(p) /\ ServedHandles(p) /\ RuntimeType'

\* A refusal serves the request and changes no handle.
LEMMA RefuseStep ==
    ASSUME TypeOK, NEW p \in Pids, requests[p] # <<>>, NEW result \in Results,
           Refuse(p, Head(requests[p]), result)
    PROVE  ServiceStep(p)
<1>1. Served(p)
  BY ReplyServes, Words DEF Refuse
<1>2. ServedHandles(p) /\ RuntimeType'
  BY DEF TypeOK, Refuse, ServedHandles, RuntimeType, runtimeVars
<1>. QED
  BY <1>1, <1>2 DEF ServiceStep

\* A reply with a new handle serves the request and allocates once.
LEMMA ReplyHandleStep ==
    ASSUME TypeOK, NEW p \in Pids, requests[p] # <<>>, NEW obj \in Objects,
           IsRomFs(obj) => romfs.mounted,
           ReplyHandle(p, Head(requests[p]), obj)
    PROVE  ServiceStep(p)
<1>1. nextHandle \in Nat
  BY HandleNumbers DEF TypeOK
<1>2. Served(p)
  BY <1>1, ReplyServes, Words DEF ReplyHandle, Results
<1>3. ServedHandles(p) /\ RuntimeType'
  BY DEF TypeOK, ReplyHandle, ServedHandles, Allocated, RuntimeType, runtimeVars
<1>. QED
  BY <1>2, <1>3 DEF ServiceStep

\* srv: serves the request, registering or connecting at most one handle.
LEMMA SrvStep ==
    ASSUME TypeOK, NEW p \in processes, requests[p] # <<>>,
           DispatchSrv(p, Head(requests[p]))
    PROVE  ServiceStep(p)
<1> DEFINE req == Head(requests[p])
           n == req.msg.name
<1>0. p \in Pids /\ req \in Request /\ n \in Names
  BY HeadRequest DEF TypeOK
<1>1. CASE RegisterService(p, req)
  <2>1. Served(p)
    <3>1. <<nextHandle>> \in Seq(Nat)
      BY HandleNumbers, Words DEF TypeOK
    <3>. QED  BY <1>0, <1>1, <3>1, ReplyServes DEF RegisterService, Results
  <2>2. ServedHandles(p)
    BY <1>0, <1>1 DEF RegisterService, ServedHandles, Registered
  <2>3. RuntimeType'
    BY <1>1 DEF RegisterService, RuntimeType, runtimeVars, TypeOK
  <2>. QED  BY <2>1, <2>2, <2>3 DEF ServiceStep
<1>2. CASE IsPublished(n) /\ ReplyHandle(p, req, Session(Published(n).target))
  <2>1. servicePorts[n].pid \in Pids
    BY <1>0 DEF TypeOK
  <2>2. Published(n).target \in Targets
    BY <1>2, <2>1, ObjectType, ObjectFacts DEF Published, IsPublished
  <2>3. /\ Session(Published(n).target) \in Objects
        /\ ~IsRomFs(Session(Published(n).target))
    BY <2>2, ObjectTypes DEF Objects, IsRomFs
  <2>. QED  BY <1>0, <1>2, <2>3, ReplyHandleStep
<1>3. CASE Refuse(p, req, "NotFound") \/ Refuse(p, req, "InvalidCommand")
  BY <1>0, <1>3, RefuseStep DEF Results
<1>. QED
  BY <1>1, <1>2, <1>3 DEF DispatchSrv

\* fs:USER serves the request, opening at most one handle.
LEMMA FsStep ==
    ASSUME TypeOK, NEW p \in processes, requests[p] # <<>>,
           DispatchFs(p, Head(requests[p]))
    PROVE  ServiceStep(p)
<1> DEFINE req == Head(requests[p])
           obj == Object(p, req.msg.arg)
<1>0. /\ p \in Pids /\ req \in Request
      /\ req.msg.path \in Paths
      /\ obj \in Objects \cup {NoObject}
  BY HeadRequest, ObjectType DEF TypeOK
<1>1. ASSUME NEW result \in {"NotFound", "InvalidHandle", "InvalidCommand"},
             Refuse(p, req, result)
      PROVE  ServiceStep(p)
  BY <1>0, <1>1, RefuseStep DEF Results
<1>2. CASE OpenArchive(p, req)
  <2> DEFINE a == ArchiveId(req.msg)
  <2>1. CASE CanOpenArchive(a) /\ ReplyHandle(p, req, Archive(a))
    <3>1. a \in Archives /\ (a = RomFsArchive => romfs.mounted)
      BY <2>1 DEF CanOpenArchive
    <3>2. Archive(a) \in Objects /\ (IsRomFs(Archive(a)) => romfs.mounted)
      BY <3>1, ObjectTypes DEF Objects, IsRomFs
    <3>. QED  BY <1>0, <2>1, <3>2, ReplyHandleStep
  <2>. QED  BY <1>1, <1>2, <2>1 DEF OpenArchive
<1>3. CASE OpenFile(p, req)
  <2>1. CASE /\ obj.type = "Archive" /\ CanOpenFile(obj.archive, req.msg.path)
             /\ ReplyHandle(p, req, File(obj.archive, req.msg.path))
    <3>1. obj.archive \in Archives /\ (obj.archive = RomFsArchive => romfs.mounted)
      BY <1>0, <2>1, ObjectFacts DEF CanOpenFile
    <3>2. /\ File(obj.archive, req.msg.path) \in Objects
          /\ IsRomFs(File(obj.archive, req.msg.path)) => romfs.mounted
      <4>1. File(obj.archive, req.msg.path) \in Objects
        BY <1>0, <3>1 DEF Objects
      <4>2. IsRomFs(File(obj.archive, req.msg.path)) => obj.archive = RomFsArchive
        BY <1>0, <3>1, ObjectTypes DEF IsRomFs
      <4>. QED  BY <3>1, <4>1, <4>2
    <3>. QED  BY <1>0, <2>1, <3>2, ReplyHandleStep
  <2>. QED  BY <1>1, <1>3, <2>1 DEF OpenFile
<1>4. CASE ReadFile(p, req)
  <2>1. ASSUME NEW n \in Nat, Reply(p, req, "Ok", <<n>>),
               UNCHANGED <<handleVars, nameVars, runtimeVars>>
        PROVE  ServiceStep(p)
    <3>1. Served(p)
      BY <1>0, <2>1, ReplyServes, Words DEF Results
    <3>. QED
      BY <2>1, <3>1 DEF ServiceStep, ServedHandles, RuntimeType, runtimeVars, TypeOK
  <2>2. \A n \in (IF obj.archive = RomFsArchive THEN 0..MaxRead ELSE {0}) : n \in Nat
    BY KernelAssumption
  <2>. QED  BY <1>1, <1>4, <2>1, <2>2 DEF ReadFile
<1>. QED
  BY <1>1, <1>2, <1>3, <1>4 DEF DispatchFs

\* apt:u, gsp::Gpu and hid:USER serve the request without any handle.
LEMMA RuntimeStep ==
    ASSUME TypeOK, NEW p \in processes, requests[p] # <<>>,
           \/ DispatchApt(p, Head(requests[p]))
           \/ DispatchGsp(p, Head(requests[p]))
           \/ DispatchHid(p, Head(requests[p]))
    PROVE  ServiceStep(p)
<1> DEFINE req == Head(requests[p])
<1>0. p \in Pids /\ req \in Request /\ req.msg.arg \in Nat
  BY HeadRequest DEF TypeOK
<1>1. CASE Refuse(p, req, "InvalidCommand")
  BY <1>0, <1>1, RefuseStep DEF Results
<1>2. ASSUME NEW words \in Seq(Nat), Reply(p, req, "Ok", words),
             UNCHANGED <<handleVars, nameVars>>, RuntimeType'
      PROVE  ServiceStep(p)
  <2>1. Served(p)
    BY <1>0, <1>2, ReplyServes DEF Results
  <2>. QED  BY <1>2, <2>1 DEF ServiceStep, ServedHandles
<1>3. CASE DispatchApt(p, req)
  <2>1. \/ appState' \in Nat /\ RuntimeType'
        \/ Refuse(p, req, "InvalidCommand")
    BY <1>0, <1>3 DEF DispatchApt, RuntimeType, TypeOK
  <2>. QED  BY <1>1, <1>2, <1>3, <2>1, Words DEF DispatchApt
<1>4. CASE DispatchGsp(p, req)
  <2>1. GpuPackets(req.msg) \in {"Clear", "DrawPoint"}
    BY DEF GpuPackets
  <2>2. Append(gpuHandoff, GpuPackets(req.msg)) \in Seq({"Clear", "DrawPoint"})
    BY <2>1 DEF TypeOK
  <2>3. RuntimeType' \/ Refuse(p, req, "InvalidCommand")
    BY <1>4, <2>2 DEF DispatchGsp, RuntimeType, TypeOK
  <2>. QED  BY <1>1, <1>2, <1>4, <2>3, Words DEF DispatchGsp
<1>5. CASE DispatchHid(p, req)
  <2>2. hid \in Nat /\ RuntimeType
    BY DEF TypeOK, RuntimeType
  <2>1. RuntimeType' \/ Refuse(p, req, "InvalidCommand")
    BY <1>0, <1>5, <2>2 DEF DispatchHid, RuntimeType, runtimeVars
  <2>. QED  BY <1>1, <1>2, <1>5, <2>1, <2>2, Words DEF DispatchHid, runtimeVars
<1>. QED
  BY <1>3, <1>4, <1>5

\* Whatever the handle and the message, serving a request answers it, and
\* gives out or publishes at most one handle.
LEMMA DispatchStep ==
    ASSUME TypeOK, NEW p \in processes, requests[p] # <<>>,
           DispatchRequest(p, Head(requests[p]))
    PROVE  ServiceStep(p)
<1>1. CASE Refuse(p, Head(requests[p]), "InvalidHandle")
  BY <1>1, RefuseStep DEF Results, TypeOK
<1>. QED
  BY <1>1, SrvStep, FsStep, RuntimeStep DEF DispatchRequest

\* The pump serves one request of one process that is not blocked.
LEMMA PumpStep ==
    ASSUME TypeOK, NEW flags, PumpOne(flags)
    PROVE  \/ \E p \in Servable(flags) : p \in processes /\ ServiceStep(p)
           \/ /\ Servable(flags) = {}
              /\ UNCHANGED <<requests, responses, lastResult, lastIpc,
                             handleVars, nameVars, runtimeVars>>
BY DispatchStep DEF PumpOne, Servable

-----------------------------------------------------------------------------
(* Type correctness *)

IpcType ==
    /\ requests \in [Pids -> Seq(Request)]
    /\ responses \in [Pids -> Seq(Response)]
    /\ lastResult \in [Pids -> Results]
    /\ lastIpc \in IpcRecords

TableType ==
    /\ handles \in [Pids -> [Handles -> Objects \cup {NoObject}]]
    /\ nextHandle \in BootEnd..MaxHandle
    /\ servicePorts \in [Names -> [pid : Pids, handle : Nat]]
    /\ registry \in [Names -> Targets \cup {NoTarget}]

\* The rest of the state: blocking, wakes and what the host sets.
WakeType ==
    /\ processes \subseteq Pids
    /\ blocked \in [Pids -> BOOLEAN]
    /\ romfs \in [mounted : BOOLEAN, files : SUBSET Paths]
    /\ lastSwi \in Nat \cup {NoSwi}
    /\ pendingWakes \in [Pids -> Nat]
    /\ scheduled \in [Pids -> Nat]
    /\ stranded \subseteq Pids
    /\ sent \in [Pids -> Nat]
    /\ got \in [Pids -> Nat]

\* Type correctness falls into four groups of variables.
LEMMA TypeParts == TypeOK <=> IpcType /\ TableType /\ RuntimeType /\ WakeType
BY DEF TypeOK, IpcType, TableType, RuntimeType, WakeType, IpcRecords

\* allocate_handle keeps the tables well typed, saturated or not.
LEMMA AllocateType ==
    ASSUME TypeOK, NEW p \in Pids, NEW live, NEW obj \in Objects, Allocate(p, live, obj)
    PROVE  /\ handles' \in [Pids -> [Handles -> Objects \cup {NoObject}]]
           /\ nextHandle' \in BootEnd..MaxHandle
           /\ nextHandle \in Handles /\ nextHandle \in Nat
BY HandleNumbers DEF TypeOK, Allocate, Handles

\* Serving a request keeps the queues well typed.
LEMMA ServedType ==
    ASSUME TypeOK, NEW p \in processes, requests[p] # <<>>, ServiceStep(p)
    PROVE  IpcType' /\ TableType' /\ RuntimeType'
<1>0. p \in Pids
  BY DEF TypeOK
<1>1. IpcType'
  <2>1. PICK result \in Results, words \in Seq(Nat) :
            /\ requests' = [requests EXCEPT ![p] = Tail(@)]
            /\ responses' = [responses EXCEPT ![p] =
                    Append(@, [to |-> Head(requests[p]).tag,
                               result |-> result, words |-> words])]
            /\ lastResult' = [lastResult EXCEPT ![p] = result]
            /\ lastIpc' \in IpcRecords
    BY DEF ServiceStep, Served
  <2>2. [to |-> Head(requests[p]).tag, result |-> result, words |-> words] \in Response
    BY <1>0, HeadRequest DEF Response
  <2>3. requests' \in [Pids -> Seq(Request)]
    BY <1>0, <2>1 DEF TypeOK
  <2>4. responses' \in [Pids -> Seq(Response)]
    BY <1>0, <2>1, <2>2 DEF TypeOK
  <2>. QED  BY <1>0, <2>1, <2>3, <2>4 DEF IpcType, TypeOK
<1>2. TableType'
  <2>1. CASE UNCHANGED <<handleVars, nameVars>>
    BY <2>1 DEF TypeOK, TableType, handleVars, nameVars
  <2>2. CASE Allocated(p, processes) /\ UNCHANGED nameVars
    BY <1>0, <2>2, AllocateType DEF Allocated, TypeOK, TableType, nameVars
  <2>3. CASE Registered(p)
    <3>1. Port("Srv") \in Objects
      BY DEF Objects, Targets
    <3>2. [pid |-> p, handle |-> nextHandle] \in [pid : Pids, handle : Nat]
      BY <1>0, HandleNumbers DEF TypeOK
    <3>3. PICK n \in Names :
              /\ Allocate(p, processes, Port("Srv"))
              /\ registry' = [registry EXCEPT ![n] = "Srv"]
              /\ servicePorts' = [servicePorts EXCEPT ![n] =
                                        [pid |-> p, handle |-> nextHandle]]
      BY <2>3 DEF Registered
    <3>4. servicePorts' \in [Names -> [pid : Pids, handle : Nat]]
      BY <3>2, <3>3 DEF TypeOK
    <3>5. registry' \in [Names -> Targets \cup {NoTarget}]
      BY <3>3 DEF TypeOK, Targets
    <3>. QED  BY <1>0, <3>1, <3>3, <3>4, <3>5, AllocateType DEF TableType
  <2>. QED  BY <2>1, <2>2, <2>3 DEF ServiceStep, ServedHandles
<1>. QED
  BY <1>1, <1>2 DEF ServiceStep

\* A pump preserves the types.
LEMMA PumpType ==
    ASSUME TypeOK, NEW flags, PumpOne(flags)
    PROVE  IpcType' /\ TableType' /\ RuntimeType'
<1>1. CASE \E p \in Servable(flags) : p \in processes /\ ServiceStep(p)
  BY <1>1, ServedType DEF Servable
<1>2. CASE UNCHANGED <<requests, responses, lastResult, lastIpc,
                       handleVars, nameVars, runtimeVars>>
  BY <1>2, TypeParts
  DEF IpcType, TableType, RuntimeType, handleVars, nameVars, runtimeVars
<1>. QED
  BY <1>1, <1>2, PumpStep

\* The state of a freshly booted kernel.
LEMMA BootType ==
    ASSUME NEW num \in Numberings
    PROVE  /\ BootHandles(num) \in [Pids -> [Handles -> Objects \cup {NoObject}]]
           /\ BootPorts(num) \in [Names -> [pid : Pids, handle : Nat]]
           /\ BootRegistry \in [Names -> Targets \cup {NoTarget}]
<1>1. ASSUME NEW h \in Handles, \E n \in DOMAIN Boot : num[n] = h
      PROVE  Port(Boot[CHOOSE n \in DOMAIN Boot : num[n] = h]) \in Objects
  <2> DEFINE n == CHOOSE n \in DOMAIN Boot : num[n] = h
  <2>1. n \in DOMAIN Boot
    BY <1>1
  <2>2. Boot[n] \in Targets
    BY <2>1, KernelAssumption
  <2>3. \A t \in Targets : Port(t) \in Objects
    BY DEF Objects
  <2>. QED  BY <2>2, <2>3
<1>2. BootHandles(num) \in [Pids -> [Handles -> Objects \cup {NoObject}]]
  BY <1>1 DEF BootHandles
<1>3. BootPorts(num) \in [Names -> [pid : Pids, handle : Nat]]
  BY KernelAssumption, HandleNumbers DEF BootPorts, Numberings, NoPort
<1>4. BootRegistry \in [Names -> Targets \cup {NoTarget}]
  BY KernelAssumption DEF BootRegistry
<1>. QED
  BY <1>2, <1>3, <1>4

\* The reset puts every variable back to a typed value.
LEMMA ResetType == ResetRuntime => TypeOK'
<1>. SUFFICES ASSUME ResetRuntime PROVE TypeOK'
  OBVIOUS
<1>1. /\ BootEnd \in BootEnd..MaxHandle
      /\ KernelPid \in Pids
  BY HandleNumbers, KernelAssumption
<1>2. TableType'
  BY <1>1, BootType DEF ResetRuntime, TableType
<1>3. IpcType' /\ RuntimeType' /\ WakeType'
  BY <1>1 DEF ResetRuntime, IpcType, RuntimeType, WakeType, IpcRecords, NoIpc,
              NoRomFs, NoSwi, Results
<1>. QED
  BY <1>2, <1>3 DEF TypeOK, IpcType, TableType, RuntimeType, WakeType, IpcRecords

\* The initial state is well typed.
LEMMA InitType == Init => TypeOK
<1>. SUFFICES ASSUME Init PROVE TypeOK
  OBVIOUS
<1>1. /\ BootEnd \in BootEnd..MaxHandle
      /\ KernelPid \in Pids
  BY HandleNumbers, KernelAssumption
<1>2. TableType
  BY <1>1, BootType DEF Init, TableType
<1>3. IpcType /\ RuntimeType /\ WakeType
  BY <1>1 DEF Init, IpcType, RuntimeType, WakeType, IpcRecords, NoIpc,
              NoRomFs, NoSwi, Results
<1>. QED
  BY <1>2, <1>3, TypeParts

-----------------------------------------------------------------------------
(* What the operations do to the handle tables.                            *)

HandleStep ==
    \/ UNCHANGED <<handleVars, nameVars>>
    \/ UNCHANGED nameVars /\ \E p \in Pids, live \in SUBSET Pids : Allocated(p, live)
    \/ UNCHANGED nameVars /\ \E p \in Pids, h \in Handles : Close(p, h)
    \/ \E p \in processes : Registered(p)

\* duplicate_handle allocates a copy of what the handle names.
LEMMA DuplicateStep ==
    ASSUME TypeOK, NEW p \in Pids, NEW live, NEW h, Duplicate(p, live, h)
    PROVE  UNCHANGED handleVars \/ Allocated(p, live)
<1>1. CASE Object(p, h) # NoObject /\ Allocate(p, live, Object(p, h))
  <2>1. /\ Object(p, h) \in Objects
        /\ h \in Handles /\ Object(p, h) = handles[p][h]
    BY <1>1, ObjectType, ObjectFacts
  <2>. QED  BY <1>1, <2>1 DEF Allocated
<1>. QED
  BY <1>1 DEF Duplicate

\* close_handle takes one entry out.
LEMMA CloseStep ==
    ASSUME NEW p \in Pids, NEW h, Close(p, h)
    PROVE  UNCHANGED handleVars \/ h \in Handles
BY DEF Close, handleVars

\* create_event allocates an event.
LEMMA EventStep ==
    ASSUME NEW p \in Pids, NEW live, Allocate(p, live, Event)
    PROVE  Allocated(p, live)
BY ObjectTypes DEF Allocated, Objects, IsRomFs

\* What a pump does to the tables is one of the handle steps.
LEMMA PumpHandles ==
    ASSUME TypeOK, NEW flags, PumpOne(flags)
    PROVE  HandleStep
<1>1. ASSUME NEW p \in processes, ServiceStep(p)
      PROVE  HandleStep
  BY <1>1 DEF ServiceStep, ServedHandles, HandleStep, TypeOK
<1>. QED
  BY <1>1, PumpStep DEF HandleStep

\* What a system call does to the tables is one of the handle steps.
LEMMA SyscallHandles ==
    ASSUME TypeOK, NEW p \in Pids, NEW imm, NEW args, DispatchSyscall(p, imm, args)
    PROVE  HandleStep
<1>0. processes' \in SUBSET Pids
  BY DEF DispatchSyscall, TypeOK
<1>1. CASE SendSyncRequest(p)
  BY <1>1, PumpHandles DEF SendSyncRequest, HandleStep
<1>2. CASE /\ UNCHANGED nameVars
           /\ \/ Allocate(p, processes', Event)
              \/ Duplicate(p, processes', args[1])
              \/ Close(p, args[1])
              \/ UNCHANGED handleVars
  BY <1>0, <1>2, EventStep, DuplicateStep, CloseStep DEF HandleStep
<1>. QED
  BY <1>1, <1>2 DEF DispatchSyscall

\* What connect_to_service does to the tables is one of the handle steps.
LEMMA ConnectHandles ==
    ASSUME TypeOK, NEW p \in Pids, NEW n \in Names, ConnectToService(p, n)
    PROVE  HandleStep
<1>0. /\ processes' \in SUBSET Pids /\ UNCHANGED nameVars
      /\ servicePorts[n].pid \in Pids
  BY DEF ConnectToService, TypeOK
<1>1. CASE IsPublished(n) /\ Allocate(p, processes', Session(Published(n).target))
  <2>1. Published(n).target \in Targets
    BY <1>0, <1>1, ObjectType, ObjectFacts DEF Published, IsPublished
  <2>2. /\ Session(Published(n).target) \in Objects
        /\ ~IsRomFs(Session(Published(n).target))
    BY <2>1, ObjectTypes DEF Objects, IsRomFs
  <2>. QED  BY <1>0, <1>1, <2>2 DEF HandleStep, Allocated
<1>. QED
  BY <1>0, <1>1 DEF ConnectToService, HandleStep

\* Every step does to the tables what a handle step does, or resets.
LEMMA NextHandles ==
    ASSUME TypeOK, [Next]_vars
    PROVE  \/ ResetRuntime
           \/ HandleStep /\ (romfs.mounted => romfs'.mounted)
<1>1. CASE Pump
  BY <1>1, PumpHandles DEF Pump
<1>2. ASSUME NEW p \in Pids, NEW h \in Handles, NEW msg \in Messages,
             QueueCommand(p, h, msg)
      PROVE  HandleStep /\ UNCHANGED romfs
  <2>1. UNCHANGED <<handleVars, nameVars, romfs>>
    BY <1>2 DEF QueueCommand
  <2>. QED  BY <2>1 DEF HandleStep
<1>3. ASSUME NEW p \in Pids, PopResponse(p)
      PROVE  HandleStep /\ UNCHANGED romfs
  BY <1>3 DEF PopResponse, HandleStep
<1>4. ASSUME NEW p \in Pids, NEW imm, NEW args, DispatchSyscall(p, imm, args)
      PROVE  HandleStep /\ UNCHANGED romfs
  <2>1. HandleStep
    BY <1>4, SyscallHandles
  <2>2. UNCHANGED romfs
    BY <1>4 DEF DispatchSyscall
  <2>. QED  BY <2>1, <2>2
<1>5. ASSUME NEW p \in Pids, SchedulerWake(p)
      PROVE  HandleStep /\ UNCHANGED romfs
  BY <1>5, PumpHandles DEF SchedulerWake
<1>6. ASSUME NEW p \in Pids, NEW n \in Names, ConnectToService(p, n)
      PROVE  HandleStep /\ UNCHANGED romfs
  BY <1>6, ConnectHandles DEF ConnectToService
<1>7. ASSUME NEW p \in Pids, NEW h \in Handles, HandleCall(p, h)
      PROVE  HandleStep /\ UNCHANGED romfs
  <2>1. processes \in SUBSET Pids
    BY DEF TypeOK
  <2>. QED  BY <1>7, <2>1, EventStep, DuplicateStep DEF HandleCall, HandleStep
<1>8. ASSUME NEW img \in Images, MountRomFs(img)
      PROVE  HandleStep /\ romfs'.mounted
  BY <1>8 DEF MountRomFs, HandleStep
<1>9. CASE TakeScheduleEvents \/ DrainGpuHandoff \/ TakeLastIpc \/ TakeLastSwi \/ LoadRom
  BY <1>9 DEF TakeScheduleEvents, DrainGpuHandoff, TakeLastIpc, TakeLastSwi, LoadRom,
             HandleStep
<1>10. CASE UNCHANGED vars
  BY <1>10 DEF vars, HandleStep
<1>. QED
  BY <1>1, <1>2, <1>3, <1>4, <1>5, <1>6, <1>7, <1>8, <1>9, <1>10, KernelAssumption
  DEF Next, Syscall, HandleSwi, Pump

\* A handle step preserves the types of the tables.
LEMMA HandleStepType ==
    ASSUME TypeOK, HandleStep
    PROVE  TableType'
<1>1. ASSUME NEW p \in Pids, NEW live, Allocated(p, live), UNCHANGED nameVars
      PROVE  TableType'
  BY <1>1, AllocateType DEF Allocated, TableType, TypeOK, nameVars
<1>2. ASSUME NEW p \in Pids, NEW h \in Handles, Close(p, h), UNCHANGED nameVars
      PROVE  TableType'
  BY <1>2 DEF Close, TableType, TypeOK, nameVars
<1>3. ASSUME NEW p \in processes, Registered(p)
      PROVE  TableType'
  <2>1. p \in Pids /\ Port("Srv") \in Objects /\ nextHandle \in Nat
    BY HandleNumbers DEF TypeOK, Objects, Targets
  <2>2. PICK n \in Names :
            /\ Allocate(p, processes, Port("Srv"))
            /\ registry' = [registry EXCEPT ![n] = "Srv"]
            /\ servicePorts' = [servicePorts EXCEPT ![n] =
                                      [pid |-> p, handle |-> nextHandle]]
    BY <1>3 DEF Registered
  <2>3. servicePorts' \in [Names -> [pid : Pids, handle : Nat]]
    BY <2>1, <2>2 DEF TypeOK
  <2>4. registry' \in [Names -> Targets \cup {NoTarget}]
    BY <2>2 DEF TypeOK, Targets
  <2>. QED  BY <2>1, <2>2, <2>3, <2>4, AllocateType DEF TableType
<1>4. CASE UNCHANGED <<handleVars, nameVars>>
  BY <1>4 DEF TableType, TypeOK, handleVars, nameVars
<1>. QED
  BY <1>1, <1>2, <1>3, <1>4 DEF HandleStep

\* SendSyncRequest preserves the types.
LEMMA SendSyncType ==
    ASSUME TypeOK, NEW p \in Pids, SendSyncRequest(p)
    PROVE  /\ IpcType' /\ RuntimeType'
           /\ blocked' \in [Pids -> BOOLEAN]
           /\ pendingWakes' \in [Pids -> Nat]
           /\ stranded' \subseteq Pids
<1>1. CASE requests[p] = <<>>
  <2>1. /\ blocked' = [blocked EXCEPT ![p] = TRUE]
        /\ pendingWakes' = [pendingWakes EXCEPT ![p] = @ + 1]
        /\ stranded' = stranded \ {p}
        /\ UNCHANGED <<requests, responses, lastResult, lastIpc, runtimeVars>>
    BY <1>1 DEF SendSyncRequest
  <2>2. IpcType' /\ RuntimeType'
    BY <2>1 DEF TypeOK, IpcType, IpcRecords, RuntimeType, runtimeVars
  <2>. QED  BY <2>1, <2>2 DEF TypeOK
<1>2. CASE requests[p] # <<>>
  BY <1>2, PumpType DEF SendSyncRequest, TypeOK
<1>. QED
  BY <1>1, <1>2

\* A system call preserves the types.
LEMMA SyscallType ==
    ASSUME TypeOK, NEW p \in Pids, NEW imm, NEW args, DispatchSyscall(p, imm, args),
           lastSwi' \in Nat \cup {NoSwi}
    PROVE  IpcType' /\ RuntimeType' /\ WakeType'
<1>1. processes' \subseteq Pids
  BY DEF DispatchSyscall, TypeOK
<1>2. CASE SendSyncRequest(p)
  BY <1>1, <1>2, SendSyncType DEF DispatchSyscall, TypeOK, WakeType
<1>3. CASE UNCHANGED <<requests, responses, lastResult, lastIpc, blocked,
                       nameVars, runtimeVars, pendingWakes, stranded>>
  BY <1>1, <1>3
  DEF DispatchSyscall, TypeOK, IpcType, IpcRecords, RuntimeType, WakeType, runtimeVars
<1>. QED
  BY <1>2, <1>3 DEF DispatchSyscall

\* queue_ipc_command preserves the types.
LEMMA QueueType ==
    ASSUME TypeOK, NEW p \in Pids, NEW h \in Handles, NEW msg \in Messages,
           QueueCommand(p, h, msg)
    PROVE  IpcType' /\ RuntimeType' /\ WakeType'
<1>1. [session |-> h, msg |-> msg, tag |-> sent[p] + 1] \in Request
  BY HandleNumbers DEF TypeOK, Request, Handles
<1>2. requests' \in [Pids -> Seq(Request)]
  BY <1>1 DEF QueueCommand, TypeOK
<1>3. IpcType' /\ RuntimeType'
  BY <1>2 DEF QueueCommand, TypeOK, IpcType, IpcRecords, RuntimeType, runtimeVars
<1>4. WakeType
  BY DEF TypeOK, WakeType
<1>5. WakeType'
  BY <1>4 DEF QueueCommand, WakeType
<1>. QED
  BY <1>3, <1>5

\* pop_ipc_response preserves the types.
LEMMA PopType ==
    ASSUME TypeOK, NEW p \in Pids, PopResponse(p)
    PROVE  IpcType' /\ RuntimeType' /\ WakeType'
<1>1. Head(responses[p]) \in Response
  BY DEF PopResponse, TypeOK
<1>2. got' \in [Pids -> Nat]
  BY <1>1 DEF PopResponse, TypeOK, Response
<1>3. responses' \in [Pids -> Seq(Response)]
  BY DEF PopResponse, TypeOK
<1>. QED
  BY <1>2, <1>3
  DEF PopResponse, TypeOK, IpcType, IpcRecords, RuntimeType, WakeType, runtimeVars, wakeVars

\* A step that leaves queues, services and wakes alone preserves their types.
LEMMA QuietType ==
    ASSUME TypeOK, UNCHANGED <<processVars, runtimeVars, wakeVars, romfs, lastIpc, lastSwi>>
    PROVE  IpcType' /\ RuntimeType' /\ WakeType'
BY DEF TypeOK, IpcType, IpcRecords, RuntimeType, WakeType, processVars, runtimeVars, wakeVars

\* Every step preserves the types.
LEMMA TypeStep == TypeOK /\ [Next]_vars => TypeOK'
<1>. SUFFICES ASSUME TypeOK, [Next]_vars PROVE TypeOK'
  OBVIOUS
<1>1. CASE ResetRuntime
  BY <1>1, ResetType
<1>2. CASE HandleStep
  <2>1. IpcType' /\ RuntimeType' /\ WakeType' => TypeOK'
    BY <1>2, HandleStepType DEF TypeOK, IpcType, TableType, RuntimeType, WakeType, IpcRecords
  <2>2. CASE Pump
    BY <2>1, <2>2, PumpType DEF Pump, WakeType, TypeOK, wakeVars
  <2>3. ASSUME NEW p \in Pids, NEW h \in Handles, NEW msg \in Messages,
               QueueCommand(p, h, msg)
        PROVE  TypeOK'
    BY <2>1, <2>3, QueueType
  <2>4. ASSUME NEW p \in Pids, PopResponse(p)
        PROVE  TypeOK'
    BY <2>1, <2>4, PopType
  <2>5. ASSUME NEW p \in Pids, NEW imm, NEW args, Syscall(p, imm, args)
        PROVE  TypeOK'
    BY <2>1, <2>5, SyscallType DEF Syscall, TypeOK
  <2>6. ASSUME NEW imm \in SwiNumbers, HandleSwi(imm)
        PROVE  TypeOK'
    BY <2>1, <2>6, SyscallType, KernelAssumption DEF HandleSwi
  <2>7. CASE TakeScheduleEvents
    <3>1. /\ pendingWakes' \in [Pids -> Nat]
          /\ scheduled' \in [Pids -> Nat]
      <4>1. pendingWakes \in [Pids -> Nat] /\ scheduled \in [Pids -> Nat]
        BY DEF TypeOK
      <4>. QED  BY <2>7, <4>1 DEF TakeScheduleEvents
    <3>2. UNCHANGED <<processVars, runtimeVars, stranded, romfs, lastIpc, lastSwi>>
      BY <2>7 DEF TakeScheduleEvents
    <3>3. IpcType' /\ RuntimeType'
      BY <3>2 DEF TypeOK, IpcType, IpcRecords, RuntimeType, processVars, runtimeVars
    <3>4. WakeType'
      BY <3>1, <3>2 DEF TypeOK, WakeType, processVars
    <3>. QED  BY <2>1, <3>3, <3>4
  <2>8. ASSUME NEW p \in Pids, SchedulerWake(p)
        PROVE  TypeOK'
    <3>1. WakeType
      BY DEF TypeOK, WakeType
    <3>2. /\ blocked' \in [Pids -> BOOLEAN]
          /\ stranded' \subseteq Pids
          /\ UNCHANGED <<processes, sent, got, pendingWakes, romfs, lastSwi>>
      BY <2>8, <3>1 DEF SchedulerWake, WakeType
    <3>3. scheduled' \in [Pids -> Nat]
      BY <2>8, <3>1 DEF SchedulerWake, WakeType
    <3>4. WakeType'
      BY <3>1, <3>2, <3>3 DEF WakeType
    <3>. QED  BY <2>1, <2>8, <3>4, PumpType DEF SchedulerWake
  <2>9. ASSUME NEW p \in Pids, NEW n \in Names, ConnectToService(p, n)
        PROVE  TypeOK'
    BY <2>1, <2>9
    DEF ConnectToService, TypeOK, IpcType, IpcRecords, RuntimeType, WakeType,
        runtimeVars, wakeVars
  <2>10. ASSUME NEW p \in Pids, NEW h \in Handles, HandleCall(p, h)
         PROVE  TypeOK'
    BY <2>1, <2>10, QuietType DEF HandleCall
  <2>11. ASSUME NEW img \in Images, MountRomFs(img)
         PROVE  TypeOK'
    <3>1. img \in SUBSET Paths
      BY KernelAssumption
    <3>. QED
      BY <2>1, <2>11, <3>1
      DEF MountRomFs, TypeOK, IpcType, IpcRecords, RuntimeType, WakeType,
          processVars, runtimeVars, wakeVars
  <2>12. CASE DrainGpuHandoff
    <3>1. RuntimeType'
      BY <2>12 DEF DrainGpuHandoff, TypeOK, RuntimeType
    <3>2. UNCHANGED <<processVars, wakeVars, romfs, lastIpc, lastSwi>>
      BY <2>12 DEF DrainGpuHandoff
    <3>3. IpcType' /\ WakeType'
      BY <3>2 DEF TypeOK, IpcType, IpcRecords, WakeType, processVars, wakeVars
    <3>. QED  BY <2>1, <3>1, <3>3
  <2>13. CASE TakeLastIpc
    BY <2>1, <2>13
    DEF TakeLastIpc, TypeOK, IpcType, IpcRecords, RuntimeType, WakeType,
        processVars, runtimeVars, wakeVars, NoIpc
  <2>14. CASE TakeLastSwi
    BY <2>1, <2>14
    DEF TakeLastSwi, TypeOK, IpcType, IpcRecords, RuntimeType, WakeType,
        processVars, runtimeVars, wakeVars, NoSwi
  <2>15. CASE LoadRom
    <3>1. UNCHANGED <<processVars, runtimeVars, pendingWakes, romfs, lastIpc, lastSwi>>
      BY <2>15 DEF LoadRom
    <3>2. scheduled' \in [Pids -> Nat] /\ stranded' \subseteq Pids
      BY <2>15 DEF LoadRom
    <3>3. IpcType' /\ RuntimeType' /\ WakeType'
      BY <3>1, <3>2
      DEF TypeOK, IpcType, IpcRecords, RuntimeType, WakeType, processVars, runtimeVars
    <3>. QED  BY <2>1, <3>3
  <2>16. CASE UNCHANGED vars
    BY <2>1, <2>16, QuietType DEF vars
  <2>. QED
    BY <1>1, <2>2, <2>3, <2>4, <2>5, <2>6, <2>7, <2>8, <2>9, <2>10, <2>11, <2>12,
       <2>13, <2>14, <2>15, <2>16 DEF Next
<1>. QED
  BY <1>1, <1>2, NextHandles

\* Every reachable state is well typed: in particular the handle counter
\* stays within its width and every table entry is a kernel object.
THEOREM TypeCorrect == Spec => []TypeOK
<1>. QED
  BY InitType, TypeStep, PTL DEF Spec

-----------------------------------------------------------------------------
(* Handles: the counter separates what is in use from what was never used. *)

\* The tables of a freshly booted kernel.
LEMMA BootTables ==
    ASSUME NEW num \in Numberings
    PROVE  /\ \A p \in Pids, h \in Handles :
                BootHandles(num)[p][h] # NoObject =>
                    /\ p = KernelPid /\ h < BootEnd
                    /\ \E t \in Targets : BootHandles(num)[p][h] = Port(t)
           /\ \A n \in DOMAIN Boot :
                /\ num[n] \in HandleBase..(BootEnd - 1)
                /\ BootHandles(num)[KernelPid][num[n]] = Port(Boot[n])
<1>1. ASSUME NEW h \in Handles, NEW n \in DOMAIN Boot, num[n] = h
      PROVE  /\ BootHandles(num)[KernelPid][h] = Port(Boot[n])
             /\ Boot[n] \in Targets /\ h < BootEnd
  <2>1. (CHOOSE m \in DOMAIN Boot : num[m] = h) = n
    BY <1>1 DEF Numberings
  <2>2. h \in HandleBase..(BootEnd - 1)
    BY <1>1 DEF Numberings
  <2>3. BootHandles(num)[KernelPid][h] = Port(Boot[CHOOSE m \in DOMAIN Boot : num[m] = h])
    BY <1>1, KernelAssumption DEF BootHandles
  <2>4. Boot[n] \in Targets
    BY KernelAssumption
  <2>5. h < BootEnd
    BY <2>2, HandleNumbers
  <2>. QED  BY <2>1, <2>3, <2>4, <2>5
<1>2. ASSUME NEW p \in Pids, NEW h \in Handles, BootHandles(num)[p][h] # NoObject
      PROVE  p = KernelPid /\ \E n \in DOMAIN Boot : num[n] = h
  BY <1>2 DEF BootHandles
<1>3. \A n \in DOMAIN Boot : num[n] \in HandleBase..(BootEnd - 1) /\ num[n] \in Handles
  BY HandleNumbers DEF Numberings, Handles
<1>. QED
  BY <1>1, <1>2, <1>3

\* The boot table uses each number once.
LEMMA FreshBoot ==
    ASSUME NEW num \in Numberings
    PROVE  \A p \in Pids, h \in Handles :
              BootHandles(num)[p][h] # NoObject =>
                 /\ h < BootEnd
                 /\ \A q \in Pids \ {p} : BootHandles(num)[q][h] = NoObject
BY BootTables

\* An allocation keeps the numbers unique below the counter.
LEMMA FreshAllocate ==
    ASSUME TypeOK, HandlesFresh,
           NEW p \in Pids, NEW live, NEW obj \in Objects, Allocate(p, live, obj)
    PROVE  HandlesFresh'
<1>1. nextHandle \in Handles /\ nextHandle <= MaxHandle /\ MaxHandle \in Nat
      /\ nextHandle \in Nat /\ \A h \in Handles : h \in Nat
  BY HandleNumbers DEF TypeOK, Handles
<1>2. \A q \in Pids, h \in Handles :
        \/ handles'[q][h] = handles[q][h]
        \/ q = p /\ h = nextHandle
  BY DEF Allocate, TypeOK
<1>3. nextHandle # MaxHandle => nextHandle' = nextHandle + 1
  BY DEF Allocate
<1>4. nextHandle = MaxHandle => nextHandle' = MaxHandle
  BY DEF Allocate
<1>. SUFFICES ASSUME NEW q \in Pids, NEW h \in Handles,
                     h # MaxHandle, handles'[q][h] # NoObject
              PROVE  /\ h < nextHandle'
                     /\ \A r \in Pids \ {q} : handles'[r][h] = NoObject
  BY DEF HandlesFresh
<1>5. CASE q = p /\ h = nextHandle
  <2>1. \A r \in Pids : handles[r][nextHandle] = NoObject
    BY <1>1, <1>5 DEF HandlesFresh
  <2>. QED  BY <1>1, <1>2, <1>3, <1>5, <2>1
<1>6. CASE handles'[q][h] = handles[q][h]
  <2>1. h < nextHandle /\ \A r \in Pids \ {q} : handles[r][h] = NoObject
    BY <1>6 DEF HandlesFresh
  <2>. QED  BY <1>1, <1>2, <1>3, <1>4, <2>1
<1>. QED
  BY <1>2, <1>5, <1>6

\* Every step keeps the numbers unique.
LEMMA FreshStep == TypeOK /\ HandlesFresh /\ [Next]_vars => HandlesFresh'
<1>. SUFFICES ASSUME TypeOK, HandlesFresh, [Next]_vars PROVE HandlesFresh'
  OBVIOUS
<1>1. CASE ResetRuntime
  BY <1>1, FreshBoot DEF ResetRuntime, HandlesFresh
<1>2. CASE UNCHANGED handleVars
  BY <1>2 DEF HandlesFresh, handleVars
<1>3. ASSUME NEW p \in Pids, NEW live, Allocated(p, live)
      PROVE  HandlesFresh'
  BY <1>3, FreshAllocate DEF Allocated
<1>4. ASSUME NEW p \in Pids, NEW h \in Handles, Close(p, h)
      PROVE  HandlesFresh'
  BY <1>4 DEF Close, HandlesFresh, TypeOK
<1>5. ASSUME NEW p \in processes, Registered(p)
      PROVE  HandlesFresh'
  <2>1. p \in Pids /\ Port("Srv") \in Objects
    BY DEF TypeOK, Objects, Targets
  <2>. QED  BY <1>5, <2>1, FreshAllocate DEF Registered
<1>. QED
  BY <1>1, <1>2, <1>3, <1>4, <1>5, NextHandles DEF HandleStep

\* No two objects ever share a handle number, in one process or in two, until
\* the counter saturates.
THEOREM HandlesAreFresh == Spec => []HandlesFresh
<1>1. Init => HandlesFresh
  BY FreshBoot DEF Init, HandlesFresh
<1>. QED
  BY <1>1, FreshStep, TypeCorrect, PTL DEF Spec

\* A handle names the same object for as long as it is open, and nothing
\* afterwards, until the counter saturates or the machine is reset.
THEOREM HandlesAreStable == Spec => HandleStability
<1>1. ASSUME TypeOK, [Next]_vars
      PROVE  \/ \A p \in Pids, h \in Handles :
                   h # MaxHandle /\ h < nextHandle =>
                      handles'[p][h] \in {handles[p][h], NoObject}
             \/ ResetRuntime
  <2>1. CASE UNCHANGED handleVars
    BY <2>1 DEF handleVars
  <2>2. ASSUME NEW p \in Pids, NEW live, NEW obj, Allocate(p, live, obj)
        PROVE  \A q \in Pids, h \in Handles : h < nextHandle =>
                  handles'[q][h] = handles[q][h]
    BY <2>2, HandleNumbers DEF Allocate, TypeOK, Handles
  <2>3. ASSUME NEW p \in Pids, NEW g \in Handles, Close(p, g)
        PROVE  \A q \in Pids, h \in Handles :
                  handles'[q][h] \in {handles[q][h], NoObject}
    BY <2>3 DEF Close, TypeOK
  <2>4. processes \subseteq Pids
    BY <1>1 DEF TypeOK
  <2>. QED
    BY <1>1, <2>1, <2>2, <2>3, <2>4, NextHandles DEF HandleStep, Allocated, Registered
<1>. QED
  BY <1>1, TypeCorrect, PTL DEF Spec, HandleStability

-----------------------------------------------------------------------------
(* Names *)

\* The boot tables agree.
LEMMA PortsBoot ==
    ASSUME NEW num \in Numberings, NEW n \in Names
    PROVE  /\ BootRegistry[n] = NoTarget <=> BootPorts(num)[n] = NoPort
           /\ BootPorts(num)[n] # NoPort =>
                /\ BootPorts(num)[n].handle \in HandleBase..(BootEnd - 1)
                /\ BootHandles(num)[BootPorts(num)[n].pid][BootPorts(num)[n].handle]
                      = Port(BootRegistry[n])
<1>1. CASE n \in DOMAIN Boot
  <2>1. /\ BootPorts(num)[n] = [pid |-> KernelPid, handle |-> num[n]]
        /\ BootRegistry[n] = Boot[n] /\ Boot[n] \in Targets
    BY <1>1, KernelAssumption DEF BootPorts, BootRegistry
  <2>2. num[n] \in HandleBase..(BootEnd - 1)
    BY <1>1, BootTables
  <2>3. BootPorts(num)[n] # NoPort
    BY <2>1, <2>2, HandleNumbers DEF NoPort
  <2>4. BootRegistry[n] # NoTarget
    BY <2>1 DEF Targets, NoTarget
  <2>. QED  BY <1>1, <2>1, <2>2, <2>3, <2>4, BootTables
<1>2. CASE n \notin DOMAIN Boot
  BY <1>2 DEF BootPorts, BootRegistry
<1>. QED
  BY <1>1, <1>2

\* A new object never lands on a published port.
LEMMA PortsAllocate ==
    ASSUME TypeOK, PortsFollowRegistry, NEW n \in Names,
           NEW p \in Pids, NEW live, NEW obj, Allocate(p, live, obj),
           servicePorts[n] # NoPort, servicePorts[n].handle # MaxHandle
    PROVE  /\ servicePorts[n].handle \in HandleBase..(nextHandle' - 1)
           /\ handles'[servicePorts[n].pid][servicePorts[n].handle]
                = handles[servicePorts[n].pid][servicePorts[n].handle]
<1> DEFINE q == servicePorts[n].pid
           h == servicePorts[n].handle
<1>1. /\ q \in Pids
      /\ h \in HandleBase..(nextHandle - 1)
      /\ nextHandle \in Handles /\ nextHandle \in Nat /\ nextHandle <= MaxHandle
  <2>1. nextHandle \in BootEnd..MaxHandle
    BY DEF TypeOK
  <2>2. q \in Pids /\ h \in HandleBase..(nextHandle - 1)
    BY DEF TypeOK, PortsFollowRegistry
  <2>. QED  BY <2>1, <2>2, HandleNumbers DEF Handles
<1>2. h \in Handles /\ h # nextHandle
  BY <1>1, HandleNumbers DEF Handles
<1>3. nextHandle' = nextHandle + 1 \/ nextHandle' = nextHandle
  BY DEF Allocate
<1>4. h \in HandleBase..(nextHandle' - 1)
  BY <1>1, <1>3, HandleNumbers
<1>5. handles'[q][h] = handles[q][h]
  BY <1>1, <1>2 DEF Allocate, TypeOK
<1>. QED
  BY <1>4, <1>5

\* Every step keeps the name table, the registry and the owners' tables in
\* agreement.
LEMMA PortsStep == TypeOK /\ PortsFollowRegistry /\ [Next]_vars => PortsFollowRegistry'
<1>. SUFFICES ASSUME TypeOK, PortsFollowRegistry, [Next]_vars PROVE PortsFollowRegistry'
  OBVIOUS
<1>1. CASE ResetRuntime
  BY <1>1, PortsBoot DEF ResetRuntime, PortsFollowRegistry
<1>2. CASE UNCHANGED <<handleVars, nameVars>>
  BY <1>2 DEF PortsFollowRegistry, handleVars, nameVars
<1>3. ASSUME NEW p \in Pids, NEW live, Allocated(p, live), UNCHANGED nameVars
      PROVE  PortsFollowRegistry'
  BY <1>3, PortsAllocate DEF Allocated, PortsFollowRegistry, nameVars
<1>4. ASSUME NEW p \in Pids, NEW h \in Handles, Close(p, h), UNCHANGED nameVars
      PROVE  PortsFollowRegistry'
  <2>1. nextHandle' = nextHandle
    BY <1>4 DEF Close
  <2>2. \A q \in Pids, g \in Handles : handles'[q][g] \in {handles[q][g], NoObject}
    BY <1>4 DEF Close, TypeOK
  <2>3. \A n \in Names : servicePorts[n].pid \in Pids
    BY DEF TypeOK
  <2>4. \A h2 \in HandleBase..(nextHandle - 1) : h2 \in Handles
    BY HandleNumbers DEF TypeOK, Handles
  <2>. QED
    BY <1>4, <2>1, <2>2, <2>3, <2>4 DEF PortsFollowRegistry, nameVars
<1>5. ASSUME NEW p \in processes, Registered(p)
      PROVE  PortsFollowRegistry'
  <2>0. /\ p \in Pids /\ nextHandle \in Handles /\ nextHandle \in Nat
        /\ nextHandle <= MaxHandle /\ HandleBase <= nextHandle
    BY HandleNumbers DEF TypeOK, Handles
  <2>1. PICK m \in Names :
            /\ Allocate(p, processes, Port("Srv"))
            /\ registry' = [registry EXCEPT ![m] = "Srv"]
            /\ servicePorts' = [servicePorts EXCEPT ![m] =
                                      [pid |-> p, handle |-> nextHandle]]
    BY <1>5 DEF Registered
  <2>. SUFFICES ASSUME NEW n \in Names
                PROVE  /\ registry'[n] = NoTarget <=> servicePorts'[n] = NoPort
                       /\ servicePorts'[n] # NoPort /\ servicePorts'[n].handle # MaxHandle =>
                            /\ servicePorts'[n].handle \in HandleBase..(nextHandle' - 1)
                            /\ handles'[servicePorts'[n].pid][servicePorts'[n].handle]
                                  \in {Port(registry'[n]), NoObject}
    BY DEF PortsFollowRegistry
  <2>2. CASE n = m
    <3>1. /\ registry'[n] = "Srv"
          /\ servicePorts'[n] = [pid |-> p, handle |-> nextHandle]
      BY <2>1, <2>2 DEF TypeOK
    <3>2. "Srv" # NoTarget /\ servicePorts'[n] # NoPort
      BY <2>0, <3>1, HandleNumbers DEF NoTarget, NoPort
    <3>3. handles'[p][nextHandle] = Port("Srv")
      BY <2>0, <2>1 DEF Allocate, TypeOK
    <3>4. nextHandle # MaxHandle => nextHandle \in HandleBase..(nextHandle' - 1)
      BY <2>0, <2>1, HandleNumbers DEF Allocate
    <3>. QED  BY <3>1, <3>2, <3>3, <3>4
  <2>3. CASE n # m
    <3>1. servicePorts'[n] = servicePorts[n] /\ registry'[n] = registry[n]
      BY <2>1, <2>3 DEF TypeOK
    <3>. QED  BY <2>0, <2>1, <3>1, PortsAllocate DEF PortsFollowRegistry
  <2>. QED  BY <2>2, <2>3
<1>. QED
  BY <1>1, <1>2, <1>3, <1>4, <1>5, NextHandles DEF HandleStep

\* A service name leads to nothing, or to a port of the target registered for
\* it, whoever registers, closes and duplicates in between.
THEOREM PortsAreRegistered == Spec => []PortsFollowRegistry
<1>1. Init => PortsFollowRegistry
  BY PortsBoot DEF Init, PortsFollowRegistry
<1>. QED
  BY <1>1, PortsStep, TypeCorrect, PTL DEF Spec

\* No RomFS archive or file is ever held while no RomFS is mounted.
THEOREM RomFsIsBacked == Spec => []RomFsHandlesBacked
<1>1. Init => RomFsHandlesBacked
  BY BootTables, ObjectTypes DEF Init, RomFsHandlesBacked
<1>2. TypeOK /\ RomFsHandlesBacked /\ [Next]_vars => RomFsHandlesBacked'
  <2>. SUFFICES ASSUME TypeOK, RomFsHandlesBacked, [Next]_vars
                PROVE  RomFsHandlesBacked'
    OBVIOUS
  <2>1. CASE ResetRuntime
    BY <2>1, BootTables, ObjectTypes DEF ResetRuntime, RomFsHandlesBacked
  <2>2. ASSUME NEW p \in Pids, NEW live, NEW obj,
               Allocate(p, live, obj),
               \/ ~IsRomFs(obj)
               \/ romfs.mounted
               \/ \E h \in Handles : handles[p][h] = obj,
               romfs.mounted => romfs'.mounted
        PROVE  RomFsHandlesBacked'
    <3>1. \A q \in Pids, h \in Handles : handles'[q][h] \in {handles[q][h], obj}
      BY <2>2 DEF Allocate, TypeOK
    <3>. QED
      BY <2>2, <3>1 DEF RomFsHandlesBacked, IsRomFs
  <2>3. ASSUME NEW p \in Pids, NEW g \in Handles, Close(p, g),
               romfs.mounted => romfs'.mounted
        PROVE  RomFsHandlesBacked'
    <3>1. \A q \in Pids, h \in Handles : handles'[q][h] \in {handles[q][h], NoObject}
      BY <2>3 DEF Close, TypeOK
    <3>. QED
      BY <2>3, <3>1, ObjectTypes DEF RomFsHandlesBacked
  <2>4. CASE UNCHANGED handleVars /\ (romfs.mounted => romfs'.mounted)
    BY <2>4 DEF RomFsHandlesBacked, handleVars
  <2>5. ~IsRomFs(Port("Srv")) /\ processes \subseteq Pids
    BY ObjectTypes DEF IsRomFs, Targets, TypeOK
  <2>. QED
    BY <2>1, <2>2, <2>3, <2>4, <2>5, NextHandles DEF HandleStep, Allocated, Registered
<1>. QED
  BY <1>1, <1>2, TypeCorrect, PTL DEF Spec

-----------------------------------------------------------------------------
(* Blocking *)

\* Serving a request shortens its process's queue and no other.
LEMMA ServedRequests ==
    ASSUME TypeOK, NEW p \in Pids, requests[p] # <<>>, Served(p)
    PROVE  \A q \in Pids : requests[q] = <<>> => requests'[q] = <<>>
BY DEF Served, TypeOK

\* A pump only shortens queues, and blocks nobody.
LEMMA PumpRequests ==
    ASSUME TypeOK, NEW flags, PumpOne(flags)
    PROVE  \A q \in Pids : requests[q] = <<>> => requests'[q] = <<>>
<1>1. ASSUME NEW p \in Servable(flags), p \in processes, ServiceStep(p)
      PROVE  \A q \in Pids : requests[q] = <<>> => requests'[q] = <<>>
  BY <1>1, ServedRequests DEF Servable, ServiceStep, TypeOK
<1>. QED
  BY <1>1, PumpStep

\* What a step does to the blocking of process q.
BlockingStep(q) ==
    \/ ~blocked'[q]
    \/ requests[q] = <<>> /\ requests'[q] = <<>> /\ pendingWakes'[q] + scheduled'[q] > 0
    \/ /\ blocked'[q] = blocked[q]
       /\ requests[q] = <<>> => requests'[q] = <<>>
       /\ \/ q \in stranded'
          \/ pendingWakes'[q] + scheduled'[q] > 0
          \/ /\ q \notin stranded
             /\ pendingWakes'[q] + scheduled'[q] >= pendingWakes[q] + scheduled[q]

\* A step that touches neither queues nor wakes keeps the blocking facts.
LEMMA QuietBlocking ==
    ASSUME TypeOK, NEW q \in Pids, UNCHANGED <<blocked, pendingWakes, scheduled, stranded>>,
           requests[q] = <<>> => requests'[q] = <<>>
    PROVE  BlockingStep(q)
BY DEF BlockingStep, TypeOK

\* A system call does to the blocking of any process what a blocking step may.
LEMMA SyscallBlocking ==
    ASSUME TypeOK, NEW p \in Pids, NEW q \in Pids, NEW imm, NEW args,
           DispatchSyscall(p, imm, args)
    PROVE  BlockingStep(q)
<1>0. scheduled' = scheduled
  BY DEF DispatchSyscall
<1>1. CASE SendSyncRequest(p) /\ requests[p] = <<>>
  <2>1. /\ blocked' = [blocked EXCEPT ![p] = TRUE]
        /\ pendingWakes' = [pendingWakes EXCEPT ![p] = @ + 1]
        /\ stranded' = stranded \ {p}
        /\ requests' = requests
    BY <1>1 DEF SendSyncRequest
  <2>2. pendingWakes[q] \in Nat /\ scheduled[q] \in Nat
    BY DEF TypeOK
  <2>3. CASE q = p
    <3>1. pendingWakes'[q] = pendingWakes[q] + 1 /\ scheduled'[q] = scheduled[q]
      BY <1>0, <2>1, <2>3 DEF TypeOK
    <3>2. pendingWakes'[q] + scheduled'[q] > 0
      BY <2>2, <3>1
    <3>. QED  BY <1>1, <2>1, <2>3, <3>2 DEF BlockingStep
  <2>4. CASE q # p
    <3>1. pendingWakes'[q] = pendingWakes[q] /\ blocked'[q] = blocked[q]
      BY <2>1, <2>4 DEF TypeOK
    <3>2. pendingWakes'[q] + scheduled'[q] >= pendingWakes[q] + scheduled[q]
      BY <1>0, <2>2, <3>1
    <3>3. requests'[q] = requests[q]
      BY <2>1
    <3>. QED  BY <2>1, <2>4, <3>1, <3>2, <3>3 DEF BlockingStep
  <2>. QED  BY <2>3, <2>4
<1>2. CASE SendSyncRequest(p) /\ requests[p] # <<>>
  BY <1>0, <1>2, PumpRequests, QuietBlocking DEF SendSyncRequest
<1>3. CASE UNCHANGED <<requests, responses, lastResult, lastIpc, blocked,
                       nameVars, runtimeVars, pendingWakes, stranded>>
  BY <1>0, <1>3, QuietBlocking
<1>. QED
  BY <1>1, <1>2, <1>3 DEF DispatchSyscall

\* So does every step.
LEMMA NextBlocking ==
    ASSUME TypeOK, [Next]_vars, NEW q \in Pids
    PROVE  BlockingStep(q)
<1>1. CASE Pump
  BY <1>1, PumpRequests, QuietBlocking DEF Pump, wakeVars
<1>2. ASSUME NEW p \in Pids, NEW h, NEW msg, QueueCommand(p, h, msg)
      PROVE  BlockingStep(q)
  <2>1. CASE p = q
    BY <1>2, <2>1 DEF QueueCommand, BlockingStep, TypeOK
  <2>2. CASE p # q
    <3>1. /\ requests'[q] = requests[q] /\ blocked'[q] = blocked[q]
          /\ UNCHANGED <<pendingWakes, scheduled>>
          /\ stranded' = stranded \ {p}
      BY <1>2, <2>2 DEF QueueCommand, TypeOK, wakeVars
    <3>2. pendingWakes[q] \in Nat /\ scheduled[q] \in Nat
      BY DEF TypeOK
    <3>. QED  BY <2>2, <3>1, <3>2 DEF BlockingStep
  <2>. QED  BY <2>1, <2>2
<1>3. ASSUME NEW p \in Pids, NEW imm, NEW args, DispatchSyscall(p, imm, args)
      PROVE  BlockingStep(q)
  BY <1>3, SyscallBlocking
<1>4. CASE TakeScheduleEvents
  <2>1. /\ UNCHANGED <<requests, blocked, stranded>>
        /\ pendingWakes' = [p \in Pids |-> 0]
        /\ scheduled' = [p \in Pids |-> scheduled[p] + pendingWakes[p]]
    BY <1>4 DEF TakeScheduleEvents, processVars
  <2>2. pendingWakes[q] \in Nat /\ scheduled[q] \in Nat
    BY DEF TypeOK
  <2>3. pendingWakes'[q] + scheduled'[q] >= pendingWakes[q] + scheduled[q]
    BY <2>1, <2>2
  <2>. QED  BY <2>1, <2>3 DEF BlockingStep
<1>5. ASSUME NEW p \in Pids, SchedulerWake(p)
      PROVE  BlockingStep(q)
  <2>1. requests[q] = <<>> => requests'[q] = <<>>
    BY <1>5, PumpRequests DEF SchedulerWake
  <2>2. /\ scheduled' = [scheduled EXCEPT ![p] = @ - 1]
        /\ blocked' = [blocked EXCEPT ![p] = FALSE]
        /\ pendingWakes' = pendingWakes
        /\ stranded' = stranded \ {p}
    BY <1>5 DEF SchedulerWake
  <2>3. pendingWakes[q] \in Nat /\ scheduled[q] \in Nat
    BY DEF TypeOK
  <2>4. CASE q = p
    BY <2>2, <2>4 DEF BlockingStep, TypeOK
  <2>5. CASE q # p
    <3>1. scheduled'[q] = scheduled[q] /\ blocked'[q] = blocked[q]
      BY <2>2, <2>5 DEF TypeOK
    <3>2. pendingWakes'[q] + scheduled'[q] >= pendingWakes[q] + scheduled[q]
      BY <2>2, <2>3, <3>1
    <3>. QED  BY <2>1, <2>2, <2>5, <3>1, <3>2 DEF BlockingStep
  <2>. QED  BY <2>4, <2>5
<1>6. CASE ResetRuntime
  BY <1>6 DEF ResetRuntime, BlockingStep
<1>9. CASE LoadRom
  <2>1. pendingWakes[q] \in Nat /\ blocked[q] \in BOOLEAN
    BY DEF TypeOK
  <2>2. /\ UNCHANGED <<requests, blocked, pendingWakes>>
        /\ scheduled'[q] = 0
        /\ q \in stranded' <=> blocked[q] /\ pendingWakes[q] = 0
    BY <1>9 DEF LoadRom, processVars
  <2>3. blocked'[q] /\ q \notin stranded' => pendingWakes'[q] + scheduled'[q] > 0
    BY <2>1, <2>2
  <2>. QED  BY <2>2, <2>3 DEF BlockingStep
<1>7. CASE UNCHANGED <<requests, blocked, wakeVars>>
  BY <1>7, QuietBlocking DEF wakeVars
<1>8. \/ \E p \in Pids : PopResponse(p)
      \/ \E p \in Pids, n \in Names : ConnectToService(p, n)
      \/ \E p \in Pids, h \in Handles : HandleCall(p, h)
      \/ \E img \in Images : MountRomFs(img)
      \/ DrainGpuHandoff \/ TakeLastIpc \/ TakeLastSwi \/ UNCHANGED vars
      => UNCHANGED <<requests, blocked, wakeVars>>
  BY DEF PopResponse, ConnectToService, HandleCall, MountRomFs, DrainGpuHandoff,
         TakeLastIpc, TakeLastSwi, vars, processVars, wakeVars
<1>. QED
  BY <1>1, <1>2, <1>3, <1>4, <1>5, <1>6, <1>7, <1>8, <1>9, KernelAssumption
  DEF Next, Syscall, HandleSwi

\* The pump's test for blocked processes never delays a request.
THEOREM BlockedHaveNoRequests == Spec => []BlockedHasNoRequests
<1>1. Init => BlockedHasNoRequests
  BY DEF Init, BlockedHasNoRequests
<1>2. TypeOK /\ BlockedHasNoRequests /\ [Next]_vars => BlockedHasNoRequests'
  BY NextBlocking DEF BlockedHasNoRequests, BlockingStep
<1>. QED
  BY <1>1, <1>2, TypeCorrect, PTL DEF Spec

\* A wake is outstanding for every blocked process, but for those whose wake
\* went when a ROM was loaded.
THEOREM BlockedHaveWakes == Spec => []BlockedHasWake
<1>1. Init => BlockedHasWake
  BY DEF Init, BlockedHasWake
<1>2. TypeOK /\ TypeOK' /\ BlockedHasWake /\ [Next]_vars => BlockedHasWake'
  <2>. SUFFICES ASSUME TypeOK, TypeOK', BlockedHasWake, [Next]_vars,
                       NEW q \in Pids, blocked'[q], q \notin stranded'
                PROVE  pendingWakes'[q] + scheduled'[q] > 0
    BY DEF BlockedHasWake
  <2>1. /\ pendingWakes[q] \in Nat /\ scheduled[q] \in Nat
        /\ pendingWakes'[q] \in Nat /\ scheduled'[q] \in Nat
    BY DEF TypeOK
  <2>. QED  BY <2>1, NextBlocking DEF BlockedHasWake, BlockingStep
<1>. QED
  BY <1>1, <1>2, TypeCorrect, PTL DEF Spec

-----------------------------------------------------------------------------
(* Queues *)

\* What a step does to the queues of all processes together.
FlowStep ==
    \/ UNCHANGED <<requests, responses, sent, got>>
    \/ /\ \E p \in Pids : requests[p] # <<>> /\ Served(p)
       /\ UNCHANGED <<sent, got>>
    \/ \E p \in Pids, h \in Handles, msg \in Messages : QueueCommand(p, h, msg)
    \/ \E p \in Pids : PopResponse(p)

\* A pump answers the first request of one process.
LEMMA PumpFlow ==
    ASSUME TypeOK, NEW flags, PumpOne(flags), UNCHANGED <<sent, got>>
    PROVE  FlowStep
<1>1. ASSUME NEW p \in Servable(flags), p \in processes, ServiceStep(p)
      PROVE  FlowStep
  BY <1>1 DEF Servable, ServiceStep, FlowStep, TypeOK
<1>. QED
  BY <1>1, PumpStep DEF FlowStep

\* Every step resets, or does to the queues what a flow step may.
LEMMA NextFlow ==
    ASSUME TypeOK, [Next]_vars
    PROVE  ResetRuntime \/ FlowStep
<1>1. CASE Pump
  BY <1>1, PumpFlow DEF Pump
<1>2. ASSUME NEW p \in Pids, NEW imm, NEW args, DispatchSyscall(p, imm, args)
      PROVE  FlowStep
  <2>1. CASE SendSyncRequest(p) /\ requests[p] # <<>>
    BY <1>2, <2>1, PumpFlow DEF SendSyncRequest, DispatchSyscall
  <2>. QED
    BY <1>2, <2>1 DEF DispatchSyscall, SendSyncRequest, FlowStep
<1>3. ASSUME NEW p \in Pids, SchedulerWake(p)
      PROVE  FlowStep
  BY <1>3, PumpFlow DEF SchedulerWake
<1>4. \/ \E p \in Pids, n \in Names : ConnectToService(p, n)
      \/ \E p \in Pids, h \in Handles : HandleCall(p, h)
      \/ \E img \in Images : MountRomFs(img)
      \/ TakeScheduleEvents \/ LoadRom
      \/ DrainGpuHandoff \/ TakeLastIpc \/ TakeLastSwi \/ UNCHANGED vars
      => UNCHANGED <<requests, responses, sent, got>>
  BY DEF ConnectToService, HandleCall, MountRomFs, DrainGpuHandoff, TakeScheduleEvents,
         LoadRom, TakeLastIpc, TakeLastSwi, vars, processVars
<1>. QED
  BY <1>1, <1>2, <1>3, <1>4, KernelAssumption DEF Next, FlowStep, Syscall, HandleSwi

\* NothingLost for one process, with its responses R, its requests Q, the
\* place g of the last response collected and the number n of requests sent.
ConsecutiveSeqs(R, Q, g, n) ==
    /\ \A i \in 1..Len(R) : R[i].to = g + i
    /\ \A i \in 1..Len(Q) : Q[i].tag = g + Len(R) + i
    /\ n = g + Len(R) + Len(Q)

Consecutive(p) == ConsecutiveSeqs(responses[p], requests[p], got[p], sent[p])

\* Moving the head of the requests to the answers keeps the numbering.
LEMMA ServeSeqs ==
    ASSUME NEW S, NEW T, NEW R \in Seq(S), NEW Q \in Seq(T), Q # <<>>,
           NEW g \in Nat, NEW n, NEW r \in S, r.to = Head(Q).tag,
           ConsecutiveSeqs(R, Q, g, n)
    PROVE  ConsecutiveSeqs(Append(R, r), Tail(Q), g, n) /\ Len(Tail(Q)) = Len(Q) - 1
<1>1. Len(R) \in Nat /\ Len(Q) \in Nat /\ Len(Q) > 0
  OBVIOUS
<1>2. Len(Append(R, r)) = Len(R) + 1 /\ Len(Tail(Q)) = Len(Q) - 1
  BY <1>1
<1>3. Head(Q) = Q[1] /\ Q[1].tag = g + Len(R) + 1
  BY <1>1 DEF ConsecutiveSeqs
<1>4. ASSUME NEW i \in 1..(Len(R) + 1)
      PROVE  Append(R, r)[i].to = g + i
  <2>1. CASE i = Len(R) + 1
    BY <1>1, <1>3, <2>1
  <2>2. CASE i \in 1..Len(R)
    BY <1>1, <2>2 DEF ConsecutiveSeqs
  <2>. QED  BY <1>1, <2>1, <2>2
<1>5. ASSUME NEW i \in 1..(Len(Q) - 1)
      PROVE  Tail(Q)[i].tag = g + (Len(R) + 1) + i
  <2>1. Tail(Q)[i] = Q[i + 1] /\ i + 1 \in 1..Len(Q)
    BY <1>1, <1>2
  <2>2. Q[i + 1].tag = g + Len(R) + (i + 1)
    BY <2>1 DEF ConsecutiveSeqs
  <2>. QED  BY <1>1, <2>1, <2>2
<1>6. n = g + (Len(R) + 1) + (Len(Q) - 1)
  BY <1>1 DEF ConsecutiveSeqs
<1>. QED
  BY <1>2, <1>4, <1>5, <1>6 DEF ConsecutiveSeqs

\* A new request continues the numbering.
LEMMA QueueSeqs ==
    ASSUME NEW S, NEW T, NEW R \in Seq(S), NEW Q \in Seq(T),
           NEW g \in Nat, NEW n \in Nat, NEW r \in T, r.tag = n + 1,
           ConsecutiveSeqs(R, Q, g, n)
    PROVE  ConsecutiveSeqs(R, Append(Q, r), g, n + 1) /\ Len(Append(Q, r)) = Len(Q) + 1
<1>1. Len(R) \in Nat /\ Len(Q) \in Nat
  OBVIOUS
<1>2. Len(Append(Q, r)) = Len(Q) + 1
  BY <1>1
<1>3. n = g + Len(R) + Len(Q)
  BY DEF ConsecutiveSeqs
<1>4. ASSUME NEW i \in 1..(Len(Q) + 1)
      PROVE  Append(Q, r)[i].tag = g + Len(R) + i
  <2>1. CASE i = Len(Q) + 1
    BY <1>1, <1>3, <2>1
  <2>2. CASE i \in 1..Len(Q)
    BY <1>1, <2>2 DEF ConsecutiveSeqs
  <2>. QED  BY <1>1, <2>1, <2>2
<1>5. \A i \in 1..Len(R) : R[i].to = g + i
  BY DEF ConsecutiveSeqs
<1>6. n + 1 = g + Len(R) + (Len(Q) + 1)
  BY <1>1, <1>3
<1>. QED
  BY <1>2, <1>4, <1>5, <1>6 DEF ConsecutiveSeqs

\* Collecting the first answer keeps the numbering.
LEMMA PopSeqs ==
    ASSUME NEW S, NEW T, NEW R \in Seq(S), NEW Q \in Seq(T), R # <<>>,
           NEW g \in Nat, NEW n, ConsecutiveSeqs(R, Q, g, n)
    PROVE  ConsecutiveSeqs(Tail(R), Q, g + 1, n) /\ Head(R).to = g + 1
<1>1. Len(R) \in Nat /\ Len(Q) \in Nat /\ Len(R) > 0
  OBVIOUS
<1>2. Len(Tail(R)) = Len(R) - 1 /\ Head(R) = R[1]
  BY <1>1
<1>3. ASSUME NEW i \in 1..(Len(R) - 1)
      PROVE  Tail(R)[i].to = (g + 1) + i
  <2>1. Tail(R)[i] = R[i + 1] /\ i + 1 \in 1..Len(R)
    BY <1>1, <1>2
  <2>2. R[i + 1].to = g + (i + 1)
    BY <2>1 DEF ConsecutiveSeqs
  <2>. QED  BY <1>1, <2>1, <2>2
<1>4. ASSUME NEW i \in 1..Len(Q)
      PROVE  Q[i].tag = (g + 1) + (Len(R) - 1) + i
  <2>1. Q[i].tag = g + Len(R) + i
    BY DEF ConsecutiveSeqs
  <2>. QED  BY <1>1, <2>1
<1>5. n = (g + 1) + (Len(R) - 1) + Len(Q)
  BY <1>1 DEF ConsecutiveSeqs
<1>6. R[1].to = g + 1
  BY <1>1 DEF ConsecutiveSeqs
<1>. QED
  BY <1>2, <1>3, <1>4, <1>5, <1>6 DEF ConsecutiveSeqs

\* A served process keeps its numbering.
LEMMA ServedConsecutive ==
    ASSUME TypeOK, NEW p \in Pids, requests[p] # <<>>, Served(p), Consecutive(p),
           UNCHANGED <<sent, got>>
    PROVE  /\ Consecutive(p)'
           /\ Len(requests'[p]) = Len(requests[p]) - 1
<1>1. PICK result \in Results, words \in Seq(Nat) :
          responses' = [responses EXCEPT ![p] =
              Append(@, [to |-> Head(requests[p]).tag, result |-> result, words |-> words])]
  BY DEF Served
<1>. DEFINE r == [to |-> Head(requests[p]).tag, result |-> result, words |-> words]
<1>2. r \in Response /\ r.to = Head(requests[p]).tag
  BY HeadRequest DEF Response
<1>3. /\ requests'[p] = Tail(requests[p]) /\ responses'[p] = Append(responses[p], r)
      /\ sent'[p] = sent[p] /\ got'[p] = got[p]
  BY <1>1 DEF Served, TypeOK
<1>4. /\ requests[p] \in Seq(Request) /\ responses[p] \in Seq(Response)
      /\ got[p] \in Nat
  BY DEF TypeOK
<1>. HIDE DEF r
<1>. QED
  BY <1>2, <1>3, <1>4, ServeSeqs DEF Consecutive

\* A process that queues keeps its numbering.
LEMMA QueueConsecutive ==
    ASSUME TypeOK, NEW p \in Pids, NEW h \in Handles, NEW msg \in Messages,
           QueueCommand(p, h, msg), Consecutive(p)
    PROVE  /\ Consecutive(p)'
           /\ Len(requests'[p]) = Len(requests[p]) + 1
<1>. DEFINE r == [session |-> h, msg |-> msg, tag |-> sent[p] + 1]
<1>1. r \in Request /\ r.tag = sent[p] + 1
  BY HandleNumbers DEF TypeOK, Request, Handles
<1>2. /\ requests'[p] = Append(requests[p], r) /\ responses'[p] = responses[p]
      /\ sent'[p] = sent[p] + 1 /\ got'[p] = got[p]
  BY DEF QueueCommand, TypeOK
<1>3. /\ requests[p] \in Seq(Request) /\ responses[p] \in Seq(Response)
      /\ got[p] \in Nat /\ sent[p] \in Nat
  BY DEF TypeOK
<1>. HIDE DEF r
<1>. QED
  BY <1>1, <1>2, <1>3, QueueSeqs DEF Consecutive

\* A process that collects keeps its numbering.
LEMMA PopConsecutive ==
    ASSUME TypeOK, NEW p \in Pids, PopResponse(p), Consecutive(p)
    PROVE  Consecutive(p)' /\ got'[p] = got[p] + 1
<1>1. /\ responses'[p] = Tail(responses[p]) /\ requests'[p] = requests[p]
      /\ got'[p] = Head(responses[p]).to /\ sent'[p] = sent[p]
  BY DEF PopResponse, TypeOK
<1>2. /\ requests[p] \in Seq(Request) /\ responses[p] \in Seq(Response)
      /\ responses[p] # <<>> /\ got[p] \in Nat
  BY DEF TypeOK, PopResponse
<1>. QED
  BY <1>1, <1>2, PopSeqs DEF Consecutive

\* A step leaves the queues of the processes it is not about alone.
LEMMA OthersConsecutive ==
    ASSUME TypeOK, NEW q \in Pids, Consecutive(q),
           requests'[q] = requests[q], responses'[q] = responses[q],
           sent'[q] = sent[q], got'[q] = got[q]
    PROVE  Consecutive(q)'
BY DEF Consecutive

\* Every step keeps every process's numbering without gaps.
LEMMA NothingLostStep == TypeOK /\ NothingLost /\ [Next]_vars => NothingLost'
<1>. SUFFICES ASSUME TypeOK, NothingLost, [Next]_vars, NEW q \in Pids
              PROVE  Consecutive(q)'
  BY DEF NothingLost, Consecutive, ConsecutiveSeqs
<1>0. Consecutive(q)
  BY DEF NothingLost, Consecutive, ConsecutiveSeqs
<1>1. CASE ResetRuntime
  BY <1>1 DEF ResetRuntime, Consecutive, ConsecutiveSeqs
<1>2. CASE UNCHANGED <<requests, responses, sent, got>>
  BY <1>0, <1>2, OthersConsecutive
<1>3. ASSUME NEW p \in Pids, requests[p] # <<>>, Served(p), UNCHANGED <<sent, got>>
      PROVE  Consecutive(q)'
  <2>1. CASE p = q
    BY <1>0, <1>3, <2>1, ServedConsecutive
  <2>2. CASE p # q
    BY <1>0, <1>3, <2>2, OthersConsecutive DEF Served, TypeOK
  <2>. QED  BY <2>1, <2>2
<1>4. ASSUME NEW p \in Pids, NEW h \in Handles, NEW msg \in Messages,
             QueueCommand(p, h, msg)
      PROVE  Consecutive(q)'
  <2>1. CASE p = q
    BY <1>0, <1>4, <2>1, QueueConsecutive
  <2>2. CASE p # q
    BY <1>0, <1>4, <2>2, OthersConsecutive DEF QueueCommand, TypeOK
  <2>. QED  BY <2>1, <2>2
<1>5. ASSUME NEW p \in Pids, PopResponse(p)
      PROVE  Consecutive(q)'
  <2>1. CASE p = q
    BY <1>0, <1>5, <2>1, PopConsecutive
  <2>2. CASE p # q
    BY <1>0, <1>5, <2>2, OthersConsecutive DEF PopResponse, TypeOK
  <2>. QED  BY <2>1, <2>2
<1>. QED
  BY <1>1, <1>2, <1>3, <1>4, <1>5, NextFlow DEF FlowStep

\* Requests are answered, and answers collected, in the order the requests
\* were queued, none lost and none answered twice.
THEOREM NothingIsLost == Spec => []NothingLost
<1>1. Init => NothingLost
  BY DEF Init, NothingLost
<1>. QED
  BY <1>1, NothingLostStep, TypeCorrect, PTL DEF Spec

-----------------------------------------------------------------------------
(* Authority *)

\* In this step, p gets a handle to an archive or a file it had none to.
Opens(p) ==
    \E h \in Handles :
        /\ handles'[p][h].type \in {"Archive", "File"}
        /\ \A g \in Handles : handles'[p][h] # handles[p][g]

\* What a step does to the state of a service, it does on a session.
Authority ==
    /\ UNCHANGED nameVars \/ \E p \in Pids : ServedOn(p, "Srv")
    /\ \A p \in Pids : Opens(p) => ServedOn(p, "FsUser")
    /\ UNCHANGED appState \/ \E p \in Pids : ServedOn(p, "AptU")
    /\ Len(gpuHandoff') <= Len(gpuHandoff) \/ \E p \in Pids : ServedOn(p, "GspGpu")
    /\ UNCHANGED hid \/ \E p \in Pids : ServedOn(p, "HidUser")

\* An allocation opens nothing for anyone but p, and nothing for p if the
\* object is no archive or file, or one p has a handle to.
LEMMA AllocateOpens ==
    ASSUME TypeOK, NEW p \in Pids, NEW live, NEW obj, Allocate(p, live, obj)
    PROVE  /\ \A q \in Pids \ {p} : ~Opens(q)
           /\ \/ obj.type \notin {"Archive", "File"}
              \/ \E g \in Handles : handles[p][g] = obj
              => ~Opens(p)
<1>1. nextHandle \in Handles
  BY HandleNumbers DEF TypeOK, Handles
<1>2. \A q \in Pids \ {p}, h \in Handles : handles'[q][h] = handles[q][h]
  BY DEF Allocate, TypeOK
<1>3. \A h \in Handles : handles'[p][h] = handles[p][h] \/ handles'[p][h] = obj
  BY <1>1 DEF Allocate, TypeOK
<1>. QED
  BY <1>2, <1>3 DEF Opens

\* Closing a handle opens nothing.
LEMMA CloseOpens ==
    ASSUME TypeOK, NEW p \in Pids, NEW h, Close(p, h)
    PROVE  \A q \in Pids : ~Opens(q)
<1>1. \A q \in Pids, g \in Handles : handles'[q][g] \in {handles[q][g], NoObject}
  BY DEF Close, TypeOK
<1>. QED
  BY <1>1, ObjectTypes DEF Opens

LEMMA DuplicateOpens ==
    ASSUME TypeOK, NEW p \in Pids, NEW live, NEW h, Duplicate(p, live, h)
    PROVE  \A q \in Pids : ~Opens(q)
<1>1. CASE UNCHANGED handleVars
  BY <1>1 DEF Opens, handleVars
<1>2. CASE Object(p, h) # NoObject /\ Allocate(p, live, Object(p, h))
  <2>1. h \in Handles /\ Object(p, h) = handles[p][h]
    BY <1>2, ObjectType
  <2>. QED
    BY <1>2, <2>1, AllocateOpens
<1>. QED
  BY <1>1, <1>2 DEF Duplicate

\* create_event and a connection give handles to no archive and no file.
LEMMA OtherOpens ==
    ASSUME TypeOK, NEW p \in Pids, NEW live, NEW obj, Allocate(p, live, obj),
           obj = Event \/ \E t \in Targets : obj \in {Port(t), Session(t)}
    PROVE  \A q \in Pids : ~Opens(q)
<1>1. obj.type \notin {"Archive", "File"}
  BY ObjectTypes
<1>. QED
  BY <1>1, AllocateOpens

\* A step that only refuses, or leaves services and handles alone.
LEMMA NothingDone ==
    ASSUME TypeOK, UNCHANGED <<nameVars, runtimeVars>>, \A q \in Pids : ~Opens(q)
    PROVE  Authority
BY DEF Authority, runtimeVars, TypeOK

LEMMA PublishedTarget ==
    ASSUME TypeOK, NEW n \in Names, IsPublished(n)
    PROVE  Published(n).target \in Targets
<1>1. servicePorts[n].pid \in Pids
  BY DEF TypeOK
<1>. QED
  BY <1>1, ObjectType, ObjectFacts DEF Published, IsPublished

\* The dispatch of a request goes to the service of its session, and each
\* service keeps to its own state.
LEMMA DispatchAuthority ==
    ASSUME TypeOK, NEW p \in processes, requests[p] # <<>>,
           DispatchRequest(p, Head(requests[p]))
    PROVE  Authority
<1>. DEFINE req == Head(requests[p])
            obj == Object(p, req.session)
<1>0. p \in Pids
  BY DEF TypeOK
<1>1. requests'[p] = Tail(requests[p])
  <2>1. Served(p)
    BY DispatchStep DEF ServiceStep
  <2>. QED
    BY <1>0, <2>1 DEF Served, TypeOK
<1>2. \A t : obj = Session(t) => ServedOn(p, t)
  BY <1>1 DEF ServedOn
<1>3. ASSUME UNCHANGED handleVars
      PROVE  \A q \in Pids : ~Opens(q)
  BY <1>3 DEF handleVars, Opens
<1>4. ASSUME NEW result, Refuse(p, req, result)
      PROVE  Authority
  BY <1>3, <1>4, NothingDone DEF Refuse
<1>5. CASE obj = Session("Srv") /\ DispatchSrv(p, req)
  <2>1. ServedOn(p, "Srv")
    BY <1>2, <1>5
  <2>2. ASSUME UNCHANGED runtimeVars, \A q \in Pids : ~Opens(q)
        PROVE  Authority
    BY <1>0, <2>1, <2>2 DEF Authority, runtimeVars, TypeOK
  <2>3. CASE RegisterService(p, req)
    <3>1. \A q \in Pids : ~Opens(q)
      BY <1>0, <2>3, OtherOpens DEF RegisterService, Targets
    <3>. QED
      BY <2>2, <2>3, <3>1 DEF RegisterService
  <2>4. CASE /\ IsPublished(req.msg.name)
             /\ ReplyHandle(p, req, Session(Published(req.msg.name).target))
    <3>1. Published(req.msg.name).target \in Targets
      BY <1>0, <2>4, HeadRequest, PublishedTarget
    <3>2. \A q \in Pids : ~Opens(q)
      BY <1>0, <2>4, <3>1, OtherOpens DEF ReplyHandle
    <3>. QED
      BY <2>2, <2>4, <3>2 DEF ReplyHandle
  <2>. QED
    BY <1>4, <1>5, <2>3, <2>4 DEF DispatchSrv
<1>6. CASE obj = Session("FsUser") /\ DispatchFs(p, req)
  <2>1. ServedOn(p, "FsUser")
    BY <1>2, <1>6
  <2>2. ASSUME UNCHANGED <<nameVars, runtimeVars>>, \A q \in Pids \ {p} : ~Opens(q)
        PROVE  Authority
    BY <2>1, <2>2 DEF Authority, runtimeVars, TypeOK
  <2>3. ASSUME NEW file, ReplyHandle(p, req, file)
        PROVE  Authority
    BY <1>0, <2>2, <2>3, AllocateOpens DEF ReplyHandle
  <2>4. ASSUME UNCHANGED <<handleVars, nameVars, runtimeVars>>
        PROVE  Authority
    BY <1>3, <2>4, NothingDone
  <2>. QED
    BY <1>4, <1>6, <2>3, <2>4 DEF DispatchFs, OpenArchive, OpenFile, ReadFile
<1>7. CASE obj = Session("AptU") /\ DispatchApt(p, req)
  <2>1. CASE UNCHANGED <<handleVars, nameVars, gpuHandoff, hid>>
    BY <1>0, <1>2, <1>3, <1>7, <2>1 DEF Authority, TypeOK
  <2>. QED
    BY <1>4, <1>7, <2>1 DEF DispatchApt
<1>8. CASE obj = Session("GspGpu") /\ DispatchGsp(p, req)
  <2>1. CASE UNCHANGED <<handleVars, nameVars, appState, hid>>
    BY <1>0, <1>2, <1>3, <1>8, <2>1 DEF Authority
  <2>. QED
    BY <1>4, <1>8, <2>1 DEF DispatchGsp
<1>9. CASE obj = Session("HidUser") /\ DispatchHid(p, req)
  <2>1. CASE UNCHANGED <<handleVars, nameVars, appState, gpuHandoff>>
    BY <1>0, <1>2, <1>3, <1>9, <2>1 DEF Authority, TypeOK
  <2>. QED
    BY <1>4, <1>9, <2>1 DEF DispatchHid, runtimeVars
<1>. QED
  BY <1>4, <1>5, <1>6, <1>7, <1>8, <1>9 DEF DispatchRequest

LEMMA PumpAuthority ==
    ASSUME TypeOK, NEW flags, PumpOne(flags)
    PROVE  Authority
<1>1. ASSUME NEW p \in Servable(flags), DispatchRequest(p, Head(requests[p]))
      PROVE  Authority
  BY <1>1, DispatchAuthority DEF Servable
<1>2. CASE UNCHANGED <<handleVars, nameVars, runtimeVars>>
  BY <1>2, NothingDone DEF handleVars, Opens
<1>. QED
  BY <1>1, <1>2 DEF PumpOne

LEMMA SyscallAuthority ==
    ASSUME TypeOK, NEW p \in Pids, NEW imm, NEW args, DispatchSyscall(p, imm, args)
    PROVE  Authority
<1>1. CASE UNCHANGED <<handleVars, nameVars, runtimeVars>>
  BY <1>1, NothingDone DEF handleVars, Opens
<1>2. CASE SendSyncRequest(p)
  BY <1>1, <1>2, PumpAuthority DEF SendSyncRequest
<1>3. CASE /\ UNCHANGED <<nameVars, runtimeVars>>
           /\ \/ Allocate(p, processes', Event)
              \/ Duplicate(p, processes', args[1])
              \/ Close(p, args[1])
  BY <1>3, NothingDone, OtherOpens, DuplicateOpens, CloseOpens
<1>. QED
  BY <1>1, <1>2, <1>3 DEF DispatchSyscall

LEMMA AuthorityStep ==
    ASSUME TypeOK, [Next]_vars
    PROVE  ResetRuntime \/ Authority
<1>1. ASSUME UNCHANGED <<handleVars, nameVars, runtimeVars>>
      PROVE  Authority
  BY <1>1, NothingDone DEF handleVars, Opens
<1>2. CASE \/ \E p \in Pids, h \in Handles, msg \in Messages : QueueCommand(p, h, msg)
           \/ \E p \in Pids : PopResponse(p)
           \/ \E img \in Images : MountRomFs(img)
           \/ TakeScheduleEvents \/ TakeLastIpc \/ TakeLastSwi \/ LoadRom \/ UNCHANGED vars
  <2>1. UNCHANGED <<handleVars, nameVars, runtimeVars>>
    BY <1>2 DEF QueueCommand, PopResponse, MountRomFs, TakeScheduleEvents, TakeLastIpc,
                TakeLastSwi, LoadRom, vars
  <2>. QED
    BY <1>1, <2>1
<1>3. CASE Pump
  BY <1>3, PumpAuthority DEF Pump
<1>4. ASSUME NEW p \in Pids, SchedulerWake(p)
      PROVE  Authority
  BY <1>4, PumpAuthority DEF SchedulerWake
<1>5. ASSUME NEW p \in Pids, NEW imm, NEW args, DispatchSyscall(p, imm, args)
      PROVE  Authority
  BY <1>5, SyscallAuthority
<1>6. ASSUME NEW p \in Pids, NEW n \in Names, ConnectToService(p, n)
      PROVE  Authority
  <2>1. UNCHANGED <<nameVars, runtimeVars>>
    BY <1>6 DEF ConnectToService
  <2>2. CASE IsPublished(n) /\ Allocate(p, processes', Session(Published(n).target))
    BY <2>1, <2>2, PublishedTarget, OtherOpens, NothingDone
  <2>. QED
    BY <1>1, <1>6, <2>1, <2>2 DEF ConnectToService
<1>7. ASSUME NEW p \in Pids, NEW h \in Handles, HandleCall(p, h)
      PROVE  Authority
  BY <1>7, OtherOpens, DuplicateOpens, CloseOpens, NothingDone DEF HandleCall
<1>8. CASE DrainGpuHandoff
  <2>1. /\ UNCHANGED <<handleVars, nameVars, appState, hid>> /\ gpuHandoff' = <<>>
        /\ Len(gpuHandoff) \in Nat
    BY <1>8 DEF DrainGpuHandoff, TypeOK
  <2>2. \A q \in Pids : ~Opens(q)
    BY <2>1 DEF handleVars, Opens
  <2>. QED
    BY <2>1, <2>2 DEF Authority
<1>. QED
  BY <1>2, <1>3, <1>4, <1>5, <1>6, <1>7, <1>8, KernelAssumption DEF Next, Syscall, HandleSwi

\* Whatever a process sends, and on whatever handle, it acts on a service only
\* through a session on that service: only srv: changes the name table, only
\* fs:USER opens archives and files, only apt:u, gsp::Gpu and hid:USER change
\* what is theirs.
THEOREM ServicesKeepAuthority == Spec => ServiceAuthority
<1>1. TypeOK /\ TypeOK' /\ [Next]_vars =>
        [\/ /\ nameVars' # nameVars => \E p \in Pids : ServedOn(p, "Srv")
            /\ \A p \in Pids, h \in Handles :
                  /\ handles'[p][h].type \in {"Archive", "File"}
                  /\ \A g \in Handles : handles'[p][h] # handles[p][g]
                  => ServedOn(p, "FsUser")
            /\ appState' # appState => \E p \in Pids : ServedOn(p, "AptU")
            /\ Len(gpuHandoff') > Len(gpuHandoff) => \E p \in Pids : ServedOn(p, "GspGpu")
            /\ hid' # hid => \E p \in Pids : ServedOn(p, "HidUser")
         \/ ResetRuntime]_vars
  <2>. SUFFICES ASSUME TypeOK, TypeOK', Authority
                PROVE  /\ nameVars' # nameVars => \E p \in Pids : ServedOn(p, "Srv")
                       /\ \A p \in Pids, h \in Handles :
                             /\ handles'[p][h].type \in {"Archive", "File"}
                             /\ \A g \in Handles : handles'[p][h] # handles[p][g]
                             => ServedOn(p, "FsUser")
                       /\ appState' # appState => \E p \in Pids : ServedOn(p, "AptU")
                       /\ Len(gpuHandoff') > Len(gpuHandoff)
                             => \E p \in Pids : ServedOn(p, "GspGpu")
                       /\ hid' # hid => \E p \in Pids : ServedOn(p, "HidUser")
    BY AuthorityStep
  <2>1. Len(gpuHandoff) \in Nat /\ Len(gpuHandoff') \in Nat
    BY DEF TypeOK
  <2>. QED
    BY <2>1 DEF Authority, Opens
<1>. QED
  BY <1>1, TypeCorrect, PTL DEF Spec, ServiceAuthority

-----------------------------------------------------------------------------
(* The kernel implements the IPC channels.                                 *)

\* The second channel counter, as the refinement computes it.
Answered == [p \in Pids |-> sent[p] - Len(requests[p])]

\* Only the counters of process p matter to the channels in this step.
LEMMA AnsweredExcept ==
    ASSUME NEW p \in Pids,
           \A q \in Pids \ {p} : sent'[q] = sent[q] /\ requests'[q] = requests[q]
    PROVE  Answered' = [Answered EXCEPT ![p] = sent'[p] - Len(requests'[p])]
BY DEF Answered

\* Empty queues are empty channels.
LEMMA ChannelInit == Init => Channels!ChanInit
<1>. SUFFICES ASSUME Init PROVE Channels!ChanInit
  OBVIOUS
<1>1. Answered = [p \in Pids |-> 0]
  BY DEF Init, Answered
<1>. QED
  BY <1>1 DEF Init, Channels!ChanInit, Answered

\* Every step of the kernel is a step of the channels or a stutter.
LEMMA ChannelStep ==
    TypeOK /\ NothingLost /\ [Next]_vars => [Channels!ChanNext]_(Channels!chanVars)
<1>. SUFFICES ASSUME TypeOK, NothingLost, [Next]_vars
              PROVE  \/ Channels!ChanNext
                     \/ UNCHANGED <<sent, Answered, got>>
  BY DEF Channels!chanVars, Answered
<1>0. \A p \in Pids : /\ sent[p] \in Nat /\ got[p] \in Nat
                      /\ requests[p] \in Seq(Request) /\ responses[p] \in Seq(Response)
                      /\ Len(requests[p]) \in Nat /\ Len(responses[p]) \in Nat
                      /\ Consecutive(p)
  BY DEF TypeOK, NothingLost, Consecutive, ConsecutiveSeqs
<1>1. CASE ResetRuntime
  <2>1. Answered' = [p \in Pids |-> 0]
    BY <1>1 DEF ResetRuntime, Answered
  <2>2. Channels!Restart
    BY <1>1, <2>1 DEF ResetRuntime, Channels!Restart, Answered
  <2>. QED  BY <2>2 DEF Channels!ChanNext
<1>2. CASE UNCHANGED <<requests, responses, sent, got>>
  BY <1>2 DEF Answered
<1>3. ASSUME NEW p \in Pids, requests[p] # <<>>, Served(p), UNCHANGED <<sent, got>>
      PROVE  Channels!ChanNext
  <2>1. Len(requests'[p]) = Len(requests[p]) - 1
    BY <1>0, <1>3, ServedConsecutive
  <2>2. \A q \in Pids \ {p} : sent'[q] = sent[q] /\ requests'[q] = requests[q]
    BY <1>3 DEF Served, TypeOK
  <2>3. /\ Answered[p] = sent[p] - Len(requests[p])
        /\ sent'[p] - Len(requests'[p]) = Answered[p] + 1
        /\ Answered[p] < sent[p]
    <3>1. Answered[p] = sent[p] - Len(requests[p]) /\ Len(requests[p]) > 0
      BY <1>0, <1>3 DEF Answered
    <3>2. sent'[p] = sent[p]
      BY <1>3
    <3>. QED  BY <1>0, <2>1, <3>1, <3>2
  <2>4. Answered' = [Answered EXCEPT ![p] = Answered[p] + 1]
    BY <2>2, <2>3, AnsweredExcept
  <2>5. Channels!Answer(p)
    BY <1>3, <2>3, <2>4 DEF Channels!Answer, Answered
  <2>. QED  BY <2>5 DEF Channels!ChanNext
<1>4. ASSUME NEW p \in Pids, NEW h \in Handles, NEW msg \in Messages,
             QueueCommand(p, h, msg)
      PROVE  Channels!ChanNext
  <2>1. Len(requests'[p]) = Len(requests[p]) + 1
    BY <1>0, <1>4, QueueConsecutive
  <2>2. /\ \A q \in Pids \ {p} : sent'[q] = sent[q] /\ requests'[q] = requests[q]
        /\ sent' = [sent EXCEPT ![p] = sent[p] + 1]
        /\ sent'[p] = sent[p] + 1
        /\ got' = got
    BY <1>4 DEF QueueCommand, TypeOK
  <2>3. sent'[p] - Len(requests'[p]) = Answered[p]
    <3>1. Answered[p] = sent[p] - Len(requests[p])
      BY DEF Answered
    <3>2. sent'[p] = sent[p] + 1
      BY <2>2
    <3>. QED  BY <1>0, <2>1, <3>1, <3>2
  <2>4. Answered' = Answered
    BY <2>2, <2>3, AnsweredExcept DEF Answered
  <2>5. Channels!Submit(p)
    BY <2>2, <2>4 DEF Channels!Submit, Answered
  <2>. QED  BY <2>5 DEF Channels!ChanNext
<1>5. ASSUME NEW p \in Pids, PopResponse(p)
      PROVE  Channels!ChanNext
  <2>1. /\ got' = [got EXCEPT ![p] = got[p] + 1]
        /\ UNCHANGED <<sent, requests>>
    <3>1. got'[p] = got[p] + 1
      BY <1>0, <1>5, PopConsecutive
    <3>. QED  BY <1>5, <3>1 DEF PopResponse, TypeOK
  <2>2. got[p] < Answered[p]
    <3>1. sent[p] = got[p] + Len(responses[p]) + Len(requests[p])
      BY <1>0 DEF Consecutive, ConsecutiveSeqs
    <3>2. Len(responses[p]) > 0
      BY <1>0, <1>5 DEF PopResponse
    <3>3. Answered[p] = sent[p] - Len(requests[p])
      BY DEF Answered
    <3>. QED  BY <1>0, <3>1, <3>2, <3>3
  <2>3. Channels!Collect(p)
    BY <2>1, <2>2 DEF Channels!Collect, Answered
  <2>. QED  BY <2>3 DEF Channels!ChanNext
<1>. QED
  BY <1>1, <1>2, <1>3, <1>4, <1>5, NextFlow DEF FlowStep

\* Whatever the guests, the loop and the scheduler do, the kernel behaves as
\* one first-in first-out channel per process.
THEOREM KernelImplementsChannels == Spec => ImplementsChannels
<1>. QED
  BY ChannelInit, ChannelStep, TypeCorrect, NothingIsLost, PTL
  DEF Spec, ImplementsChannels, Channels!ChanSpec

=============================================================================
