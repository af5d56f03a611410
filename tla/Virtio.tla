-------------------------------- MODULE Virtio --------------------------------
(***************************************************************************)
(* The virtio block device: the transport driver (Virtio10Dxe), the ring   *)
(* (VirtioLib) and the block driver on top (VirtioBlkDxe), against a       *)
(* device that works through the ring on its own.                          *)
(*                                                                         *)
(* A start is one action with one outcome for each call that can fail; a   *)
(* request is the submission, the device's work and the return; releasing  *)
(* the device takes a step for each call, since the device looks at the    *)
(* ring until it is reset.  Requests are not nested.  The revision of the  *)
(* transport is 1.0, the only one in the package.                          *)
(***************************************************************************)
EXTENDS Integers, Sequences, FiniteSets

CONSTANTS
    Disks,          \* devices: [sectors, blkSize (in sectors, 0 if not offered), offered,
                    \*   takes (it accepts the features chosen), queueMax]
    MaxBlocks,      \* bound: the blocks of a request
    MaxRequest,     \* SIZE_1GB, in sectors
    IndexModulus,   \* the ring's indices wrap here (2^16 in the code)
    MaxLost,        \* bound: requests left in the ring by notifications that failed
    Tags,           \* what a write writes
    Failures        \* the calls that may fail

VARIABLES
    held,   \* what both drivers have acquired
    step,   \* "none", "bound", "started", "reset", "unmapped", "exited"
    ctx,    \* the block driver's media
    call,   \* the request in progress, or the last one
    host    \* the device: registers, ring and disk

vars == <<held, step, ctx, call, host>>

Wanted == [lo |-> {"blkSize", "topology", "ro", "flush"}, hi |-> {"version1", "iommu"}]
NoFeatures == [lo |-> {}, hi |-> {}]
NoMedia == [blockSize |-> 0, lastBlock |-> 0, readOnly |-> FALSE, writeCaching |-> FALSE]
NoCall == [state |-> "idle", result |-> "none", op |-> "none", sector |-> 0, from |-> 0, size |-> 0, buffer |-> <<>>,
           shared |-> <<>>, hostStatus |-> "ok", mapped |-> {}, next |-> 0]
NoRing == [desc |-> [i \in {} |-> 0], avail |-> [i \in {} |-> 0], availIdx |-> 0, usedIdx |-> 0]

\* disk is the device's contents; stale is set if it follows a descriptor to memory that is not
\* mapped.
Init ==
    /\ held = {}
    /\ step = "none"
    /\ ctx = NoMedia
    /\ call = NoCall
    /\ \E d \in Disks :
         host = [dev |-> d, status |-> {}, select |-> 0, driver |-> NoFeatures, enabled |-> FALSE,
                 notified |-> FALSE, ring |-> NoRing, disk |-> [s \in 0 .. d.sectors - 1 |-> 0],
                 stale |-> FALSE]

Fails(c) == c \in Failures

-----------------------------------------------------------------------------
\* Virtio10Dxe: binding.
Transport == <<"device", "pciIo", "pciRead", "capabilities", "getAttributes", "attributes", "virtIo">>
TransportOwned == {"device", "pciIo", "attributes", "virtIo"}
Calls(seq, n) == {seq[i] : i \in 1 .. n}

\* The cleanup labels of Virtio10BindingStart: attributes restored, PciIo closed, memory freed.
Restored(h) == h \ {"attributes", "pciIo", "device"}

Virtio10BindingStart ==
    /\ step = "none"
    /\ \/ \E i \in 1 .. Len(Transport) :
            /\ Fails(Transport[i])
            /\ held' = held \cup Restored(Calls(Transport, i - 1) \cap TransportOwned)
            /\ UNCHANGED step
       \/ held' = held \cup TransportOwned /\ step' = "bound"
    /\ UNCHANGED <<ctx, call, host>>

Virtio10BindingStop ==
    /\ step = "bound"
    /\ held' = Restored(held \ {"virtIo"})
    /\ step' = "none"
    /\ UNCHANGED <<ctx, call, host>>

-----------------------------------------------------------------------------
\* Virtio10Dxe: the registers of the device.

\* Writing zero resets the device.
SetDeviceStatus(d, status) ==
    IF status = {} THEN [d EXCEPT !.status = {}, !.driver = NoFeatures, !.enabled = FALSE, !.notified = FALSE]
    ELSE [d EXCEPT !.status = status]

\* Both halves are written, each after its selector.
SetGuestFeatures(d, lo, hi) == [d EXCEPT !.driver = [lo |-> lo, hi |-> hi]]

SetQueueAddress(d, ring) == [d EXCEPT !.ring = ring, !.enabled = TRUE]

\* The queue that was selected is selected again once the notification offset is known.
SetQueueNotify(d) == [d EXCEPT !.notified = TRUE]

-----------------------------------------------------------------------------
\* VirtioLib: the ring.
QueueSize == host.dev.queueMax

VirtioRingInit(q) == [desc |-> [i \in 0 .. q - 1 |-> [buffer |-> "none", next |-> FALSE]],
                      avail |-> [i \in 0 .. q - 1 |-> 0], availIdx |-> 0, usedIdx |-> 0]

\* The chain of a request always starts at descriptor 0: only one is in flight.
VirtioAppendDesc(desc, i, buffer, flags) == [desc EXCEPT ![i % QueueSize] = [buffer |-> buffer, next |-> flags]]

\* VirtioFlush up to the notification: the head goes into the available ring, then the index
\* moves.
Published(ring, desc) ==
    [ring EXCEPT !.desc = desc, !.avail[ring.availIdx % QueueSize] = 0,
                 !.availIdx = (ring.availIdx + 1) % IndexModulus]

-----------------------------------------------------------------------------
\* VirtioBlkInit.
BlockInit == <<"reset", "ack", "driver", "features", "capacity", "blkSize", "writeFeatures", "queueSel",
               "queueMax", "ring", "ringMap", "queueNum", "queueAddress", "driverOk">>

BlockSize(d) == IF "blkSize" \in d.offered.lo THEN d.blkSize ELSE 1

\* A device without sectors, whose block size does not divide them, that takes no features or
\* whose queue cannot hold a request is refused.
Refused(c, d) ==
    \/ c = "capacity" /\ d.sectors = 0
    \/ c = "blkSize" /\ (BlockSize(d) = 0 \/ d.sectors % BlockSize(d) # 0)
    \/ c = "writeFeatures" /\ ~d.takes
    \/ c = "queueMax" /\ d.queueMax < 3

StatusBits == [ack |-> {"ack"}, driver |-> {"ack", "driver"}, writeFeatures |-> {"ack", "driver", "featuresOk"},
               driverOk |-> {"ack", "driver", "featuresOk", "driverOk"}]

Effect(c, h) ==
    LET agreed(half) == h.dev.offered[half] \cap Wanted[half]
        s == IF c \in DOMAIN StatusBits THEN SetDeviceStatus(h, StatusBits[c]) ELSE h
    IN  CASE c = "reset"         -> SetDeviceStatus(h, {})
          [] c = "writeFeatures" -> SetGuestFeatures(s, agreed("lo"), agreed("hi"))
          [] c = "queueSel"      -> [h EXCEPT !.select = 0]
          [] c = "queueAddress"  -> SetQueueAddress(h, VirtioRingInit(h.dev.queueMax))
          [] OTHER               -> s

\* The device after the first n calls.
After(n, h) == LET f[i \in 0 .. n] == IF i = 0 THEN h ELSE Effect(BlockInit[i], f[i - 1]) IN f[n]

\* VirtioBlkInit fails at call i: the ring is unmapped and freed, and the device told.
FailedAt(i, h) == SetDeviceStatus(After(i - 1, h), After(i - 1, h).status \cup {"failed"})

Media(d) == [blockSize |-> BlockSize(d), lastBlock |-> (d.sectors \div BlockSize(d)) - 1,
             readOnly |-> "ro" \in d.offered.lo, writeCaching |-> "flush" \in d.offered.lo]

Memory == {"blk", "virtIoOpen"}
VirtioBlkInit ==
    \/ \E i \in 1 .. Len(BlockInit) :
         /\ Fails(BlockInit[i]) \/ Refused(BlockInit[i], host.dev)
         /\ \A j \in 1 .. i - 1 : ~Refused(BlockInit[j], host.dev)
         /\ host' = FailedAt(i, host)
         /\ UNCHANGED <<held, step, ctx>>
    \/ /\ \A j \in 1 .. Len(BlockInit) : ~Refused(BlockInit[j], host.dev)
       /\ host' = After(Len(BlockInit), host)
       /\ ctx' = Media(host.dev)
       /\ \/ held' = held \cup Memory \cup {"ring", "ringMap", "exitBoot", "blockIo"} /\ step' = "started"
          \/ /\ Fails("exitBoot") \/ Fails("blockIo")
             /\ held' = held \cup Memory \cup {"ring", "ringMap"}
             /\ step' = "uninit"

VirtioBlkDriverBindingStart ==
    /\ step = "bound"
    /\ \/ (Fails("blk") \/ Fails("virtIoOpen")) /\ UNCHANGED <<held, step, ctx, host>>
       \/ VirtioBlkInit
    /\ UNCHANGED call

\* Stop: the protocol and the event go first, then VirtioBlkUninit.
VirtioBlkDriverBindingStop ==
    /\ step = "started"
    /\ call.state = "idle"
    /\ held' = held \ {"blockIo", "exitBoot"}
    /\ step' = "uninit"
    /\ UNCHANGED <<ctx, call, host>>


VirtioBlkUninit ==
    /\ \/ step = "uninit" /\ step' = "reset" /\ host' = SetDeviceStatus(host, {}) /\ UNCHANGED <<held, ctx>>
       \/ step = "reset" /\ step' = "unmapped" /\ held' = held \ {"ringMap"} /\ UNCHANGED <<ctx, host>>
       \/ step = "unmapped" /\ step' = "bound" /\ held' = held \ ({"ring"} \cup Memory) /\ ctx' = NoMedia
          /\ UNCHANGED host
    /\ UNCHANGED call

\* Boot services end, and with them the driver's claim on its memory: the device is reset if
\* the event of VirtioBlkExitBoot exists.  Starts, stops and requests are synchronous calls,
\* none of which is in progress.
VirtioBlkExitBoot ==
    /\ step \in {"none", "bound", "started"}
    /\ call.state = "idle"
    /\ step' = "exited"
    /\ host' = IF "exitBoot" \in held THEN SetDeviceStatus(host, {}) ELSE host
    /\ UNCHANGED <<held, ctx, call>>

-----------------------------------------------------------------------------
\* VirtioBlkReadBlocks, VirtioBlkWriteBlocks, VirtioBlkFlushBlocks.

\* size is counted in sectors.
VerifyReadWriteRequest(lba, size, write) ==
    /\ size <= MaxRequest /\ size % ctx.blockSize = 0
    /\ lba <= ctx.lastBlock
    /\ (size \div ctx.blockSize) - 1 <= ctx.lastBlock - lba
    /\ write => ~ctx.readOnly

RequestCalls == <<"request", "statusPages", "requestMap", "dataMap", "statusMap">>

\* The labels at the end of SynchronousRequest, each undoing one call.
Unmapped(h) == h \ {"statusMap", "dataMap", "requestMap", "statusPages", "request"}

RequestUnscaled(lba, size, buffer, op) ==
    [state |-> "waiting", result |-> "none", op |-> op, sector |-> lba,
     from |-> lba * ctx.blockSize, size |-> size, buffer |-> buffer, shared |-> buffer,
     hostStatus |-> "ioerr", mapped |-> {"request", "status"} \cup (IF size > 0 THEN {"data"} ELSE {}),
     next |-> (host.ring.availIdx + 1) % IndexModulus]

Request(lba, size, buffer, op) ==
    [state |-> "waiting", result |-> "none", op |-> op, sector |-> lba * ctx.blockSize,
     from |-> lba * ctx.blockSize, size |-> size, buffer |-> buffer, shared |-> buffer,
     hostStatus |-> "ioerr", mapped |-> {"request", "status"} \cup (IF size > 0 THEN {"data"} ELSE {}),
     next |-> (host.ring.availIdx + 1) % IndexModulus]

Chain(size) ==
    LET d0 == VirtioAppendDesc(host.ring.desc, 0, "request", TRUE)
        d1 == VirtioAppendDesc(d0, 1, "data", TRUE)
    IN  IF size > 0 THEN VirtioAppendDesc(d1, 2, "status", FALSE) ELSE VirtioAppendDesc(d0, 1, "status", FALSE)

\* Up to the notification; when that fails the request stays in the ring.
SynchronousRequest(lba, size, buffer, op) ==
    LET r == Request(lba, size, buffer, op)
        h == [host EXCEPT !.ring = Published(host.ring, Chain(size))]
    IN  \/ \E i \in 1 .. Len(RequestCalls) :
             /\ Fails(RequestCalls[i])
             /\ held' = held \cup Unmapped(Calls(RequestCalls, i - 1))
             /\ call' = [NoCall EXCEPT !.result = "error"]
             /\ UNCHANGED host
        \/ /\ host' = SetQueueNotify(h)
           /\ call' = r
           /\ held' = held \cup Calls(RequestCalls, 5)
        \/ /\ Fails("notify")
           /\ (host.ring.availIdx - host.ring.usedIdx) % IndexModulus < MaxLost
           /\ host' = h
           /\ call' = [NoCall EXCEPT !.result = "error"]
           /\ UNCHANGED held

\* A request for nothing, or to flush without a cache, succeeds at once.
NothingToDo == call' = [NoCall EXCEPT !.result = "success"] /\ UNCHANGED <<held, host>>

VirtioBlkReadBlocks(lba, size) ==
    /\ step = "started" /\ call.state = "idle"
    /\ \/ size = 0 /\ NothingToDo
       \/ /\ size > 0 /\ VerifyReadWriteRequest(lba, size, FALSE)
          /\ SynchronousRequest(lba, size, [i \in 1 .. size |-> -1], "in")
    /\ UNCHANGED <<step, ctx>>

VirtioBlkWriteBlocks(lba, size, tag) ==
    /\ step = "started" /\ call.state = "idle"
    /\ \/ size = 0 /\ NothingToDo
       \/ /\ size > 0 /\ VerifyReadWriteRequest(lba, size, TRUE)
          /\ SynchronousRequest(lba, size, [i \in 1 .. size |-> tag], "out")
    /\ UNCHANGED <<step, ctx>>

VirtioBlkFlushBlocks ==
    /\ step = "started" /\ call.state = "idle"
    /\ \/ ~ctx.writeCaching /\ NothingToDo
       \/ ctx.writeCaching /\ SynchronousRequest(0, 0, <<>>, "flush")
    /\ UNCHANGED <<step, ctx>>

\* The end of VirtioFlush and of SynchronousRequest: the poll ends when the device has used
\* everything that was made available; what a read brought is there once the buffer is unmapped.
RequestDone ==
    /\ call.state = "waiting"
    /\ host.ring.usedIdx = call.next
    /\ LET ok == call.hostStatus = "ok"
           done(result) == call' = [call EXCEPT !.state = "idle", !.mapped = {}, !.result = result,
                                                !.buffer = IF @ # <<>> /\ call.op = "in" THEN call.shared ELSE @]
       IN  \/ done(IF ok THEN "success" ELSE "error")
           \/ Fails("unmap") /\ call.op = "in" /\ done("error")
    /\ held' = Unmapped(held)
    /\ UNCHANGED <<step, ctx, host>>

-----------------------------------------------------------------------------
\* The device takes the next chain from the available ring, once it was notified, follows its
\* descriptors and reports it used.
RECURSIVE ChainFrom(_)
ChainFrom(i) ==
    LET d == host.ring.desc[i]
    IN  {d.buffer} \cup IF d.next THEN ChainFrom((i + 1) % QueueSize) ELSE {}

Device ==
    /\ "driverOk" \in host.status
    /\ host.notified
    /\ host.ring.usedIdx # host.ring.availIdx
    /\ LET chain == ChainFrom(host.ring.avail[host.ring.usedIdx % QueueSize])
           used  == [host EXCEPT !.ring.usedIdx = (@ + 1) % IndexModulus,
                                 !.notified = (host.ring.usedIdx + 1) % IndexModulus # host.ring.availIdx,
                                 !.stale = @ \/ ~(chain \subseteq call.mapped)]
       IN  \/ /\ host' = used
              /\ call' = [call EXCEPT !.hostStatus = "ioerr"]
           \/ /\ call.op = "in"
              /\ host' = used
              /\ call' = [call EXCEPT !.hostStatus = "ok",
                                      !.shared = [i \in 1 .. call.size |-> host.disk[call.sector + i - 1]]]
           \/ /\ call.op = "out"
              /\ call' = [call EXCEPT !.hostStatus = "ok"]
              /\ host' = [used EXCEPT !.disk = [s \in DOMAIN @ |->
                             IF s \in call.sector .. call.sector + call.size - 1
                             THEN call.shared[s - call.sector + 1] ELSE @[s]]]
           \/ /\ call.op = "flush"
              /\ call' = [call EXCEPT !.hostStatus = "ok"]
              /\ host' = used
    /\ UNCHANGED <<held, step, ctx>>

Next ==
    \/ Virtio10BindingStart
    \/ Virtio10BindingStop
    \/ VirtioBlkDriverBindingStart
    \/ VirtioBlkDriverBindingStop
    \/ VirtioBlkUninit
    \/ VirtioBlkExitBoot
    \/ \E lba \in 0 .. ctx.lastBlock + 1, size \in 0 .. MaxBlocks * ctx.blockSize :
          \/ VirtioBlkReadBlocks(lba, size)
          \/ \E t \in Tags : VirtioBlkWriteBlocks(lba, size, t)
    \/ VirtioBlkFlushBlocks
    \/ RequestDone
    \/ Device

Spec == Init /\ [][Next]_vars

-----------------------------------------------------------------------------

\* A request that reports success has read or written exactly the sectors of the blocks asked
\* for, whatever requests failed before it and wherever the ring's indices wrap
\* (SynchronousRequest, VirtioFlush).
RequestsExact ==
    (call.state = "idle" /\ call.result = "success" /\ call.op # "flush") =>
        call.buffer = [i \in 1 .. call.size |-> host.disk[call.from + i - 1]]

\* A device that may work has a ring that is mapped and has agreed on the features the driver
\* relies on, and it never follows a descriptor into memory that was given back; none works
\* when boot services are over, also after a start that failed (VirtioBlkInit,
\* VirtioBlkUninit, VirtioBlkExitBoot).
DeviceSeesLiveMemory ==
    /\ "driverOk" \in host.status =>
          /\ step # "exited"
          /\ {"ring", "ringMap"} \subseteq held
          /\ host.enabled
          /\ host.driver.lo = host.dev.offered.lo \cap Wanted.lo
          /\ host.driver.hi = host.dev.offered.hi \cap Wanted.hi
    /\ ~host.stale
=============================================================================
