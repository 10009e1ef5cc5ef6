-------------------------------- MODULE Disk --------------------------------
(***************************************************************************)
(* What read_sectors of a DiskDevice promises the file systems (system.h): *)
(* one request at a time is taken, each is answered once, with the blocks  *)
(* asked for or with a failure, and an answer stands until the next        *)
(* request.  When something goes wrong below the driver, the promise is    *)
(* withdrawn for the request under way, or for one yet to be made.         *)
(***************************************************************************)
CONSTANTS Requests, NoRequest,
          Contents(_, _),  \* the blocks of a disk that answer a request
          Refuses          \* whether the device may refuse what it is asked

VARIABLES disk,       \* the disk: its blocks never change
          request,    \* the request under way, or NoRequest
          promised,   \* whether its answer will be right
          status,     \* "idle", "asked", "failure" or "success"
          data        \* the blocks of the answer

vars == <<disk, request, promised, status, data>>

Init == /\ request = NoRequest /\ promised = FALSE
        /\ status = "idle" /\ data = <<>>

Ask(r) == /\ status # "asked"
          /\ status' = "asked" /\ request' = r /\ data' = <<>>
          /\ promised' \in BOOLEAN
          /\ UNCHANGED disk

Break == /\ status = "asked"
         /\ promised' = FALSE
         /\ UNCHANGED <<disk, request, status, data>>

\* The request is over.
Answered == request' = NoRequest /\ promised' = FALSE /\ UNCHANGED disk

Succeed == /\ status = "asked" /\ status' = "success"
           /\ promised => data' = Contents(disk, request)
           /\ Answered

Fail == /\ status = "asked" /\ status' = "failure" /\ data' = <<>>
        /\ promised => Refuses
        /\ Answered

Next == (\E r \in Requests : Ask(r)) \/ Break \/ Succeed \/ Fail

Spec == Init /\ [][Next]_vars
=============================================================================
