---------------------------- MODULE TxTimestamps ----------------------------
(***************************************************************************)
(* The transmit timestamps of a server's socket: how the loops of          *)
(* core/server/server_ip.go and core/server/server_scion.go match the      *)
(* timestamps that ReadTXTimestamp of net/udp/udp_linux.go takes from the  *)
(* socket's error queue with the packets they have written.                *)
(*                                                                         *)
(* The kernel (external) numbers the packets of a socket and puts a        *)
(* timestamp with the number of its packet into the error queue: in time,  *)
(* late, or never. A loop writes a packet, waits for a millisecond at most *)
(* and reads one timestamp.                                                *)
(***************************************************************************)
EXTENDS Integers, Sequences, FiniteSets

CONSTANTS
  IdRange,   \* the numbers of packets (2^32 in the code)
  MaxLate    \* bound on the timestamps that are late or left in the queue

VARIABLES
  txid,      \* the number that the loop expects next
  kid,       \* the number that the kernel assigns next
  errq,      \* the error queue
  coming,    \* the timestamps that are still to come, late
  txst,      \* the packet written last is being stamped ("writing"), or done
  used,      \* the number of the timestamp taken for it, NoStamp if none
  inTime     \* how many packets in a row were written with the queue empty and
             \* stamped in time, 2 for more

txVars == <<txid, kid, errq, coming, txst, used, inTime>>

NoStamp == -1

Inc(id) == (id + 1) % IdRange

\* The number of the packet written last.
Written == (kid + IdRange - 1) % IdRange

-----------------------------------------------------------------------------
(* The kernel.                                                             *)

InTime ==
  /\ errq' = Append(errq, kid)
  /\ inTime' = IF errq # <<>> THEN 0 ELSE IF inTime = 2 THEN 2 ELSE inTime + 1
  /\ UNCHANGED coming

Late ==
  /\ Cardinality(coming) + Len(errq) < MaxLate
  /\ coming' = coming \cup {kid} /\ inTime' = 0
  /\ UNCHANGED errq

Never == inTime' = 0 /\ UNCHANGED <<errq, coming>>

ArriveLate(id) ==
  /\ id \in coming /\ coming' = coming \ {id}
  /\ errq' = Append(errq, id)
  /\ UNCHANGED <<txid, kid, txst, used, inTime>>

-----------------------------------------------------------------------------
(* The loop.                                                               *)

Write ==
  /\ txst = "done" /\ txst' = "writing"
  /\ InTime \/ Late \/ Never
  /\ kid' = Inc(kid) /\ used' = NoStamp
  /\ UNCHANGED txid

\* Nothing is read. The packet may have been given a number all the same.
WriteFails ==
  /\ txst = "done" /\ kid' \in {kid, Inc(kid)}
  /\ used' = NoStamp /\ inTime' = 0
  /\ UNCHANGED <<txid, errq, coming, txst>>

\* Mutant: the number that is expected is not the next one.
ExpectSame(id) == txid

\* A timestamp of another packet than the expected one is not used, but the
\* next one is expected to follow it.
Expect(id) == Inc(id)

ReadTXTimestamp ==
  /\ txst = "writing" /\ txst' = "done"
  /\ IF errq = <<>>
     THEN UNCHANGED <<txid, errq, used>>
     ELSE LET id == Head(errq)
          IN  /\ errq' = Tail(errq)
              /\ IF id # txid THEN txid' = Expect(id) /\ UNCHANGED used
                              ELSE txid' = Inc(txid) /\ used' = id
  /\ UNCHANGED <<kid, coming, inTime>>

-----------------------------------------------------------------------------

Init ==
  /\ txid = 0 /\ kid = 0 /\ errq = <<>> /\ coming = {}
  /\ txst = "done" /\ used = NoStamp /\ inTime = 0

Next ==
  \/ Write \/ WriteFails \/ ReadTXTimestamp
  \/ \E id \in coming : ArriveLate(id)

Spec == Init /\ [][Next]_txVars

-----------------------------------------------------------------------------
(* Properties.                                                             *)

Ids == 0 .. IdRange - 1

TypeOK ==
  /\ txid \in Ids /\ kid \in Ids
  /\ errq \in Seq(Ids) /\ Len(errq) + Cardinality(coming) <= MaxLate + 1
  /\ coming \subseteq Ids
  /\ txst \in {"writing", "done"} /\ used \in Ids \cup {NoStamp}
  /\ inTime \in 0 .. 2

\* However many timestamps were lost or late, writes have failed and numbers have
\* wrapped around: as soon as the queue is empty again when responses are written
\* and they are stamped in time, at most the first of them is not stamped with
\* its own timestamp. (While a late timestamp is in the queue, each response can
\* be stamped with that of an earlier one.)
StampResync == txst = "done" /\ inTime = 2 => used = Written
=============================================================================
