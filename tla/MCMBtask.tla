------------------------------ MODULE MCMBtask -------------------------------
(***************************************************************************)
(* Model-checking instance of MBtask, with the frames behind its abstract  *)
(* ones over bounded inputs.                                               *)
(***************************************************************************)
EXTENDS MBtask, ModbusFrames

SomeBytes == {0, 1, 85, 200, 255}
Messages ==
    [1 .. 1 -> 0 .. 255] \cup UNION {[1 .. n -> SomeBytes] : n \in 2 .. 4}

(* MBtask.c:311: the second CRC computes what the first reads off a table. *)
CRCsAgree == \A msg \in Messages : MB_GetCRC(msg) = CalculateCRC16(msg)

SomeRegisters == [r \in 0 .. MB_SLAVE_REG_COUNT - 1 |-> 257 * r]
SlaveRequests ==
    {Request(MB_SLAVE_ADDRESS, s, n) :
        s \in {0, 5, 10, 11, 255, 65535},
        n \in {0, 1, 2, 6, 11, 12, 126, 127, 65535}}

Flipped(f, k) ==
    LET i == (k - 1) \div 8 + 1 IN [f EXCEPT ![i] = @ ^^ (2 ^ ((k - 1) % 8))]

(* A request with one wrong bit, wherever it is, gets no reply.            *)
ErrorsGoUnanswered ==
    \A f \in SlaveRequests : \A k \in 1 .. 64 :
        MB_TransactionHandler(Flipped(f, k), 8, SomeRegisters) = <<>>

(* Every reply fits into the buffer, has a CRC the master's check accepts  *)
(* and as many values as were asked for, all within the registers; what is *)
(* beyond them is refused.                                                 *)
RepliesFit ==
    \A f \in SlaveRequests :
        LET reply == MB_TransactionHandler(f, 8, SomeRegisters)
            last == 256 * f[3] + f[4] + 256 * f[5] + f[6]
        IN /\ Len(reply) \in 1 .. MAX_MB_BUFSIZE
           /\ IF last <= MB_SLAVE_REG_COUNT
              THEN /\ CheckAnswer(reply, MB_SLAVE_ADDRESS)
                   /\ Len(reply) = 5 + 2 * (256 * f[5] + f[6])
              ELSE reply[2] = MB_CMD_READ_REGS + 128

(* The frames of MBtask as bytes in the master's buffer.  What a sensor    *)
(* measures is arbitrary; garbage is an answer with a wrong bit.           *)
AddressOf(s) == 101 + s

AnswerBytes(s, n) ==
    WithCRC(<<AddressOf(s), MB_CMD_READ_REGS, 2 * n>>
              \o [i \in 1 .. 2 * n |-> 40 * i])

BytesOf(f) ==
    CASE f.kind = "request" -> Request(AddressOf(f.sensor), 0, f.num)
      [] f.kind = "answer" -> AnswerBytes(f.sensor, f.num)
      [] OTHER -> Flipped(AnswerBytes(f.sensor, 2), 30)

InBuffer(bytes) ==
    [i \in 1 .. MAX_MB_BUFSIZE |-> IF i <= Len(bytes) THEN bytes[i] ELSE 0]

Checked ==
    [f \in Requests \cup Answers \cup {Garbage}, s \in Sensors |->
        CheckAnswer(InBuffer(BytesOf(f)), AddressOf(s))]

(* The bytes bear out what the tasks take for granted: when the master     *)
(* looks at a frame, its own request left in the buffer included, the test *)
(* of address, command and CRC tells a whole answer of the sensor asked;   *)
(* when the slave does, the rest holds.                                    *)
FramesAreSound ==
    /\ master.pc = "passed" =>
           (Valid(buffer.huart7) <=> Checked[buffer.huart7, master.sensor])
    /\ slave = "handle" => CRCsAgree /\ ErrorsGoUnanswered /\ RepliesFit
=============================================================================
