----------------------------- MODULE ModbusFrames -----------------------------
(***************************************************************************)
(* The frames of the first firmware (MBtask.c), byte by byte: both CRCs,   *)
(* the request of the master, its check of an answer, the slave's reply to *)
(* a frame in its buffer.  A frame is the sequence of its bytes; a buffer  *)
(* may hold more bytes, of earlier frames.                                 *)
(***************************************************************************)
EXTENDS Naturals, SequencesExt, Bitwise

MAX_MB_BUFSIZE == 50
MB_SLAVE_ADDRESS == 200
MB_SLAVE_REG_COUNT == 11
MB_MIN_FRAME_LEN == 5
MB_CMD_READ_REGS == 3
MB_ERROR_COMMAND == 1
MB_ERROR_WRONG_ADDRESS == 2
MB_ERROR_WRONG_VALUE == 3

-----------------------------------------------------------------------------
crc16_table == <<
        0, 49345, 49537,   320, 49921,   960,   640, 49729,
    50689,  1728,  1920, 51009,  1280, 50625, 50305,  1088,
    52225,  3264,  3456, 52545,  3840, 53185, 52865,  3648,
     2560, 51905, 52097,  2880, 51457,  2496,  2176, 51265,
    55297,  6336,  6528, 55617,  6912, 56257, 55937,  6720,
     7680, 57025, 57217,  8000, 56577,  7616,  7296, 56385,
     5120, 54465, 54657,  5440, 55041,  6080,  5760, 54849,
    53761,  4800,  4992, 54081,  4352, 53697, 53377,  4160,
    61441, 12480, 12672, 61761, 13056, 62401, 62081, 12864,
    13824, 63169, 63361, 14144, 62721, 13760, 13440, 62529,
    15360, 64705, 64897, 15680, 65281, 16320, 16000, 65089,
    64001, 15040, 15232, 64321, 14592, 63937, 63617, 14400,
    10240, 59585, 59777, 10560, 60161, 11200, 10880, 59969,
    60929, 11968, 12160, 61249, 11520, 60865, 60545, 11328,
    58369,  9408,  9600, 58689,  9984, 59329, 59009,  9792,
     8704, 58049, 58241,  9024, 57601,  8640,  8320, 57409,
    40961, 24768, 24960, 41281, 25344, 41921, 41601, 25152,
    26112, 42689, 42881, 26432, 42241, 26048, 25728, 42049,
    27648, 44225, 44417, 27968, 44801, 28608, 28288, 44609,
    43521, 27328, 27520, 43841, 26880, 43457, 43137, 26688,
    30720, 47297, 47489, 31040, 47873, 31680, 31360, 47681,
    48641, 32448, 32640, 48961, 32000, 48577, 48257, 31808,
    46081, 29888, 30080, 46401, 30464, 47041, 46721, 30272,
    29184, 45761, 45953, 29504, 45313, 29120, 28800, 45121,
    20480, 37057, 37249, 20800, 37633, 21440, 21120, 37441,
    38401, 22208, 22400, 38721, 21760, 38337, 38017, 21568,
    39937, 23744, 23936, 40257, 24320, 40897, 40577, 24128,
    23040, 39617, 39809, 23360, 39169, 22976, 22656, 38977,
    34817, 18624, 18816, 35137, 19200, 35777, 35457, 19008,
    19968, 36545, 36737, 20288, 36097, 19904, 19584, 35905,
    17408, 33985, 34177, 17728, 34561, 18368, 18048, 34369,
    33281, 17088, 17280, 33601, 16640, 33217, 32897, 16448 >>

MB_GetCRC(bytes) ==
    LET Step(crc, b) == (crc \div 256) ^^ crc16_table[((b ^^ crc) % 256) + 1]
    IN FoldLeft(Step, 65535, bytes)

PolyCRC == 40961

CalculateCRC16(bytes) ==
    LET Shift(crc, j) ==
            IF crc % 2 = 1 THEN (crc \div 2) ^^ PolyCRC ELSE crc \div 2
        Step(crc, b) == FoldLeft(Shift, crc ^^ b, [j \in 1 .. 8 |-> j])
    IN FoldLeft(Step, 65535, bytes)

(* Mutant of CRCBytes: the high byte first, as for the other numbers.      *)
HighCRCFirst(crc) == <<crc \div 256, crc % 256>>

CRCBytes(crc) == <<crc % 256, crc \div 256>>

WithCRC(bytes) == bytes \o CRCBytes(MB_GetCRC(bytes))

-----------------------------------------------------------------------------
(* MB_Master_Request: numbers go out with the high byte first.             *)
HighFirst(n) == <<n \div 256, n % 256>>

Request(address, StartReg, RegNum) ==
    WithCRC(<<address, MB_CMD_READ_REGS>>
                \o HighFirst(StartReg) \o HighFirst(RegNum))

(* The master's check.  The length comes from the frame; beyond its buffer *)
(* nothing is known of what the CRC is taken of.                           *)
AnswerLength(buf) == buf[3] + 5

CheckAnswer(buf, address) ==
    /\ buf[1] = address
    /\ buf[2] = MB_CMD_READ_REGS
    /\ AnswerLength(buf) <= Len(buf)
    /\ MB_GetCRC(SubSeq(buf, 1, AnswerLength(buf))) = 0

-----------------------------------------------------------------------------
(* The slave.  A reply replaces the request in the buffer; <<>> is none.   *)
MB_ErrorHandler(buf, error) ==
    WithCRC(<<buf[1], buf[2] | 128, error>>)

(* Registers are copied from memory, the low byte first.                   *)
LowFirst(n) == <<n % 256, n \div 256>>

RegistersOf(registers, StartReg, RegNum) ==
    FlattenSeq([i \in 1 .. RegNum |-> LowFirst(registers[StartReg + i - 1])])

LastRegister(StartReg, RegNum) == StartReg + RegNum

MB_ReadRegsHandler(buf, registers, StartReg, RegNum) ==
    IF RegNum > 126
    THEN MB_ErrorHandler(buf, MB_ERROR_WRONG_VALUE)
    ELSE IF LastRegister(StartReg, RegNum) > MB_SLAVE_REG_COUNT
    THEN MB_ErrorHandler(buf, MB_ERROR_WRONG_ADDRESS)
    ELSE WithCRC(<<buf[1], buf[2], 2 * RegNum>>
                     \o RegistersOf(registers, StartReg, RegNum))

MB_TransactionHandler(buf, len, registers) ==
    LET StartReg == 256 * buf[3] + buf[4]
        RegNum == 256 * buf[5] + buf[6]
        CRC_Sum == buf[7] + 256 * buf[8]
    IN IF \/ len < MB_MIN_FRAME_LEN
          \/ buf[1] # MB_SLAVE_ADDRESS
          \/ CRC_Sum # MB_GetCRC(SubSeq(buf, 1, 6))
       THEN <<>>
       ELSE IF buf[2] = MB_CMD_READ_REGS
       THEN MB_ReadRegsHandler(buf, registers, StartReg, RegNum)
       ELSE MB_ErrorHandler(buf, MB_ERROR_COMMAND)
=============================================================================
