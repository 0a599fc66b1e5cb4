-------------------------------- MODULE Adma --------------------------------
(***************************************************************************)
(* The ADMA2 descriptor table of the SD host controller: how the driver    *)
(* splits a buffer of BlkCnt blocks of BlkSize bytes into descriptors of   *)
(* at most XSDPS_DESC_MAX_LENGTH bytes, and how the controller reads them. *)
(* A length of 0 stands for 65536 bytes, so the 16-bit length field of a   *)
(* full descriptor is what (u16)65536 leaves.                              *)
(***************************************************************************)
EXTENDS Naturals, Sequences

XSDPS_DESC_MAX_LENGTH == 65536   \* bytes a descriptor can move
NUM_DESC == 32                   \* entries of the table in the instance
U16 == 65536

\* Bytes of a transfer; the table is set up with a 16-bit block count, so
\* this product stays below 2^32
Bytes(BlkCnt, BlkSize) == BlkCnt * BlkSize

TotalDescLines(total) ==
    IF total < XSDPS_DESC_MAX_LENGTH THEN 1
    ELSE total \div XSDPS_DESC_MAX_LENGTH
         + IF total % XSDPS_DESC_MAX_LENGTH # 0 THEN 1 ELSE 0

\* Entry number d (from 0) of the table for total bytes at address buff
Descriptor(buff, total, d) ==
    LET last == TotalDescLines(total) - 1
    IN  [address |-> buff + d * XSDPS_DESC_MAX_LENGTH,
         length  |-> IF d < last THEN 0
                     ELSE (total - last * XSDPS_DESC_MAX_LENGTH) % U16,
         end     |-> d = last]

\* The table as the driver writes it
Setup64ADMA2DescTbl(buff, BlkCnt, BlkSize) ==
    LET total == Bytes(BlkCnt, BlkSize)
    IN  [n \in 1 .. TotalDescLines(total) |-> Descriptor(buff, total, n - 1)]

\* XSdPs_Read and XSdPs_Write refuse what the table cannot hold; here the
\* block count has 32 bits and the product is taken modulo 2^32
FitsTable(BlkCnt, BlkSize) ==
    LET wraps == U16 * (U16 \div BlkSize)      \* 2^32 / BlkSize
    IN  ~ (Bytes(BlkCnt % wraps, BlkSize) > NUM_DESC * XSDPS_DESC_MAX_LENGTH)

-----------------------------------------------------------------------------
(* What the controller makes of a table.                                   *)

\* Bytes moved by an entry
Moves(e) == IF e.length = 0 THEN U16 ELSE e.length

\* Bytes a table describes; its entries follow each other (TableTilesBuffer)
Described(table) ==
    LET last == table[Len(table)] IN last.address + Moves(last) - table[1].address

\* Addresses covered by an entry
Covers(e, a) == e.address <= a /\ a < e.address + Moves(e)
=============================================================================
