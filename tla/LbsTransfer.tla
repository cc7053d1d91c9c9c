---------------------------- MODULE LbsTransfer ----------------------------
(***************************************************************************)
(* How much is moved over the bus: sdio_align_size (helper.c) pads the     *)
(* size of a transfer, and if_sdio_card_to_host reads that many bytes and  *)
(* hands the packet in them on.                                            *)
(***************************************************************************)
EXTENDS Integers

Smaller(x, y) == IF x <= y THEN x ELSE y

(* mmc_align_data_size: whole words.                                       *)
Words4(size) == ((size + 3) \div 4) * 4

(* sdio_align_size, for a function with blocks of blk bytes, on a card     *)
(* that moves several blocks at once or not: one request, if it can be.    *)
PaddedMany(blk, sz) ==
    LET size == Words4(sz)
        whole == Words4(((size + blk - 1) \div blk) * blk)
        rest == Words4(size % blk)
    IN  CASE size % blk = 0 -> size
          [] size % blk # 0 /\ whole % blk = 0 -> whole
          [] size % blk # 0 /\ whole % blk # 0 /\ rest <= Smaller(blk, 512) ->
                (size \div blk) * blk + rest
          [] OTHER -> sz

PaddedSingle(blk, sz) ==
    LET chunk == Smaller(blk, 512)
    IN  IF Words4(chunk) = chunk
        THEN (sz \div chunk) * chunk + Words4(sz % chunk)
        ELSE sz

AlignSize(blk, multi_block, sz) ==
    IF Words4(sz) <= Smaller(blk, 512) THEN Words4(sz)
    ELSE IF multi_block THEN PaddedMany(blk, sz)
    ELSE PaddedSingle(blk, sz)

(* if_sdio_card_to_host: the size is the card's scratch register, and the  *)
(* number of bytes read is kept in 16 bits; the packet begins with its own *)
(* length.  What is handed on is the packet's bytes after 4 of header.     *)
BytesRead(blk, multi_block, size) == AlignSize(blk, multi_block, size) % 65536

HandedOn(size, length) == size >= 4 /\ length <= size
=============================================================================
