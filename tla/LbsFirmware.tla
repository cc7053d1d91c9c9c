---------------------------- MODULE LbsFirmware ----------------------------
(***************************************************************************)
(* How if_sdio.c brings the firmware to a card: a helper in blocks of at   *)
(* most 60 bytes, then the firmware itself, of which the card asks for one *)
(* piece after another.  The host is claimed for the whole of each phase,  *)
(* so that only the card acts in between.                                  *)
(***************************************************************************)
EXTENDS Integers

CONSTANTS
    HelperSize,    \* the bytes of the two images
    RealSize,
    Requests,      \* what the card's size register may say
    FirmwareFaults \* \subseteq {"file", "memory", "bus", "boot"}

ASSUME ImagesAssumption ==
    /\ HelperSize \in Nat
    /\ RealSize \in Nat
    /\ Requests \subseteq Nat

VARIABLES
    fpc,      \* "scratch", "helper", "helper_boot", "request", "chunks",
              \* "boot", "ready" or "failed"
    image,    \* the size of the image being sent
    firmware, \* the offset in it of the next byte to send
    size,     \* the bytes of the image left
    req_size, \* the bytes still to send of the piece the card asked for
    asked,    \* what the card still waits for of that piece
    block     \* the last write: where it began, its data, its length

firmwareVars == <<fpc, image, firmware, size, req_size, asked, block>>

Least(x, y) == IF x <= y THEN x ELSE y

NoBlock == [at |-> 0, data |-> 0, length |-> 0]

(* if_sdio_prog_firmware looks at the scratch register first.              *)
FirmwareInit ==
    /\ fpc = "scratch"
    /\ image = 0 /\ firmware = 0 /\ size = 0 /\ req_size = 0 /\ asked = 0
    /\ block = NoBlock

AlreadyLoaded ==
    /\ fpc = "scratch"
    /\ fpc' = "ready"
    /\ UNCHANGED <<image, firmware, size, req_size, asked, block>>

(* An image is read from its file and a buffer for its chunks allocated.   *)
StartImage(from, to, bytes) ==
    /\ fpc = from
    /\ fpc' = to
    /\ image' = bytes /\ size' = bytes /\ firmware' = 0
    /\ req_size' = 0 /\ asked' = 0
    /\ block' = NoBlock

StartHelper == StartImage("scratch", "helper", HelperSize)

(* Each block of the helper carries its length in 4 bytes of its own.      *)
HelperBlock ==
    /\ fpc = "helper" /\ size > 0
    /\ LET chunk_size == Least(size, 60)
       IN  /\ block' = [at |-> firmware, data |-> chunk_size, length |-> 64]
           /\ firmware' = firmware + chunk_size
           /\ size' = size - chunk_size
    /\ UNCHANGED <<fpc, image, req_size, asked>>

(* An empty block marks the end; the helper runs when it asks for data.    *)
HelperSent ==
    /\ fpc = "helper" /\ size = 0
    /\ fpc' = "helper_boot"
    /\ block' = [at |-> firmware, data |-> 0, length |-> 64]
    /\ UNCHANGED <<image, firmware, size, req_size, asked>>

StartReal == StartImage("helper_boot", "request", RealSize)

(* The card asks: nothing, when it gives up; an odd number, for an error.  *)
Granted_Whatever(bytes) == bytes
Granted(bytes) == Least(bytes, size)

Request(bytes) ==
    /\ fpc = "request" /\ size > 0
    /\ \/ /\ bytes > 0 /\ bytes % 2 = 0
          /\ fpc' = "chunks"
          /\ req_size' = Granted(bytes)
          /\ asked' = bytes
       \/ /\ bytes = 0 \/ bytes % 2 = 1
          /\ fpc' = "failed"
          /\ UNCHANGED <<req_size, asked>>
    /\ UNCHANGED <<image, firmware, size, block>>

Chunk512 ==
    /\ fpc = "chunks" /\ req_size > 0
    /\ LET chunk_size == Least(req_size, 512)
       IN  /\ block' = [at |-> firmware, data |-> chunk_size,
                        length |-> ((chunk_size + 31) \div 32) * 32]
           /\ firmware' = firmware + chunk_size
           /\ size' = size - chunk_size
           /\ req_size' = req_size - chunk_size
           /\ asked' = asked - chunk_size
    /\ UNCHANGED <<fpc, image>>

PieceSent ==
    /\ fpc = "chunks" /\ req_size = 0
    /\ fpc' = "request"
    /\ UNCHANGED <<image, firmware, size, req_size, asked, block>>

RealSent ==
    /\ fpc = "request" /\ size = 0
    /\ fpc' = "boot"
    /\ UNCHANGED <<image, firmware, size, req_size, asked, block>>

(* The firmware runs when the scratch register says so.                    *)
Booted ==
    /\ fpc = "boot"
    /\ fpc' = "ready"
    /\ UNCHANGED <<image, firmware, size, req_size, asked, block>>

(* No file, no memory, an error of the bus, a second without an answer.    *)
DownloadFails ==
    /\ fpc \notin {"ready", "failed"}
    /\ \/ "file" \in FirmwareFaults /\ fpc \in {"scratch", "helper_boot"}
       \/ "memory" \in FirmwareFaults /\ fpc \in {"scratch", "helper_boot"}
       \/ "bus" \in FirmwareFaults
       \/ "boot" \in FirmwareFaults /\ fpc \in {"helper_boot", "boot"}
    /\ fpc' = "failed"
    /\ UNCHANGED <<image, firmware, size, req_size, asked, block>>

FirmwareNext ==
    \/ AlreadyLoaded \/ StartHelper \/ HelperBlock \/ HelperSent
    \/ StartReal \/ (\E bytes \in Requests : Request(bytes))
    \/ Chunk512 \/ PieceSent \/ RealSent \/ Booted \/ DownloadFails

FirmwareSpec == FirmwareInit /\ [][FirmwareNext]_firmwareVars
-----------------------------------------------------------------------------
(* Whatever the card asks for (if_sdio_prog_real): nothing is read beyond  *)
(* the end of an image, no write is longer than its buffer, a piece is no  *)
(* longer than the card asked for, and the firmware is awaited only when   *)
(* all of it was sent.                                                     *)
NeverBeyondTheImage ==
    /\ size >= 0 /\ req_size >= 0 /\ req_size <= asked
    /\ block.at + block.data <= image
    /\ block.data <= block.length /\ block.length <= 512
    /\ fpc \in {"helper", "helper_boot"} => block.data + 4 <= 64
    /\ fpc = "boot" => image = RealSize /\ firmware = RealSize
=============================================================================
