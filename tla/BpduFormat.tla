----------------------------- MODULE BpduFormat -----------------------------
(***************************************************************************)
(* The layout of a BPDU: the sizes of bpdu_t, what txConfig, txTcn and     *)
(* txMstp put in its header, the LLC header MSTP_OUT_tx_bpdu adds and      *)
(* bridge_bpdu_rcv takes off, and the validation of MSTP_IN_rx_bpdu.       *)
(***************************************************************************)
EXTENDS Integers, Sequences

CONSTANT MAX_STANDARD_MSTIS     \* MSTI messages a bpdu_t has room for

ASSUME StandardAssumption == MAX_STANDARD_MSTIS \in 0..64

protoSTP == 0
protoRSTP == 2
protoMSTP == 3

TCN_BPDU_SIZE == 4
CONFIG_BPDU_SIZE == 35
RST_BPDU_SIZE == 36
MST_BPDU_SIZE_WO_MSTI_MSGS == 102
MST_BPDU_VER3LEN_WO_MSTI_MSGS == 64
MSTI_MSG_SIZE == 16

LLC_PDU_LEN_U == 3
ETH_HLEN == 14
ETH_DATA_LEN == 1500
ETH_ZLEN == 60              \* an Ethernet frame is padded to this length

\* The BPDUs the transmit functions build: type, version, the version 1 and
\* version 3 lengths, the MSTIDs of the MSTI messages and the octets sent.
txConfig == [ type |-> "Config", version |-> protoSTP, v1 |-> 0, v3 |-> 0,
              mstis |-> <<>>, size |-> CONFIG_BPDU_SIZE ]

txTcn == [txConfig EXCEPT !.type = "TCN", !.size = TCN_BPDU_SIZE]

\* trees is the list of trees of the port; its first entry is skipped.
txMstp(trees, ForceProtocolVersion) ==
    LET total == (Len(trees) - 1) * MSTI_MSG_SIZE
    IN  IF ForceProtocolVersion < protoMSTP
        THEN [txConfig EXCEPT !.type = "RST", !.version = protoRSTP,
                              !.size = RST_BPDU_SIZE]
        ELSE [ type |-> "RST", version |-> protoMSTP, v1 |-> 0,
               v3 |-> MST_BPDU_VER3LEN_WO_MSTI_MSGS + total,
               mstis |-> Tail(trees),
               size |-> MST_BPDU_SIZE_WO_MSTI_MSGS + total ]

\* MSTP_OUT_tx_bpdu and the wire: the LLC length field, and the length of
\* the frame the packet socket of the receiver sees.
Frame(b) ==
    LET l == b.size + LLC_PDU_LEN_U
        len == ETH_HLEN + l
    IN  [bpdu |-> b, len8023 |-> l, len |-> IF len < ETH_ZLEN THEN ETH_ZLEN
                                            ELSE len]

\* The checks of bridge_bpdu_rcv, and the size it passes on.
bridge_bpdu_rcv(f) ==
    IF /\ f.len > ETH_HLEN + LLC_PDU_LEN_U
       /\ f.len8023 <= ETH_DATA_LEN
       /\ f.len8023 <= f.len - ETH_HLEN
       /\ f.len8023 >= LLC_PDU_LEN_U
    THEN f.len8023 - LLC_PDU_LEN_U
    ELSE 0

\* What MSTP_IN_rx_bpdu takes a BPDU of this size for: the version it is
\* treated as and the number of MSTI messages it is read with.
Valid(version, n) == [ok |-> TRUE, version |-> version, mstis |-> n]
Invalid == [ok |-> FALSE, version |-> protoSTP, mstis |-> 0]

MSTP_IN_rx_bpdu(b, size) ==
    LET mstis_size == b.v3 - MST_BPDU_VER3LEN_WO_MSTI_MSGS
    IN  IF size < TCN_BPDU_SIZE THEN Invalid ELSE
        CASE b.type = "TCN" -> Valid(protoSTP, 0)
          [] b.type = "Config" ->
                IF size < CONFIG_BPDU_SIZE THEN Invalid ELSE Valid(protoSTP, 0)
          [] b.type = "RST" ->
                IF b.version = protoRSTP
                THEN IF size < RST_BPDU_SIZE THEN Invalid
                     ELSE Valid(protoRSTP, 0)
                ELSE IF b.version < protoMSTP \/ size < CONFIG_BPDU_SIZE
                THEN Invalid
                ELSE IF \/ size < MST_BPDU_SIZE_WO_MSTI_MSGS
                        \/ b.v1 # 0
                        \/ mstis_size < 0
                        \/ mstis_size > MAX_STANDARD_MSTIS * MSTI_MSG_SIZE
                        \/ mstis_size % MSTI_MSG_SIZE # 0
                THEN Valid(protoRSTP, 0)
                ELSE Valid(protoMSTP, mstis_size \div MSTI_MSG_SIZE)

\* From the transmit function of one mstpd to the validation of another.
Received(b) == MSTP_IN_rx_bpdu(b, bridge_bpdu_rcv(Frame(b)))
=============================================================================
