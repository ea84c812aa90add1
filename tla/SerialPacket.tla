---------------------------- MODULE SerialPacket ----------------------------
(***************************************************************************)
(* The login packet of the game MuOnline on its way through the client     *)
(* (ghp_send, SetSerialAndGetLogin): the hook decrypts it, takes the name  *)
(* of the account out of it, puts the serial in that GHPServer has sent,   *)
(* encrypts it again and lets it go, if the call sends this packet and     *)
(* nothing else.  The game and its server are external; they use the same  *)
(* codec.  Every packet of one of the two lengths is taken for a login.    *)
(* One call is followed: the next one depends on none of its results.      *)
(*                                                                         *)
(* "plain" and the field "serial" of "sending" are history.                *)
(***************************************************************************)
EXTENDS PacketCodec

CONSTANTS
    Logins,     \* names of accounts: ten bytes, filled up with zeros
    Serials,    \* serials: sixteen bytes
    Counters,   \* first bytes of packets
    Fills       \* what the other fields consist of

ASSUME PacketAssumption ==
    /\ \A l \in Logins : l \in Seq(0 .. 255) /\ Len(l) = 10
    /\ \A s \in Serials : s \in Seq(0 .. 255) /\ Len(s) = 16
    /\ Counters \subseteq 0 .. 255 /\ Fills \subseteq 0 .. 255

NoSerial == <<>>
Login == \hF1
OtherCode == \h30
Sizes == {\h18, \h44, \h65}

VARIABLES
    GameSerial,     \* the serial of the game, if SerialReceived
    GameLogin,      \* the name for GHPServer
    plain,          \* the packet as the game made it
    sending,        \* the game's call of send: pc, size, wire, alone, serial
    got             \* the packet as the game's server reads it

packetVars == <<GameSerial, GameLogin, plain, sending, got>>

PacketInit ==
    /\ GameSerial = NoSerial /\ GameLogin = <<>>
    /\ plain = <<>> /\ got = <<>>
    /\ sending = [pc |-> "idle", size |-> 0, wire |-> <<>>, alone |-> TRUE, serial |-> NoSerial]

-----------------------------------------------------------------------------
DecSize(size) == ((size - 2) * 8) \div 11
EncSize(size) == ((DecSize(size) + 2) * 11) \div 8

(* PCK_H_GAME_SERIAL.  A serial replaces the one before, and one of zeros  *)
(* resets SerialReceived: NoSerial stands for the reset flag.              *)
ReceiveSerial(serial) ==
    /\ GameSerial' = serial
    /\ UNCHANGED <<GameLogin, plain, sending, got>>

(* The game: counter, code, 1, the name, other fields.                     *)
GameSends(size, counter, code, login, fill, alone) ==
    /\ sending.pc = "idle"
    /\ LET head == <<counter, code, 1>> \o EncDecLogin(login)
       IN  plain' = head \o [b \in 1 .. (DecSize(size) - Len(head)) |-> fill]
    /\ sending' = [pc |-> "hook", size |-> size, alone |-> alone, serial |-> NoSerial,
                wire |-> EncryptC3asClient(EncXor32(plain', 2))]
    /\ UNCHANGED <<GameSerial, GameLogin, got>>

-----------------------------------------------------------------------------
IsSerialPacket(size) == size \in {\h44, \h65}
SerialAt(size) == IF size = \h44 THEN 32 ELSE 52

WithSerial(bytes, size, serial) ==
    [b \in DOMAIN bytes |->
        IF b - SerialAt(size) \in 1 .. 16 THEN serial[b - SerialAt(size)] ELSE bytes[b]]

\* A string ends at its first zero.
CString(bytes) ==
    LET ends == {b \in DOMAIN bytes : bytes[b] = 0}
    IN  IF ends = {} THEN bytes
        ELSE SubSeq(bytes, 1, (CHOOSE b \in ends : \A e \in ends : b <= e) - 1)
NameIn(bytes) == CString(EncDecLogin(SubSeq(bytes, 4, 13)))

SetSerialAndGetLogin ==
    LET dec == DecXor32(DecryptC3asServer(sending.wire), 2)
    IN  /\ GameLogin' = NameIn(dec)
        /\ sending' = [sending EXCEPT !.pc = "sent", !.serial = GameSerial,
               !.wire = IF sending.alone /\ EncSize(sending.size) = sending.size
                        THEN EncryptC3asClient(
                                 EncXor32(WithSerial(dec, sending.size, GameSerial), 2))
                        ELSE @]

ghp_send ==
    /\ sending.pc = "hook"
    /\ IF GameSerial # NoSerial /\ IsSerialPacket(sending.size)
       THEN SetSerialAndGetLogin
       ELSE sending' = [sending EXCEPT !.pc = "sent"] /\ UNCHANGED GameLogin
    /\ UNCHANGED <<GameSerial, plain, got>>

(* The game's server.                                                      *)
ServerReads ==
    /\ sending.pc = "sent"
    /\ got' = DecXor32(DecryptC3asServer(sending.wire), 2)
    /\ sending' = [sending EXCEPT !.pc = "read"]
    /\ UNCHANGED <<GameSerial, GameLogin, plain>>

PacketNext ==
    \/ \E serial \in Serials \cup {NoSerial} : ReceiveSerial(serial)
    \/ \E size \in Sizes, counter \in Counters, code \in {Login, OtherCode},
          login \in Logins, fill \in Fills, alone \in BOOLEAN :
           GameSends(size, counter, code, login, fill, alone)
    \/ ghp_send \/ ServerReads

PacketSpec == PacketInit /\ [][PacketNext]_packetVars

-----------------------------------------------------------------------------
(* The game's server reads what the game wrote, except that the serial is  *)
(* in its place in a packet of either length that was sent alone after the *)
(* serial had come; and the name for GHPServer is the one under which the  *)
(* game's server knows the player.                                         *)
LoginArrives ==
    sending.pc = "read" =>
        /\ got = IF sending.serial # NoSerial /\ sending.alone
                 THEN WithSerial(plain, sending.size, sending.serial) ELSE plain
        /\ sending.serial # NoSerial => GameLogin = NameIn(got)
=============================================================================
