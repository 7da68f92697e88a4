---------------------------- MODULE MCUsbDevice ----------------------------
(***************************************************************************)
(* The control requests of an enumeration.  For GET_DESCRIPTOR wValue is    *)
(* the size of the descriptor: one that fills its packet and is shorter     *)
(* than what the host asks for, and one the host cuts at a full packet.     *)
(***************************************************************************)
EXTENDS UsbDevice

R(name, value, index, length) ==
    [bRequest |-> name, wValue |-> value, wIndex |-> index, wLength |-> length]

MCRequests == {
    R("SetAddress", 5, 0, 0), R("SetConfiguration", 1, 0, 0),
    R("GetConfiguration", 0, 0, 1), R("GetDescriptor", 8, 0, 9),
    R("GetDescriptor", 9, 0, 8), R("SetFeature", 0, 1, 0),
    R("GetStatus", 0, 2, 2), R("SetInterface", 0, 0, 0)}
=============================================================================
