----------------------------- MODULE MCProducer -----------------------------
(***************************************************************************)
(* The instance of the producer: files of two to four rows of two devices, *)
(* fewer and more than the limit, with hours a device has no row of.       *)
(***************************************************************************)
EXTENDS Producer

Row(device, hour, temp, light) == [device |-> device, hour |-> hour, temp |-> temp, light |-> light]

MCFiles == { <<Row(2, 0, 4, TRUE), Row(1, 1, 6, FALSE)>>,
             <<Row(1, 0, 3, TRUE), Row(2, 0, 7, FALSE), Row(1, 1, 8, FALSE)>>,
             <<Row(1, 0, 3, TRUE), Row(1, 0, 8, TRUE), Row(2, 1, 7, FALSE), Row(1, 0, 4, FALSE)>> }
=============================================================================
