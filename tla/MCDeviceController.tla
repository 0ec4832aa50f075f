------------------------- MODULE MCDeviceController -------------------------
(* A public and a private site on the device, a private one elsewhere, and a *)
(* configuration that names no server.                                       *)
EXTENDS DeviceController

Local(private) == [private |-> private, kind |-> "local"]
MCConfigs == {Local(FALSE), Local(TRUE),
              [private |-> TRUE, kind |-> "external"],
              [private |-> FALSE, kind |-> "invalid"]}

\* A private site on the device.
MCPrivateLocal == {Local(TRUE)}
=============================================================================
