-------------------------------- MODULE MCSession --------------------------------
(* Instances of Session for TLC. *)
EXTENDS Session

CONSTANTS t1, t2

AllFeatures ==
    {"REPLY_ACK", "LOG_SHMFD", "MQ", "RESET_DEVICE", "CONFIG", "BACKEND_REQ", "SHARED_OBJECT",
     "INFLIGHT_SHMFD", "CONFIGURE_MEM_SLOTS", "SHMEM", "DEVICE_STATE", "PAGEFAULT"}

MCProtoChoices == {{}, AllFeatures \ {"REPLY_ACK"}, AllFeatures}
MCFeatureChoices == SUBSET {PF, "OTHER"}
MCDeviceFeatures == {PF}
================================================================================
