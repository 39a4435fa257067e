CONSTANTS
    static_addr <- MCStatic
    virtual_static_addr <- MCVirtualStatic
    Calls <- MCCalls
    BusAddresses <- MCBusAddresses
SPECIFICATION Spec
INVARIANTS VerifyPasses NoEmptyAddress FollowsBus
\* The software stops when the boot has ended, and a controller may be silent.
CHECK_DEADLOCK FALSE
