SPECIFICATION TimerSpec
CONSTANTS
    Boot = boot
    Op = {boot, o1}
    Attempt = {a1, a2}
    Bus = {b1, b2}
    None = None
PROPERTIES
    BootstrapEnds
