SPECIFICATION SafeSpec
CONSTANTS
    Threads = {t1, t2, t3, t4}
PROPERTY
    LastReaderWakesWriter
