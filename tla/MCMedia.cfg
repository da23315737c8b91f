\* One image and its preview job, two workers that may both believe they hold the
\* lock, two attempts, one fault of a step and one press of the retry button.
CONSTANTS
    Versions = {v1}
    Images = {v1}
    Tasks = {"image_preview"}
    Workers = {w1, w2}
    MaxAttempts = 2
    MaxFaults = 1
    MaxRetries = 1
    NULL = NULL
SPECIFICATION LiveSpec
INVARIANTS TypeOK CompletedIsServed
PROPERTIES ImplementsQueue IndexSettles
