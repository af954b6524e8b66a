\* Setting database-file while frames flow: loadExternalDB resets and
\* refills the face database without GST_OBJECT_LOCK.
CONSTANTS
    f1 = f1
    f2 = f2
    f3 = f3
    DbFiles <- MCDbFiles
    MaxDb = 2
    FaceCounts = {1, 2}
    MaxDetected = 2
SPECIFICATION Spec
PROPERTY DbStableDuringRecognition
