SPECIFICATION MqttFairSpec
CONSTANTS
    Events = {"stock_change"}
    Threshold = 2
    RingSize = 2
    MaxLines = 0
    MaxDrops = 0
PROPERTY BootReported
